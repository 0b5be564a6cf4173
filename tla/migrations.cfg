CONSTANTS
  a = a
  b = b
  Operators = {a, b}
  Heads = {2, 4, 10}
  Marks = {"otps", "strays", "order_items"}
SPECIFICATION FairSpec
INVARIANT MigrationsTypeOK
INVARIANT RecordedIsReal
INVARIANT UpgradeWorksUnless
INVARIANT HeadServesModels
PROPERTY CommandEnds
