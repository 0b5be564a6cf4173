-------------------------- MODULE MigrationsProofs --------------------------
(***************************************************************************)
(* Proofs of the four invariants of Migrations, for any number of          *)
(* processes that run alembic: type correctness, RecordedIsReal,           *)
(* UpgradeWorksUnless and HeadServesModels.                                *)
(*                                                                         *)
(* First what each of the ten revisions makes of any database, statement   *)
(* by statement; from it the schema of a new database at each revision;    *)
(* then the inductive invariant, one lemma per action, and the theorems.   *)
(***************************************************************************)
EXTENDS Migrations, WellFoundedInduction, TLAPS

-----------------------------------------------------------------------------
(* Recursion: a script's course, and the upgrades one after the other. *)

\* Induction over a set of numbers.
LEMMA NatSetInduction ==
    ASSUME NEW S, 0 \in S, \A n \in Nat : n \in S => n + 1 \in S
    PROVE  Nat \subseteq S
<1>. DEFINE T == {n \in Nat : n \notin S}
<1>1. SUFFICES ASSUME T # {} PROVE FALSE
  OBVIOUS
<1>2. PICK n \in T : \A m \in T : <<m, n>> \notin OpToRel(<, Nat)
  <2>1. T \subseteq Nat
    OBVIOUS
  <2>. QED  BY <1>1, <2>1, WFMin, NatLessThanWellFounded, Zenon
<1>3. \A m \in T : ~(m < n)
  BY <1>2, Zenon DEF OpToRel
<1>4. n \in Nat /\ n \notin S /\ n # 0
  OBVIOUS
<1>5. n - 1 \in Nat /\ n - 1 < n /\ (n - 1) + 1 = n
  BY <1>4
<1>6. n - 1 \in T
  BY <1>4, <1>5
<1>. QED  BY <1>3, <1>5, <1>6

\* A script's course begins at the database, and each statement does its work.
LEMMA CourseSteps ==
    ASSUME NEW script, Len(script) \in Nat, NEW d
    PROVE  /\ Course(script, d)[0] = d
           /\ \A k \in 1 .. Len(script) :
                 Course(script, d)[k] = Done(script[k], Course(script, d)[k - 1])
<1>. DEFINE Is(f, n) == f = [k \in 0 .. n |->
                                IF k = 0 THEN d ELSE Done(script[k], f[k - 1])]
            Sizes == {n \in Nat : \E f : Is(f, n)}
<1>1. 0 \in Sizes
  <2>1. Is([k \in 0 .. 0 |-> d], 0)
    OBVIOUS
  <2>. QED  BY <2>1
<1>2. \A n \in Nat : n \in Sizes => n + 1 \in Sizes
  <2>1. SUFFICES ASSUME NEW n \in Nat, n \in Sizes PROVE n + 1 \in Sizes
    OBVIOUS
  <2>2. PICK f : Is(f, n)
    BY <2>1
  <2>. DEFINE g == [k \in 0 .. n + 1 |-> IF k <= n THEN f[k] ELSE Done(script[k], f[n])]
  <2>3. \A k \in 0 .. n : g[k] = f[k]
    OBVIOUS
  <2>4. ASSUME NEW k \in 0 .. n + 1
        PROVE  g[k] = IF k = 0 THEN d ELSE Done(script[k], g[k - 1])
    <3>1. CASE k = 0
      BY <2>2, <2>3, <3>1
    <3>2. CASE k \in 1 .. n
      <4>1. g[k] = f[k] /\ g[k - 1] = f[k - 1]
        BY <2>3, <3>2
      <4>. QED  BY <2>2, <3>2, <4>1
    <3>3. CASE k = n + 1
      <4>1. g[k] = Done(script[k], f[n]) /\ g[k - 1] = f[n]
        BY <2>3, <3>3
      <4>. QED  BY <3>3, <4>1
    <3>. QED  BY <3>1, <3>2, <3>3
  <2>5. Is(g, n + 1)
    BY <2>4
  <2>. HIDE DEF g, Is
  <2>. QED  BY <2>5
<1>3. \E f : Is(f, Len(script))
  BY <1>1, <1>2, NatSetInduction
<1>4. Is(Course(script, d), Len(script))
  BY <1>3 DEF Course
<1>. HIDE DEF Is
<1>. QED  BY <1>4 DEF Is

\* The scripts, by revision.
LEMMA Revisions ==
    /\ Latest = 10 /\ Len(Upgrade) = 10 /\ Len(Downgrade) = 10
    /\ Upgrade[1] = Up250dc /\ Downgrade[1] = Down250dc
    /\ Upgrade[2] = Up5f53d /\ Downgrade[2] = Down5f53d
    /\ Upgrade[3] = Up54bea /\ Downgrade[3] = Down54bea
    /\ Upgrade[4] = Upf6be8 /\ Downgrade[4] = Downf6be8
    /\ Upgrade[5] = Up38dd2 /\ Downgrade[5] = Down38dd2
    /\ Upgrade[6] = Up5d0c6 /\ Downgrade[6] = Down5d0c6
    /\ Upgrade[7] = Upc3c55 /\ Downgrade[7] = Downc3c55
    /\ Upgrade[8] = Up89cce /\ Downgrade[8] = Down89cce
    /\ Upgrade[9] = Up12f83 /\ Downgrade[9] = << >>
    /\ Upgrade[10] = Up2d99b /\ Downgrade[10] = << >>
  BY DEF Latest, Upgrade, Downgrade

\* An upgrade begins at the database, and each revision runs its script.
LEMMA UpgradedSteps ==
    ASSUME NEW d, d.revision \in 0 .. Latest
    PROVE  /\ Upgraded(d)[d.revision] = d
           /\ \A r \in d.revision + 1 .. Latest :
                 Upgraded(d)[r] = Course(Upgrade[r], Upgraded(d)[r - 1])[Len(Upgrade[r])]
<1>. DEFINE e == d.revision
            Ran(r, x) == Course(Upgrade[r], x)[Len(Upgrade[r])]
            Is(f, n) == f = [r \in e .. e + n |-> IF r = e THEN d ELSE Ran(r, f[r - 1])]
            Sizes == {n \in Nat : \E f : Is(f, n)}
<1>. e \in Nat /\ e <= Latest /\ Latest \in Nat
  BY Revisions
<1>. HIDE DEF e, Ran
<1>1. 0 \in Sizes
  <2>1. Is([r \in e .. e + 0 |-> d], 0)
    OBVIOUS
  <2>. QED  BY <2>1
<1>2. \A n \in Nat : n \in Sizes => n + 1 \in Sizes
  <2>1. SUFFICES ASSUME NEW n \in Nat, n \in Sizes PROVE n + 1 \in Sizes
    OBVIOUS
  <2>2. PICK f : Is(f, n)
    BY <2>1
  <2>. DEFINE g == [r \in e .. e + (n + 1) |-> IF r <= e + n THEN f[r] ELSE Ran(r, f[e + n])]
  <2>3. \A r \in e .. e + n : g[r] = f[r]
    OBVIOUS
  <2>4. ASSUME NEW r \in e .. e + (n + 1)
        PROVE  g[r] = IF r = e THEN d ELSE Ran(r, g[r - 1])
    <3>1. CASE r = e
      BY <2>2, <2>3, <3>1
    <3>2. CASE r \in e + 1 .. e + n
      <4>1. g[r] = f[r] /\ g[r - 1] = f[r - 1]
        BY <2>3, <3>2
      <4>. QED  BY <2>2, <3>2, <4>1
    <3>3. CASE r = e + n + 1
      <4>1. g[r] = Ran(r, f[e + n]) /\ g[r - 1] = f[e + n]
        BY <2>3, <3>3
      <4>. QED  BY <3>3, <4>1
    <3>. QED  BY <3>1, <3>2, <3>3
  <2>5. Is(g, n + 1)
    BY <2>4
  <2>. HIDE DEF g, Is
  <2>. QED  BY <2>5
<1>3. \E f : Is(f, Latest - e)
  <2>1. Latest - e \in Nat
    OBVIOUS
  <2>. HIDE DEF Is
  <2>. QED  BY <1>1, <1>2, <2>1, NatSetInduction
<1>4. e + (Latest - e) = Latest
  OBVIOUS
<1>5. Is(Upgraded(d), Latest - e)
  BY <1>3, <1>4 DEF Upgraded, e, Ran
<1>6. Upgraded(d) = [r \in e .. Latest |->
                        IF r = e THEN d ELSE Ran(r, Upgraded(d)[r - 1])]
  BY <1>4, <1>5
<1>. HIDE DEF Is
<1>7. Upgraded(d)[e] = d /\ \A r \in e + 1 .. Latest : Upgraded(d)[r] = Ran(r, Upgraded(d)[r - 1])
  BY <1>6
<1>. QED  BY <1>7 DEF e, Ran

-----------------------------------------------------------------------------
(* What each kind of statement makes of a database, and when it is possible. *)

\* A database has these three parts, and a statement leaves it with them.
IsDatabase(d) == d = [schema |-> d.schema, rows |-> d.rows, revision |-> d.revision]

LEMMA DoneIs ==
    ASSUME NEW s, NEW d, IsDatabase(d)
    PROVE  /\ Done(s, d).schema = (d.schema \ s.takes) \cup s.gives
           /\ Done(s, d).rows = (d.rows \ s.cleared)
                                    \cup {n[2] : n \in {m \in s.nulls : m[1] \in d.rows}}
           /\ Done(s, d).revision = d.revision
           /\ IsDatabase(Done(s, d))
<1>. DEFINE schema == (d.schema \ s.takes) \cup s.gives
            rows == (d.rows \ s.cleared) \cup {n[2] : n \in {m \in s.nulls : m[1] \in d.rows}}
<1>1. Done(s, d) = [d EXCEPT !.schema = schema, !.rows = rows]
  BY DEF Done
<1>. HIDE DEF schema, rows
<1>2. Done(s, d) = [schema |-> schema, rows |-> rows, revision |-> d.revision]
  BY <1>1 DEF IsDatabase
<1>3. IsDatabase(Done(s, d))
  BY <1>2 DEF IsDatabase
<1>4. Done(s, d).schema = schema /\ Done(s, d).rows = rows /\ Done(s, d).revision = d.revision
  BY <1>2
<1>. QED  BY <1>3, <1>4 DEF schema, rows

\* Most statements leave nothing NULL.
LEMMA DonePlainly ==
    ASSUME NEW s, NEW d, IsDatabase(d), s.nulls = {}
    PROVE  /\ Done(s, d).schema = (d.schema \ s.takes) \cup s.gives
           /\ Done(s, d).rows = d.rows \ s.cleared
           /\ Done(s, d).revision = d.revision
<1>1. {n[2] : n \in {m \in s.nulls : m[1] \in d.rows}} = {}
  OBVIOUS
<1>2. Done(s, d).rows = d.rows \ s.cleared
  BY <1>1, DoneIs
<1>3. Done(s, d).schema = (d.schema \ s.takes) \cup s.gives /\ Done(s, d).revision = d.revision
  BY DoneIs
<1>. QED  BY <1>2, <1>3

\* The kinds of statement, whatever they lock: when each is possible, and what
\* it does.
LEMMA NewDoes ==
    \A T, F, d : IsDatabase(d) =>
        /\ Done(On(T, New(F)), d).schema = d.schema \cup F
        /\ Done(On(T, New(F)), d).rows = d.rows
        /\ Done(On(T, New(F)), d).revision = d.revision
        /\ Possible(On(T, New(F)), d) <=> F \cap d.schema = {}
<1>1. SUFFICES ASSUME NEW T, NEW F, NEW d, IsDatabase(d)
      PROVE  LET s == On(T, New(F)) IN
             /\ Done(s, d).schema = d.schema \cup F
             /\ Done(s, d).rows = d.rows
             /\ Done(s, d).revision = d.revision
             /\ Possible(s, d) <=> F \cap d.schema = {}
  OBVIOUS
<1>. DEFINE s == On(T, New(F))
<1>2. /\ s.needs = {} /\ s.bars = F /\ s.takes = {} /\ s.gives = F
      /\ s.refused = {} /\ s.cleared = {} /\ s.nulls = {}
  BY DEF On, New, Plain
<1>. HIDE DEF s
<1>3. Done(s, d).schema = d.schema \cup F
  BY <1>1, <1>2, DonePlainly
<1>4. Done(s, d).rows = d.rows
  <2>1. Done(s, d).rows = d.rows \ s.cleared
    BY <1>1, <1>2, DonePlainly
  <2>. QED  BY <1>2, <2>1
<1>5. Done(s, d).revision = d.revision
  BY <1>1, <1>2, DonePlainly
<1>6. Possible(s, d) <=> F \cap d.schema = {}
  BY <1>2 DEF Possible
<1>. QED  BY <1>3, <1>4, <1>5, <1>6 DEF s

LEMMA GoneDoes ==
    \A T, F, d : IsDatabase(d) =>
        /\ Done(On(T, Gone(F)), d).schema = d.schema \ F
        /\ Done(On(T, Gone(F)), d).rows = d.rows
        /\ Done(On(T, Gone(F)), d).revision = d.revision
        /\ Possible(On(T, Gone(F)), d) <=> F \subseteq d.schema
<1>1. SUFFICES ASSUME NEW T, NEW F, NEW d, IsDatabase(d)
      PROVE  LET s == On(T, Gone(F)) IN
             /\ Done(s, d).schema = d.schema \ F
             /\ Done(s, d).rows = d.rows
             /\ Done(s, d).revision = d.revision
             /\ Possible(s, d) <=> F \subseteq d.schema
  OBVIOUS
<1>. DEFINE s == On(T, Gone(F))
<1>2. /\ s.needs = F /\ s.bars = {} /\ s.takes = F /\ s.gives = {}
      /\ s.refused = {} /\ s.cleared = {} /\ s.nulls = {}
  BY DEF On, Gone, Plain
<1>. HIDE DEF s
<1>3. Done(s, d).schema = d.schema \ F
  BY <1>1, <1>2, DonePlainly
<1>4. Done(s, d).rows = d.rows
  <2>1. Done(s, d).rows = d.rows \ s.cleared
    BY <1>1, <1>2, DonePlainly
  <2>. QED  BY <1>2, <2>1
<1>5. Done(s, d).revision = d.revision
  BY <1>1, <1>2, DonePlainly
<1>6. Possible(s, d) <=> F \subseteq d.schema
  BY <1>2 DEF Possible
<1>. QED  BY <1>3, <1>4, <1>5, <1>6 DEF s

LEMMA DeclareDoes ==
    \A T, F, d : IsDatabase(d) =>
        /\ Done(On(T, Declare(F)), d).schema = d.schema \cup F
        /\ Done(On(T, Declare(F)), d).rows = d.rows
        /\ Done(On(T, Declare(F)), d).revision = d.revision
        /\ Possible(On(T, Declare(F)), d)
<1>1. SUFFICES ASSUME NEW T, NEW F, NEW d, IsDatabase(d)
      PROVE  LET s == On(T, Declare(F)) IN
             /\ Done(s, d).schema = d.schema \cup F
             /\ Done(s, d).rows = d.rows
             /\ Done(s, d).revision = d.revision
             /\ Possible(s, d)
  OBVIOUS
<1>. DEFINE s == On(T, Declare(F))
<1>2. /\ s.needs = {} /\ s.bars = {} /\ s.takes = {} /\ s.gives = F
      /\ s.refused = {} /\ s.cleared = {} /\ s.nulls = {}
  BY DEF On, Declare, Plain
<1>. HIDE DEF s
<1>3. Done(s, d).schema = d.schema \cup F
  BY <1>1, <1>2, DonePlainly
<1>4. Done(s, d).rows = d.rows
  <2>1. Done(s, d).rows = d.rows \ s.cleared
    BY <1>1, <1>2, DonePlainly
  <2>. QED  BY <1>2, <2>1
<1>5. Done(s, d).revision = d.revision
  BY <1>1, <1>2, DonePlainly
<1>6. Possible(s, d)
  BY <1>2 DEF Possible
<1>. QED  BY <1>3, <1>4, <1>5, <1>6 DEF s

LEMMA RelaxDoes ==
    \A T, F, d : IsDatabase(d) =>
        /\ Done(On(T, Relax(F)), d).schema = d.schema \ F
        /\ Done(On(T, Relax(F)), d).rows = d.rows
        /\ Done(On(T, Relax(F)), d).revision = d.revision
        /\ Possible(On(T, Relax(F)), d)
<1>1. SUFFICES ASSUME NEW T, NEW F, NEW d, IsDatabase(d)
      PROVE  LET s == On(T, Relax(F)) IN
             /\ Done(s, d).schema = d.schema \ F
             /\ Done(s, d).rows = d.rows
             /\ Done(s, d).revision = d.revision
             /\ Possible(s, d)
  OBVIOUS
<1>. DEFINE s == On(T, Relax(F))
<1>2. /\ s.needs = {} /\ s.bars = {} /\ s.takes = F /\ s.gives = {}
      /\ s.refused = {} /\ s.cleared = {} /\ s.nulls = {}
  BY DEF On, Relax, Plain
<1>. HIDE DEF s
<1>3. Done(s, d).schema = d.schema \ F
  BY <1>1, <1>2, DonePlainly
<1>4. Done(s, d).rows = d.rows
  <2>1. Done(s, d).rows = d.rows \ s.cleared
    BY <1>1, <1>2, DonePlainly
  <2>. QED  BY <1>2, <2>1
<1>5. Done(s, d).revision = d.revision
  BY <1>1, <1>2, DonePlainly
<1>6. Possible(s, d)
  BY <1>2 DEF Possible
<1>. QED  BY <1>3, <1>4, <1>5, <1>6 DEF s

LEMMA ChangedDoes ==
    \A T, f, g, d : IsDatabase(d) =>
        /\ Done(On(T, Changed(f, g)), d).schema = (d.schema \ {f}) \cup {g}
        /\ Done(On(T, Changed(f, g)), d).rows = d.rows
        /\ Done(On(T, Changed(f, g)), d).revision = d.revision
        /\ Possible(On(T, Changed(f, g)), d) <=> f \in d.schema
<1>1. SUFFICES ASSUME NEW T, NEW f, NEW g, NEW d, IsDatabase(d)
      PROVE  LET s == On(T, Changed(f, g)) IN
             /\ Done(s, d).schema = (d.schema \ {f}) \cup {g}
             /\ Done(s, d).rows = d.rows
             /\ Done(s, d).revision = d.revision
             /\ Possible(s, d) <=> f \in d.schema
  OBVIOUS
<1>. DEFINE s == On(T, Changed(f, g))
<1>2. /\ s.needs = {f} /\ s.bars = {} /\ s.takes = {f} /\ s.gives = {g}
      /\ s.refused = {} /\ s.cleared = {} /\ s.nulls = {}
  BY DEF On, Changed, Gone, Plain
<1>. HIDE DEF s
<1>3. Done(s, d).schema = (d.schema \ {f}) \cup {g}
  BY <1>1, <1>2, DonePlainly
<1>4. Done(s, d).rows = d.rows
  <2>1. Done(s, d).rows = d.rows \ s.cleared
    BY <1>1, <1>2, DonePlainly
  <2>. QED  BY <1>2, <2>1
<1>5. Done(s, d).revision = d.revision
  BY <1>1, <1>2, DonePlainly
<1>6. Possible(s, d) <=> f \in d.schema
  BY <1>2 DEF Possible
<1>. QED  BY <1>3, <1>4, <1>5, <1>6 DEF s

LEMMA DropTableDoes ==
    \A T, F, B, M, d : IsDatabase(d) =>
        /\ Done(On(T, DropTable(F, B, M)), d).schema = d.schema \ F
        /\ Done(On(T, DropTable(F, B, M)), d).rows = d.rows \ M
        /\ Done(On(T, DropTable(F, B, M)), d).revision = d.revision
        /\ Possible(On(T, DropTable(F, B, M)), d) <=> F \subseteq d.schema /\ B \cap d.schema = {}
<1>1. SUFFICES ASSUME NEW T, NEW F, NEW B, NEW M, NEW d, IsDatabase(d)
      PROVE  LET s == On(T, DropTable(F, B, M)) IN
             /\ Done(s, d).schema = d.schema \ F
             /\ Done(s, d).rows = d.rows \ M
             /\ Done(s, d).revision = d.revision
             /\ Possible(s, d) <=> F \subseteq d.schema /\ B \cap d.schema = {}
  OBVIOUS
<1>. DEFINE s == On(T, DropTable(F, B, M))
<1>2. /\ s.needs = F /\ s.bars = B /\ s.takes = F /\ s.gives = {}
      /\ s.refused = {} /\ s.cleared = M /\ s.nulls = {}
  BY DEF On, DropTable, Gone, Plain
<1>. HIDE DEF s
<1>3. Done(s, d).schema = d.schema \ F
  BY <1>1, <1>2, DonePlainly
<1>4. Done(s, d).rows = d.rows \ M
  BY <1>1, <1>2, DonePlainly
<1>5. Done(s, d).revision = d.revision
  BY <1>1, <1>2, DonePlainly
<1>6. Possible(s, d) <=> F \subseteq d.schema /\ B \cap d.schema = {}
  BY <1>2 DEF Possible
<1>. QED  BY <1>3, <1>4, <1>5, <1>6 DEF s

LEMMA AddRequiredDoes ==
    \A T, f, m, d : IsDatabase(d) =>
        /\ Done(On(T, AddRequired(f, m)), d).schema = d.schema \cup {f}
        /\ Done(On(T, AddRequired(f, m)), d).rows = d.rows
        /\ Done(On(T, AddRequired(f, m)), d).revision = d.revision
        /\ Possible(On(T, AddRequired(f, m)), d) <=> f \notin d.schema /\ m \notin d.rows
<1>1. SUFFICES ASSUME NEW T, NEW f, NEW m, NEW d, IsDatabase(d)
      PROVE  LET s == On(T, AddRequired(f, m)) IN
             /\ Done(s, d).schema = d.schema \cup {f}
             /\ Done(s, d).rows = d.rows
             /\ Done(s, d).revision = d.revision
             /\ Possible(s, d) <=> f \notin d.schema /\ m \notin d.rows
  OBVIOUS
<1>. DEFINE s == On(T, AddRequired(f, m))
<1>2. /\ s.needs = {} /\ s.bars = {f} /\ s.takes = {} /\ s.gives = {f}
      /\ s.refused = {m} /\ s.cleared = {} /\ s.nulls = {}
  BY DEF On, AddRequired, New, Plain
<1>. HIDE DEF s
<1>3. Done(s, d).schema = d.schema \cup {f}
  BY <1>1, <1>2, DonePlainly
<1>4. Done(s, d).rows = d.rows
  <2>1. Done(s, d).rows = d.rows \ s.cleared
    BY <1>1, <1>2, DonePlainly
  <2>. QED  BY <1>2, <2>1
<1>5. Done(s, d).revision = d.revision
  BY <1>1, <1>2, DonePlainly
<1>6. Possible(s, d) <=> f \notin d.schema /\ m \notin d.rows
  BY <1>2 DEF Possible
<1>. QED  BY <1>3, <1>4, <1>5, <1>6 DEF s

LEMMA FillDoes ==
    \A T, M, d : IsDatabase(d) =>
        /\ Done(On(T, Fill(M)), d).schema = d.schema
        /\ Done(On(T, Fill(M)), d).rows = d.rows \ M
        /\ Done(On(T, Fill(M)), d).revision = d.revision
        /\ Possible(On(T, Fill(M)), d)
<1>1. SUFFICES ASSUME NEW T, NEW M, NEW d, IsDatabase(d)
      PROVE  LET s == On(T, Fill(M)) IN
             /\ Done(s, d).schema = d.schema
             /\ Done(s, d).rows = d.rows \ M
             /\ Done(s, d).revision = d.revision
             /\ Possible(s, d)
  OBVIOUS
<1>. DEFINE s == On(T, Fill(M))
<1>2. /\ s.needs = {} /\ s.bars = {} /\ s.takes = {} /\ s.gives = {}
      /\ s.refused = {} /\ s.cleared = M /\ s.nulls = {}
  BY DEF On, Fill, Plain
<1>. HIDE DEF s
<1>3. Done(s, d).schema = d.schema
  <2>1. Done(s, d).schema = (d.schema \ s.takes) \cup s.gives
    BY <1>1, <1>2, DonePlainly
  <2>. QED  BY <1>2, <2>1
<1>4. Done(s, d).rows = d.rows \ M
  BY <1>1, <1>2, DonePlainly
<1>5. Done(s, d).revision = d.revision
  BY <1>1, <1>2, DonePlainly
<1>6. Possible(s, d)
  BY <1>2 DEF Possible
<1>. QED  BY <1>3, <1>4, <1>5, <1>6 DEF s

LEMMA AddNullableDoes ==
    \A T, F, t, m, d : IsDatabase(d) =>
        /\ Done(On(T, AddNullable(F, t, m)), d).schema = d.schema \cup F
        /\ Done(On(T, AddNullable(F, t, m)), d).rows \subseteq d.rows \cup {m}
        /\ d.rows \subseteq Done(On(T, AddNullable(F, t, m)), d).rows
        /\ Done(On(T, AddNullable(F, t, m)), d).revision = d.revision
        /\ Possible(On(T, AddNullable(F, t, m)), d) <=> F \cap d.schema = {}
<1>1. SUFFICES ASSUME NEW T, NEW F, NEW t, NEW m, NEW d, IsDatabase(d)
      PROVE  LET s == On(T, AddNullable(F, t, m)) IN
             /\ Done(s, d).schema = d.schema \cup F
             /\ Done(s, d).rows \subseteq d.rows \cup {m}
             /\ d.rows \subseteq Done(s, d).rows
             /\ Done(s, d).revision = d.revision
             /\ Possible(s, d) <=> F \cap d.schema = {}
  OBVIOUS
<1>. DEFINE s == On(T, AddNullable(F, t, m))
<1>2. /\ s.needs = {} /\ s.bars = F /\ s.takes = {} /\ s.gives = F
      /\ s.refused = {} /\ s.cleared = {} /\ s.nulls = {<<t, m>>}
  BY DEF On, AddNullable, New, Plain
<1>. HIDE DEF s
<1>3. /\ Done(s, d).schema = d.schema \cup F
      /\ Done(s, d).rows \subseteq d.rows \cup {m}
      /\ d.rows \subseteq Done(s, d).rows
      /\ Done(s, d).revision = d.revision
      /\ Possible(s, d) <=> F \cap d.schema = {}
  BY <1>1, <1>2, DoneIs DEF Possible
<1>. QED  BY <1>3 DEF s

LEMMA RequireDoes ==
    \A T, m, d : IsDatabase(d) =>
        /\ Done(On(T, Require(m)), d).schema = d.schema
        /\ Done(On(T, Require(m)), d).rows = d.rows
        /\ Done(On(T, Require(m)), d).revision = d.revision
        /\ Possible(On(T, Require(m)), d) <=> m \notin d.rows
<1>1. SUFFICES ASSUME NEW T, NEW m, NEW d, IsDatabase(d)
      PROVE  LET s == On(T, Require(m)) IN
             /\ Done(s, d).schema = d.schema
             /\ Done(s, d).rows = d.rows
             /\ Done(s, d).revision = d.revision
             /\ Possible(s, d) <=> m \notin d.rows
  OBVIOUS
<1>. DEFINE s == On(T, Require(m))
<1>2. /\ s.needs = {} /\ s.bars = {} /\ s.takes = {} /\ s.gives = {}
      /\ s.refused = {m} /\ s.cleared = {} /\ s.nulls = {}
  BY DEF On, Require, Plain
<1>. HIDE DEF s
<1>3. Done(s, d).schema = d.schema
  <2>1. Done(s, d).schema = (d.schema \ s.takes) \cup s.gives
    BY <1>1, <1>2, DonePlainly
  <2>. QED  BY <1>2, <2>1
<1>4. Done(s, d).rows = d.rows
  <2>1. Done(s, d).rows = d.rows \ s.cleared
    BY <1>1, <1>2, DonePlainly
  <2>. QED  BY <1>2, <2>1
<1>5. Done(s, d).revision = d.revision
  BY <1>1, <1>2, DonePlainly
<1>6. Possible(s, d) <=> m \notin d.rows
  BY <1>2 DEF Possible
<1>. QED  BY <1>3, <1>4, <1>5, <1>6 DEF s

LEMMA AddForeignKeyDoes ==
    \A T, f, d : IsDatabase(d) =>
        /\ Done(On(T, AddForeignKey(f)), d).schema = d.schema \cup {f}
        /\ Done(On(T, AddForeignKey(f)), d).rows = d.rows
        /\ Done(On(T, AddForeignKey(f)), d).revision = d.revision
        /\ Possible(On(T, AddForeignKey(f)), d) <=> f \notin d.schema /\ "strays" \notin d.rows
<1>1. SUFFICES ASSUME NEW T, NEW f, NEW d, IsDatabase(d)
      PROVE  LET s == On(T, AddForeignKey(f)) IN
             /\ Done(s, d).schema = d.schema \cup {f}
             /\ Done(s, d).rows = d.rows
             /\ Done(s, d).revision = d.revision
             /\ Possible(s, d) <=> f \notin d.schema /\ "strays" \notin d.rows
  OBVIOUS
<1>. DEFINE s == On(T, AddForeignKey(f))
<1>2. /\ s.needs = {} /\ s.bars = {f} /\ s.takes = {} /\ s.gives = {f}
      /\ s.refused = {"strays"} /\ s.cleared = {} /\ s.nulls = {}
  BY DEF On, AddForeignKey, New, Plain
<1>. HIDE DEF s
<1>3. Done(s, d).schema = d.schema \cup {f}
  BY <1>1, <1>2, DonePlainly
<1>4. Done(s, d).rows = d.rows
  <2>1. Done(s, d).rows = d.rows \ s.cleared
    BY <1>1, <1>2, DonePlainly
  <2>. QED  BY <1>2, <2>1
<1>5. Done(s, d).revision = d.revision
  BY <1>1, <1>2, DonePlainly
<1>6. Possible(s, d) <=> f \notin d.schema /\ "strays" \notin d.rows
  BY <1>2 DEF Possible
<1>. QED  BY <1>3, <1>4, <1>5, <1>6 DEF s

LEMMA AddLabelDoes ==
    \A f, d : IsDatabase(d) =>
        /\ Done(AddLabel(f), d).schema = d.schema \cup {f}
        /\ Done(AddLabel(f), d).rows = d.rows
        /\ Done(AddLabel(f), d).revision = d.revision
        /\ Possible(AddLabel(f), d)
<1>1. SUFFICES ASSUME NEW f, NEW d, IsDatabase(d)
      PROVE  LET s == AddLabel(f) IN
             /\ Done(s, d).schema = d.schema \cup {f}
             /\ Done(s, d).rows = d.rows
             /\ Done(s, d).revision = d.revision
             /\ Possible(s, d)
  OBVIOUS
<1>. DEFINE s == AddLabel(f)
<1>2. /\ s.needs = {} /\ s.bars = {} /\ s.takes = {} /\ s.gives = {f}
      /\ s.refused = {} /\ s.cleared = {} /\ s.nulls = {}
  BY DEF AddLabel, Plain
<1>. HIDE DEF s
<1>3. Done(s, d).schema = d.schema \cup {f}
  BY <1>1, <1>2, DonePlainly
<1>4. Done(s, d).rows = d.rows
  <2>1. Done(s, d).rows = d.rows \ s.cleared
    BY <1>1, <1>2, DonePlainly
  <2>. QED  BY <1>2, <2>1
<1>5. Done(s, d).revision = d.revision
  BY <1>1, <1>2, DonePlainly
<1>6. Possible(s, d)
  BY <1>2 DEF Possible
<1>. QED  BY <1>3, <1>4, <1>5, <1>6 DEF s

LEMMA ImpossibleDoes ==
    \A T, f, d : IsDatabase(d) =>
        /\ Done(On(T, Impossible(f)), d).schema = d.schema \ {f}
        /\ Done(On(T, Impossible(f)), d).rows = d.rows
        /\ Done(On(T, Impossible(f)), d).revision = d.revision
        /\ Possible(On(T, Impossible(f)), d) <=> f \in d.schema
<1>1. SUFFICES ASSUME NEW T, NEW f, NEW d, IsDatabase(d)
      PROVE  LET s == On(T, Impossible(f)) IN
             /\ Done(s, d).schema = d.schema \ {f}
             /\ Done(s, d).rows = d.rows
             /\ Done(s, d).revision = d.revision
             /\ Possible(s, d) <=> f \in d.schema
  OBVIOUS
<1>. DEFINE s == On(T, Impossible(f))
<1>2. /\ s.needs = {f} /\ s.bars = {} /\ s.takes = {f} /\ s.gives = {}
      /\ s.refused = {} /\ s.cleared = {} /\ s.nulls = {}
  BY DEF On, Impossible, Gone, Plain
<1>. HIDE DEF s
<1>3. Done(s, d).schema = d.schema \ {f}
  BY <1>1, <1>2, DonePlainly
<1>4. Done(s, d).rows = d.rows
  <2>1. Done(s, d).rows = d.rows \ s.cleared
    BY <1>1, <1>2, DonePlainly
  <2>. QED  BY <1>2, <2>1
<1>5. Done(s, d).revision = d.revision
  BY <1>1, <1>2, DonePlainly
<1>6. Possible(s, d) <=> f \in d.schema
  BY <1>2 DEF Possible
<1>. QED  BY <1>3, <1>4, <1>5, <1>6 DEF s

-----------------------------------------------------------------------------
(* The courses of the scripts there are, unrolled. *)

\* The first and the last database of a course of one statement, two, and so on:
\* a script runs if each statement is possible on what the ones before it left.
LEMMA Course1 ==
    ASSUME NEW s, NEW d, Len(s) \in Nat
    PROVE  LET c == Course(s, d) IN Len(s) = 1 =>
           /\ c[0] = d /\ c[1] = Done(s[1], c[0])
           /\ IsDatabase(d) =>
                 /\ IsDatabase(c[0]) /\ IsDatabase(c[1])
           /\ Runs(s, d) <=> /\ Possible(s[1], c[0])
<1>. DEFINE c == Course(s, d)
<1>1. c[0] = d /\ \A k \in 1 .. Len(s) : c[k] = Done(s[k], c[k - 1])
  BY CourseSteps
<1>2. Runs(s, d) <=> \A k \in 1 .. Len(s) : Possible(s[k], c[k - 1])
  BY DEF Runs
<1>. HIDE DEF c
<1>3. SUFFICES ASSUME Len(s) = 1
      PROVE  /\ c[0] = d /\ c[1] = Done(s[1], c[0])
             /\ IsDatabase(d) =>
                   /\ IsDatabase(c[0]) /\ IsDatabase(c[1])
             /\ Runs(s, d) <=> /\ Possible(s[1], c[0])
  BY DEF c
<1>4. \A k \in 1 .. 1 : c[k] = Done(s[k], c[k - 1])
  BY <1>1, <1>3
<1>5. Runs(s, d) <=> \A k \in 1 .. 1 : Possible(s[k], c[k - 1])
  BY <1>2, <1>3
<1>6. Runs(s, d) <=> /\ Possible(s[1], c[0])
  BY <1>5
<1>7. ASSUME IsDatabase(d) PROVE IsDatabase(c[0]) /\ IsDatabase(c[1])
  BY <1>1, <1>4, <1>7, DoneIs
<1>. QED  BY <1>1, <1>4, <1>6, <1>7

LEMMA Course2 ==
    ASSUME NEW s, NEW d, Len(s) \in Nat
    PROVE  LET c == Course(s, d) IN Len(s) = 2 =>
           /\ c[0] = d /\ c[1] = Done(s[1], c[0]) /\ c[2] = Done(s[2], c[1])
           /\ IsDatabase(d) =>
                 /\ IsDatabase(c[0]) /\ IsDatabase(c[1]) /\ IsDatabase(c[2])
           /\ Runs(s, d) <=> /\ Possible(s[1], c[0]) /\ Possible(s[2], c[1])
<1>. DEFINE c == Course(s, d)
<1>1. c[0] = d /\ \A k \in 1 .. Len(s) : c[k] = Done(s[k], c[k - 1])
  BY CourseSteps
<1>2. Runs(s, d) <=> \A k \in 1 .. Len(s) : Possible(s[k], c[k - 1])
  BY DEF Runs
<1>. HIDE DEF c
<1>3. SUFFICES ASSUME Len(s) = 2
      PROVE  /\ c[0] = d /\ c[1] = Done(s[1], c[0]) /\ c[2] = Done(s[2], c[1])
             /\ IsDatabase(d) =>
                   /\ IsDatabase(c[0]) /\ IsDatabase(c[1]) /\ IsDatabase(c[2])
             /\ Runs(s, d) <=> /\ Possible(s[1], c[0]) /\ Possible(s[2], c[1])
  BY DEF c
<1>4. \A k \in 1 .. 2 : c[k] = Done(s[k], c[k - 1])
  BY <1>1, <1>3
<1>5. Runs(s, d) <=> \A k \in 1 .. 2 : Possible(s[k], c[k - 1])
  BY <1>2, <1>3
<1>6. Runs(s, d) <=> /\ Possible(s[1], c[0]) /\ Possible(s[2], c[1])
  BY <1>5
<1>7. ASSUME IsDatabase(d) PROVE IsDatabase(c[0]) /\ IsDatabase(c[1]) /\ IsDatabase(c[2])
  BY <1>1, <1>4, <1>7, DoneIs
<1>. QED  BY <1>1, <1>4, <1>6, <1>7

LEMMA Course3 ==
    ASSUME NEW s, NEW d, Len(s) \in Nat
    PROVE  LET c == Course(s, d) IN Len(s) = 3 =>
           /\ c[0] = d /\ c[1] = Done(s[1], c[0]) /\ c[2] = Done(s[2], c[1])
           /\ c[3] = Done(s[3], c[2])
           /\ IsDatabase(d) =>
                 /\ IsDatabase(c[0]) /\ IsDatabase(c[1]) /\ IsDatabase(c[2]) /\ IsDatabase(c[3])
           /\ Runs(s, d) <=> /\ Possible(s[1], c[0]) /\ Possible(s[2], c[1]) /\ Possible(s[3], c[2])
<1>. DEFINE c == Course(s, d)
<1>1. c[0] = d /\ \A k \in 1 .. Len(s) : c[k] = Done(s[k], c[k - 1])
  BY CourseSteps
<1>2. Runs(s, d) <=> \A k \in 1 .. Len(s) : Possible(s[k], c[k - 1])
  BY DEF Runs
<1>. HIDE DEF c
<1>3. SUFFICES ASSUME Len(s) = 3
      PROVE  /\ c[0] = d /\ c[1] = Done(s[1], c[0]) /\ c[2] = Done(s[2], c[1])
             /\ c[3] = Done(s[3], c[2])
             /\ IsDatabase(d) =>
                   /\ IsDatabase(c[0]) /\ IsDatabase(c[1]) /\ IsDatabase(c[2]) /\ IsDatabase(c[3])
             /\ Runs(s, d) <=> /\ Possible(s[1], c[0]) /\ Possible(s[2], c[1]) /\ Possible(s[3], c[2])
  BY DEF c
<1>4. \A k \in 1 .. 3 : c[k] = Done(s[k], c[k - 1])
  BY <1>1, <1>3
<1>5. Runs(s, d) <=> \A k \in 1 .. 3 : Possible(s[k], c[k - 1])
  BY <1>2, <1>3
<1>6. Runs(s, d) <=> /\ Possible(s[1], c[0]) /\ Possible(s[2], c[1]) /\ Possible(s[3], c[2])
  BY <1>5
<1>7. ASSUME IsDatabase(d) PROVE IsDatabase(c[0]) /\ IsDatabase(c[1]) /\ IsDatabase(c[2]) /\ IsDatabase(c[3])
  BY <1>1, <1>4, <1>7, DoneIs
<1>. QED  BY <1>1, <1>4, <1>6, <1>7

LEMMA Course4 ==
    ASSUME NEW s, NEW d, Len(s) \in Nat
    PROVE  LET c == Course(s, d) IN Len(s) = 4 =>
           /\ c[0] = d /\ c[1] = Done(s[1], c[0]) /\ c[2] = Done(s[2], c[1])
           /\ c[3] = Done(s[3], c[2]) /\ c[4] = Done(s[4], c[3])
           /\ IsDatabase(d) =>
                 /\ IsDatabase(c[0]) /\ IsDatabase(c[1]) /\ IsDatabase(c[2]) /\ IsDatabase(c[3])
                 /\ IsDatabase(c[4])
           /\ Runs(s, d) <=> /\ Possible(s[1], c[0]) /\ Possible(s[2], c[1]) /\ Possible(s[3], c[2])
                             /\ Possible(s[4], c[3])
<1>. DEFINE c == Course(s, d)
<1>1. c[0] = d /\ \A k \in 1 .. Len(s) : c[k] = Done(s[k], c[k - 1])
  BY CourseSteps
<1>2. Runs(s, d) <=> \A k \in 1 .. Len(s) : Possible(s[k], c[k - 1])
  BY DEF Runs
<1>. HIDE DEF c
<1>3. SUFFICES ASSUME Len(s) = 4
      PROVE  /\ c[0] = d /\ c[1] = Done(s[1], c[0]) /\ c[2] = Done(s[2], c[1])
             /\ c[3] = Done(s[3], c[2]) /\ c[4] = Done(s[4], c[3])
             /\ IsDatabase(d) =>
                   /\ IsDatabase(c[0]) /\ IsDatabase(c[1]) /\ IsDatabase(c[2]) /\ IsDatabase(c[3])
                   /\ IsDatabase(c[4])
             /\ Runs(s, d) <=> /\ Possible(s[1], c[0]) /\ Possible(s[2], c[1]) /\ Possible(s[3], c[2])
                               /\ Possible(s[4], c[3])
  BY DEF c
<1>4. \A k \in 1 .. 4 : c[k] = Done(s[k], c[k - 1])
  BY <1>1, <1>3
<1>5. Runs(s, d) <=> \A k \in 1 .. 4 : Possible(s[k], c[k - 1])
  BY <1>2, <1>3
<1>6. Runs(s, d) <=> /\ Possible(s[1], c[0]) /\ Possible(s[2], c[1]) /\ Possible(s[3], c[2])
                        /\ Possible(s[4], c[3])
  BY <1>5
<1>7. ASSUME IsDatabase(d)
      PROVE  /\ IsDatabase(c[0]) /\ IsDatabase(c[1]) /\ IsDatabase(c[2]) /\ IsDatabase(c[3])
             /\ IsDatabase(c[4])
  BY <1>1, <1>4, <1>7, DoneIs
<1>. QED  BY <1>1, <1>4, <1>6, <1>7

LEMMA Course6 ==
    ASSUME NEW s, NEW d, Len(s) \in Nat
    PROVE  LET c == Course(s, d) IN Len(s) = 6 =>
           /\ c[0] = d /\ c[1] = Done(s[1], c[0]) /\ c[2] = Done(s[2], c[1])
           /\ c[3] = Done(s[3], c[2]) /\ c[4] = Done(s[4], c[3]) /\ c[5] = Done(s[5], c[4])
           /\ c[6] = Done(s[6], c[5])
           /\ IsDatabase(d) =>
                 /\ IsDatabase(c[0]) /\ IsDatabase(c[1]) /\ IsDatabase(c[2]) /\ IsDatabase(c[3])
                 /\ IsDatabase(c[4]) /\ IsDatabase(c[5]) /\ IsDatabase(c[6])
           /\ Runs(s, d) <=> /\ Possible(s[1], c[0]) /\ Possible(s[2], c[1]) /\ Possible(s[3], c[2])
                             /\ Possible(s[4], c[3]) /\ Possible(s[5], c[4]) /\ Possible(s[6], c[5])
<1>. DEFINE c == Course(s, d)
<1>1. c[0] = d /\ \A k \in 1 .. Len(s) : c[k] = Done(s[k], c[k - 1])
  BY CourseSteps
<1>2. Runs(s, d) <=> \A k \in 1 .. Len(s) : Possible(s[k], c[k - 1])
  BY DEF Runs
<1>. HIDE DEF c
<1>3. SUFFICES ASSUME Len(s) = 6
      PROVE  /\ c[0] = d /\ c[1] = Done(s[1], c[0]) /\ c[2] = Done(s[2], c[1])
             /\ c[3] = Done(s[3], c[2]) /\ c[4] = Done(s[4], c[3]) /\ c[5] = Done(s[5], c[4])
             /\ c[6] = Done(s[6], c[5])
             /\ IsDatabase(d) =>
                   /\ IsDatabase(c[0]) /\ IsDatabase(c[1]) /\ IsDatabase(c[2]) /\ IsDatabase(c[3])
                   /\ IsDatabase(c[4]) /\ IsDatabase(c[5]) /\ IsDatabase(c[6])
             /\ Runs(s, d) <=> /\ Possible(s[1], c[0]) /\ Possible(s[2], c[1]) /\ Possible(s[3], c[2])
                               /\ Possible(s[4], c[3]) /\ Possible(s[5], c[4]) /\ Possible(s[6], c[5])
  BY DEF c
<1>4. \A k \in 1 .. 6 : c[k] = Done(s[k], c[k - 1])
  BY <1>1, <1>3
<1>5. Runs(s, d) <=> \A k \in 1 .. 6 : Possible(s[k], c[k - 1])
  BY <1>2, <1>3
<1>6. Runs(s, d) <=> /\ Possible(s[1], c[0]) /\ Possible(s[2], c[1]) /\ Possible(s[3], c[2])
                        /\ Possible(s[4], c[3]) /\ Possible(s[5], c[4]) /\ Possible(s[6], c[5])
  BY <1>5
<1>7. ASSUME IsDatabase(d)
      PROVE  /\ IsDatabase(c[0]) /\ IsDatabase(c[1]) /\ IsDatabase(c[2]) /\ IsDatabase(c[3])
             /\ IsDatabase(c[4]) /\ IsDatabase(c[5]) /\ IsDatabase(c[6])
  BY <1>1, <1>4, <1>7, DoneIs
<1>. QED  BY <1>1, <1>4, <1>6, <1>7

LEMMA Course9 ==
    ASSUME NEW s, NEW d, Len(s) \in Nat
    PROVE  LET c == Course(s, d) IN Len(s) = 9 =>
           /\ c[0] = d /\ c[1] = Done(s[1], c[0]) /\ c[2] = Done(s[2], c[1])
           /\ c[3] = Done(s[3], c[2]) /\ c[4] = Done(s[4], c[3]) /\ c[5] = Done(s[5], c[4])
           /\ c[6] = Done(s[6], c[5]) /\ c[7] = Done(s[7], c[6]) /\ c[8] = Done(s[8], c[7])
           /\ c[9] = Done(s[9], c[8])
           /\ IsDatabase(d) =>
                 /\ IsDatabase(c[0]) /\ IsDatabase(c[1]) /\ IsDatabase(c[2]) /\ IsDatabase(c[3])
                 /\ IsDatabase(c[4]) /\ IsDatabase(c[5]) /\ IsDatabase(c[6]) /\ IsDatabase(c[7])
                 /\ IsDatabase(c[8]) /\ IsDatabase(c[9])
           /\ Runs(s, d) <=> /\ Possible(s[1], c[0]) /\ Possible(s[2], c[1]) /\ Possible(s[3], c[2])
                             /\ Possible(s[4], c[3]) /\ Possible(s[5], c[4]) /\ Possible(s[6], c[5])
                             /\ Possible(s[7], c[6]) /\ Possible(s[8], c[7]) /\ Possible(s[9], c[8])
<1>. DEFINE c == Course(s, d)
<1>1. c[0] = d /\ \A k \in 1 .. Len(s) : c[k] = Done(s[k], c[k - 1])
  BY CourseSteps
<1>2. Runs(s, d) <=> \A k \in 1 .. Len(s) : Possible(s[k], c[k - 1])
  BY DEF Runs
<1>. HIDE DEF c
<1>3. SUFFICES ASSUME Len(s) = 9
      PROVE  /\ c[0] = d /\ c[1] = Done(s[1], c[0]) /\ c[2] = Done(s[2], c[1])
             /\ c[3] = Done(s[3], c[2]) /\ c[4] = Done(s[4], c[3]) /\ c[5] = Done(s[5], c[4])
             /\ c[6] = Done(s[6], c[5]) /\ c[7] = Done(s[7], c[6]) /\ c[8] = Done(s[8], c[7])
             /\ c[9] = Done(s[9], c[8])
             /\ IsDatabase(d) =>
                   /\ IsDatabase(c[0]) /\ IsDatabase(c[1]) /\ IsDatabase(c[2]) /\ IsDatabase(c[3])
                   /\ IsDatabase(c[4]) /\ IsDatabase(c[5]) /\ IsDatabase(c[6]) /\ IsDatabase(c[7])
                   /\ IsDatabase(c[8]) /\ IsDatabase(c[9])
             /\ Runs(s, d) <=> /\ Possible(s[1], c[0]) /\ Possible(s[2], c[1]) /\ Possible(s[3], c[2])
                               /\ Possible(s[4], c[3]) /\ Possible(s[5], c[4]) /\ Possible(s[6], c[5])
                               /\ Possible(s[7], c[6]) /\ Possible(s[8], c[7]) /\ Possible(s[9], c[8])
  BY DEF c
<1>4. \A k \in 1 .. 9 : c[k] = Done(s[k], c[k - 1])
  BY <1>1, <1>3
<1>5. Runs(s, d) <=> \A k \in 1 .. 9 : Possible(s[k], c[k - 1])
  BY <1>2, <1>3
<1>6. Runs(s, d) <=> /\ Possible(s[1], c[0]) /\ Possible(s[2], c[1]) /\ Possible(s[3], c[2])
                        /\ Possible(s[4], c[3]) /\ Possible(s[5], c[4]) /\ Possible(s[6], c[5])
                        /\ Possible(s[7], c[6]) /\ Possible(s[8], c[7]) /\ Possible(s[9], c[8])
  BY <1>5
<1>7. ASSUME IsDatabase(d)
      PROVE  /\ IsDatabase(c[0]) /\ IsDatabase(c[1]) /\ IsDatabase(c[2]) /\ IsDatabase(c[3])
             /\ IsDatabase(c[4]) /\ IsDatabase(c[5]) /\ IsDatabase(c[6]) /\ IsDatabase(c[7])
             /\ IsDatabase(c[8]) /\ IsDatabase(c[9])
  BY <1>1, <1>4, <1>7, DoneIs
<1>. QED  BY <1>1, <1>4, <1>6, <1>7

-----------------------------------------------------------------------------
(* What each revision makes of a database. *)

\* The facts that each upgrade adds, and those that it takes away.
Grown == <<
    {"otps", "otps.otp_code:integer", "users", "ix_users_phone_number"},
    {"otps.is_used:required", "users.is_active:required", "users.is_verified:required"},
    {"otps.expires_at", "otps.otp_code:string"},
    {"inventory_providers", "inventory_providers.name:unique", "types",
     "products", "ix_products_sku", "reservations",
     "orders", "orders.reservation_id:unique", "orders_reservation_id_fkey",
     "product_inventories", "uq_product_provider",
     "reservation_items", "reservation_items.product_id", "reservation_items.provider_id",
     "reservation_items_product_id_fkey:products", "reservation_items_provider_id_fkey",
     "order_items", "order_items_product_inventory_id_fkey", "provider_call_logs"},
    {"reservation_items_product_id_fkey:inventories"},
    {"reservation_items.product_inventory_id", "reservation_items_product_inventory_id_fkey"},
    {"reservations.client_idempotency_key", "reservations.version",
     "reservations.key_and_user:unique"},
    {"order_items.sku"},
    {"CREATING", "PENDING_LOCAL", "CONFIRMING"},
    {"HELD_LOCAL"} >>
Shed == <<
    {}, {}, {"otps.otp_code:integer"}, {},
    {"reservation_items_provider_id_fkey", "reservation_items_product_id_fkey:products",
     "reservation_items.provider_id"},
    {"reservation_items_product_id_fkey:inventories", "reservation_items.product_id"},
    {}, {"order_items_product_inventory_id_fkey", "orders_reservation_id_fkey"}, {}, {} >>

Missing == {"no_inventory", "no_product", "no_key", "no_version"}

\* A statement of a transaction takes no enum label, and leaves NULL only what
\* is missing.
Tame(s) == ~s.auto /\ s.takes \cap Lasting = {} /\ \A n \in s.nulls : n[2] \in Missing

Ready(r, d) == Shed[r] \subseteq d.schema /\ (Grown[r] \ Lasting) \cap d.schema = {}

\* Up and down again leaves the schema as it was, but for enum labels.
MovesUp(r, d, e) == /\ e.schema = (d.schema \ Shed[r]) \cup Grown[r]
                    /\ e.rows = d.rows /\ e.revision = d.revision
                    /\ IsDatabase(e)
MovesDown(r, d, e) == /\ e.schema = (d.schema \ (Grown[r] \ Lasting)) \cup Shed[r]
                      /\ e.rows \subseteq d.rows /\ e.revision = d.revision
                      /\ IsDatabase(e)

\* All kinds of statement but AddLabel, whatever they are about.
LEMMA KindsAreTame ==
    /\ \A T, F : Tame(On(T, New(F)))
    /\ \A T, F : F \cap Lasting = {} => Tame(On(T, Gone(F)))
    /\ \A T, F : Tame(On(T, Declare(F)))
    /\ \A T, F : F \cap Lasting = {} => Tame(On(T, Relax(F)))
    /\ \A T, f, g : {f} \cap Lasting = {} => Tame(On(T, Changed(f, g)))
    /\ \A T, F, B, M : F \cap Lasting = {} => Tame(On(T, DropTable(F, B, M)))
    /\ \A T, f, m : Tame(On(T, AddRequired(f, m)))
    /\ \A T, F, t, m : m \in Missing => Tame(On(T, AddNullable(F, t, m)))
    /\ \A T, M : Tame(On(T, Fill(M)))
    /\ \A T, m : Tame(On(T, Require(m)))
    /\ \A T, f : Tame(On(T, AddForeignKey(f)))
    /\ \A T, f : {f} \cap Lasting = {} => Tame(On(T, Impossible(f)))
    /\ \A f : {f} \cap Lasting = {} => Tame(Impossible(f))
<1>1. \A T, F : Tame(On(T, New(F)))
  BY DEF Tame, On, New, Plain
<1>2. \A T, F : F \cap Lasting = {} => Tame(On(T, Gone(F)))
  BY DEF Tame, On, Gone, Plain
<1>3. \A T, F : Tame(On(T, Declare(F)))
  BY DEF Tame, On, Declare, Plain
<1>4. \A T, F : F \cap Lasting = {} => Tame(On(T, Relax(F)))
  BY DEF Tame, On, Relax, Plain
<1>5. \A T, f, g : {f} \cap Lasting = {} => Tame(On(T, Changed(f, g)))
  BY DEF Tame, On, Changed, Gone, Plain
<1>6. \A T, F, B, M : F \cap Lasting = {} => Tame(On(T, DropTable(F, B, M)))
  BY DEF Tame, On, DropTable, Gone, Plain
<1>7. \A T, f, m : Tame(On(T, AddRequired(f, m)))
  BY DEF Tame, On, AddRequired, New, Plain
<1>8. \A T, F, t, m : m \in Missing => Tame(On(T, AddNullable(F, t, m)))
  BY DEF Tame, On, AddNullable, New, Plain
<1>9. \A T, M : Tame(On(T, Fill(M)))
  BY DEF Tame, On, Fill, Plain
<1>10. \A T, m : Tame(On(T, Require(m)))
  BY DEF Tame, On, Require, Plain
<1>11. \A T, f : Tame(On(T, AddForeignKey(f)))
  BY DEF Tame, On, AddForeignKey, New, Plain
<1>12. \A T, f : {f} \cap Lasting = {} => Tame(On(T, Impossible(f)))
  BY DEF Tame, On, Impossible, Gone, Plain
<1>13. \A f : {f} \cap Lasting = {} => Tame(Impossible(f))
  BY DEF Tame, Impossible, Gone, Plain
<1>. QED  BY <1>1, <1>2, <1>3, <1>4, <1>5, <1>6, <1>7, <1>8, <1>9, <1>10, <1>11, <1>12, <1>13

\* 250dc: the tables otps and users.
LEMMA UpgradeTo1 ==
    LET s == Up250dc IN
    /\ \A k \in 1 .. Len(s) : Tame(s[k])
    /\ \A d : IsDatabase(d) /\ d.rows \subseteq Written =>
          /\ MovesUp(1, d, Course(s, d)[Len(s)])
          /\ Ready(1, d) => Runs(s, d)
<1>. DEFINE s == Up250dc
<1>1. Len(s) = 3 /\ Len(s) \in Nat
  BY DEF Up250dc
<1>2. \A k \in 1 .. 3 : Tame(s[k])
  BY KindsAreTame DEF Up250dc, Lasting
<1>3. ASSUME NEW d, IsDatabase(d), d.rows \subseteq Written
      PROVE  /\ MovesUp(1, d, Course(s, d)[3])
             /\ Ready(1, d) => Runs(s, d)
  <2>. DEFINE c == Course(s, d)
  <2>1. /\ c[0] = d /\ c[1] = Done(s[1], c[0]) /\ c[2] = Done(s[2], c[1])
        /\ c[3] = Done(s[3], c[2])
        /\ Runs(s, d) <=> /\ Possible(s[1], c[0]) /\ Possible(s[2], c[1]) /\ Possible(s[3], c[2])
        /\ IsDatabase(c[0]) /\ IsDatabase(c[1]) /\ IsDatabase(c[2]) /\ IsDatabase(c[3])
    BY <1>1, <1>3, Course3
  <2>. HIDE DEF c
  <2>2. c[3].schema = (d.schema \ Shed[1]) \cup Grown[1]
    BY <2>1, NewDoes DEF Up250dc, Shed, Grown
  <2>3. c[3].rows = d.rows /\ c[3].revision = d.revision
    BY <2>1, NewDoes DEF Up250dc
  <2>4. Ready(1, d) => Runs(s, d)
    BY <2>1, NewDoes DEF Up250dc, Ready, Shed, Grown, Lasting
  <2>. QED  BY <2>1, <2>2, <2>3, <2>4 DEF c, MovesUp
<1>. QED  BY <1>1, <1>2, <1>3

\* 5f53d: three columns of them become NOT NULL.
LEMMA UpgradeTo2 ==
    LET s == Up5f53d IN
    /\ \A k \in 1 .. Len(s) : Tame(s[k])
    /\ \A d : IsDatabase(d) /\ d.rows \subseteq Written =>
          /\ MovesUp(2, d, Course(s, d)[Len(s)])
          /\ Ready(2, d) => Runs(s, d)
<1>. DEFINE s == Up5f53d
<1>1. Len(s) = 2 /\ Len(s) \in Nat
  BY DEF Up5f53d
<1>2. \A k \in 1 .. 2 : Tame(s[k])
  BY KindsAreTame DEF Up5f53d, Lasting
<1>3. ASSUME NEW d, IsDatabase(d), d.rows \subseteq Written
      PROVE  /\ MovesUp(2, d, Course(s, d)[2])
             /\ Ready(2, d) => Runs(s, d)
  <2>. DEFINE c == Course(s, d)
  <2>1. /\ c[0] = d /\ c[1] = Done(s[1], c[0]) /\ c[2] = Done(s[2], c[1])
        /\ Runs(s, d) <=> /\ Possible(s[1], c[0]) /\ Possible(s[2], c[1])
        /\ IsDatabase(c[0]) /\ IsDatabase(c[1]) /\ IsDatabase(c[2])
    BY <1>1, <1>3, Course2
  <2>. HIDE DEF c
  <2>2. c[2].schema = (d.schema \ Shed[2]) \cup Grown[2]
    BY <2>1, DeclareDoes DEF Up5f53d, Shed, Grown
  <2>3. c[2].rows = d.rows /\ c[2].revision = d.revision
    BY <2>1, DeclareDoes DEF Up5f53d
  <2>4. Ready(2, d) => Runs(s, d)
    BY <2>1, DeclareDoes DEF Up5f53d, Ready, Shed, Grown, Lasting
  <2>. QED  BY <2>1, <2>2, <2>3, <2>4 DEF c, MovesUp
<1>. QED  BY <1>1, <1>2, <1>3

\* 54bea: a column is added to otps that its rows would have to fill.
LEMMA UpgradeTo3 ==
    LET s == Up54bea IN
    /\ \A k \in 1 .. Len(s) : Tame(s[k])
    /\ \A d : IsDatabase(d) /\ d.rows \subseteq Written =>
          /\ MovesUp(3, d, Course(s, d)[Len(s)])
          /\ Ready(3, d) => (Runs(s, d) <=> "otps" \notin d.rows)
<1>. DEFINE s == Up54bea
<1>1. Len(s) = 2 /\ Len(s) \in Nat
  BY DEF Up54bea
<1>2. \A k \in 1 .. 2 : Tame(s[k])
  BY KindsAreTame DEF Up54bea, Lasting
<1>3. ASSUME NEW d, IsDatabase(d), d.rows \subseteq Written
      PROVE  /\ MovesUp(3, d, Course(s, d)[2])
             /\ Ready(3, d) => (Runs(s, d) <=> "otps" \notin d.rows)
  <2>. DEFINE c == Course(s, d)
  <2>1. /\ c[0] = d /\ c[1] = Done(s[1], c[0]) /\ c[2] = Done(s[2], c[1])
        /\ Runs(s, d) <=> /\ Possible(s[1], c[0]) /\ Possible(s[2], c[1])
        /\ IsDatabase(c[0]) /\ IsDatabase(c[1]) /\ IsDatabase(c[2])
    BY <1>1, <1>3, Course2
  <2>. HIDE DEF c
  <2>2. c[2].schema = (d.schema \ Shed[3]) \cup Grown[3]
    BY <2>1, AddRequiredDoes, ChangedDoes DEF Up54bea, Shed, Grown
  <2>3. c[2].rows = d.rows /\ c[2].revision = d.revision
    BY <2>1, AddRequiredDoes, ChangedDoes DEF Up54bea
  <2>4. Ready(3, d) => (Runs(s, d) <=> "otps" \notin d.rows)
    BY <2>1, AddRequiredDoes, ChangedDoes DEF Up54bea, Ready, Shed, Grown, Lasting
  <2>. QED  BY <2>1, <2>2, <2>3, <2>4 DEF c, MovesUp
<1>. QED  BY <1>1, <1>2, <1>3

\* f6be8: nine tables and their enum types.
LEMMA UpgradeTo4 ==
    LET s == Upf6be8 IN
    /\ \A k \in 1 .. Len(s) : Tame(s[k])
    /\ \A d : IsDatabase(d) /\ d.rows \subseteq Written =>
          /\ MovesUp(4, d, Course(s, d)[Len(s)])
          /\ Ready(4, d) => (Runs(s, d) <=> "types" \notin d.schema)
<1>. DEFINE s == Upf6be8
<1>1. Len(s) = 9 /\ Len(s) \in Nat
  BY DEF Upf6be8
<1>2. \A k \in 1 .. 9 : Tame(s[k])
  BY KindsAreTame DEF Upf6be8, Lasting
<1>3. ASSUME NEW d, IsDatabase(d), d.rows \subseteq Written
      PROVE  /\ MovesUp(4, d, Course(s, d)[9])
             /\ Ready(4, d) => (Runs(s, d) <=> "types" \notin d.schema)
  <2>. DEFINE c == Course(s, d)
  <2>1. /\ c[0] = d /\ c[1] = Done(s[1], c[0]) /\ c[2] = Done(s[2], c[1])
        /\ c[3] = Done(s[3], c[2]) /\ c[4] = Done(s[4], c[3]) /\ c[5] = Done(s[5], c[4])
        /\ c[6] = Done(s[6], c[5]) /\ c[7] = Done(s[7], c[6]) /\ c[8] = Done(s[8], c[7])
        /\ c[9] = Done(s[9], c[8])
        /\ Runs(s, d) <=> /\ Possible(s[1], c[0]) /\ Possible(s[2], c[1]) /\ Possible(s[3], c[2])
                          /\ Possible(s[4], c[3]) /\ Possible(s[5], c[4]) /\ Possible(s[6], c[5])
                          /\ Possible(s[7], c[6]) /\ Possible(s[8], c[7]) /\ Possible(s[9], c[8])
        /\ IsDatabase(c[0]) /\ IsDatabase(c[1]) /\ IsDatabase(c[2]) /\ IsDatabase(c[3])
        /\ IsDatabase(c[4]) /\ IsDatabase(c[5]) /\ IsDatabase(c[6]) /\ IsDatabase(c[7])
        /\ IsDatabase(c[8]) /\ IsDatabase(c[9])
    BY <1>1, <1>3, Course9
  <2>. HIDE DEF c
  <2>2. c[9].schema = (d.schema \ Shed[4]) \cup Grown[4]
    BY <2>1, NewDoes DEF Upf6be8, Shed, Grown
  <2>3. c[9].rows = d.rows /\ c[9].revision = d.revision
    BY <2>1, NewDoes DEF Upf6be8
  <2>4. Ready(4, d) => (Runs(s, d) <=> "types" \notin d.schema)
    BY <2>1, NewDoes DEF Upf6be8, Ready, Shed, Grown, Lasting
  <2>. QED  BY <2>1, <2>2, <2>3, <2>4 DEF c, MovesUp
<1>. QED  BY <1>1, <1>2, <1>3

\* 38dd2: items name an inventory instead of a product; strays are refused.
LEMMA UpgradeTo5 ==
    LET s == Up38dd2 IN
    /\ \A k \in 1 .. Len(s) : Tame(s[k])
    /\ \A d : IsDatabase(d) /\ d.rows \subseteq Written =>
          /\ MovesUp(5, d, Course(s, d)[Len(s)])
          /\ Ready(5, d) => (Runs(s, d) <=> "strays" \notin d.rows)
<1>. DEFINE s == Up38dd2
<1>1. Len(s) = 4 /\ Len(s) \in Nat
  BY DEF Up38dd2
<1>2. \A k \in 1 .. 4 : Tame(s[k])
  BY KindsAreTame DEF Up38dd2, Lasting
<1>3. ASSUME NEW d, IsDatabase(d), d.rows \subseteq Written
      PROVE  /\ MovesUp(5, d, Course(s, d)[4])
             /\ Ready(5, d) => (Runs(s, d) <=> "strays" \notin d.rows)
  <2>. DEFINE c == Course(s, d)
  <2>1. /\ c[0] = d /\ c[1] = Done(s[1], c[0]) /\ c[2] = Done(s[2], c[1])
        /\ c[3] = Done(s[3], c[2]) /\ c[4] = Done(s[4], c[3])
        /\ Runs(s, d) <=> /\ Possible(s[1], c[0]) /\ Possible(s[2], c[1]) /\ Possible(s[3], c[2])
                          /\ Possible(s[4], c[3])
        /\ IsDatabase(c[0]) /\ IsDatabase(c[1]) /\ IsDatabase(c[2]) /\ IsDatabase(c[3])
        /\ IsDatabase(c[4])
    BY <1>1, <1>3, Course4
  <2>. HIDE DEF c
  <2>2. c[4].schema = (d.schema \ Shed[5]) \cup Grown[5]
    BY <2>1, GoneDoes, AddForeignKeyDoes DEF Up38dd2, Shed, Grown
  <2>3. c[4].rows = d.rows /\ c[4].revision = d.revision
    BY <2>1, GoneDoes, AddForeignKeyDoes DEF Up38dd2
  <2>4. Ready(5, d) => (Runs(s, d) <=> "strays" \notin d.rows)
    BY <2>1, GoneDoes, AddForeignKeyDoes DEF Up38dd2, Ready, Shed, Grown, Lasting
  <2>. QED  BY <2>1, <2>2, <2>3, <2>4 DEF c, MovesUp
<1>. QED  BY <1>1, <1>2, <1>3

\* 5d0c6: the column of the items is renamed by way of a nullable copy.
LEMMA UpgradeTo6 ==
    LET s == Up5d0c6 IN
    /\ \A k \in 1 .. Len(s) : Tame(s[k])
    /\ \A d : IsDatabase(d) /\ d.rows \subseteq Written =>
          /\ MovesUp(6, d, Course(s, d)[Len(s)])
          /\ Ready(6, d) => (Runs(s, d) <=> "strays" \notin d.rows)
<1>. DEFINE s == Up5d0c6
<1>1. Len(s) = 6 /\ Len(s) \in Nat
  BY DEF Up5d0c6
<1>2. \A k \in 1 .. 6 : Tame(s[k])
  BY KindsAreTame DEF Up5d0c6, Lasting, Missing
<1>3. ASSUME NEW d, IsDatabase(d), d.rows \subseteq Written
      PROVE  /\ MovesUp(6, d, Course(s, d)[6])
             /\ Ready(6, d) => (Runs(s, d) <=> "strays" \notin d.rows)
  <2>. DEFINE c == Course(s, d)
  <2>1. /\ c[0] = d /\ c[1] = Done(s[1], c[0]) /\ c[2] = Done(s[2], c[1])
        /\ c[3] = Done(s[3], c[2]) /\ c[4] = Done(s[4], c[3]) /\ c[5] = Done(s[5], c[4])
        /\ c[6] = Done(s[6], c[5])
        /\ Runs(s, d) <=> /\ Possible(s[1], c[0]) /\ Possible(s[2], c[1]) /\ Possible(s[3], c[2])
                          /\ Possible(s[4], c[3]) /\ Possible(s[5], c[4]) /\ Possible(s[6], c[5])
        /\ IsDatabase(c[0]) /\ IsDatabase(c[1]) /\ IsDatabase(c[2]) /\ IsDatabase(c[3])
        /\ IsDatabase(c[4]) /\ IsDatabase(c[5]) /\ IsDatabase(c[6])
    BY <1>1, <1>3, Course6
  <2>. HIDE DEF c
  <2>2. c[6].schema = (d.schema \ Shed[6]) \cup Grown[6]
    BY <2>1, AddNullableDoes, FillDoes, RequireDoes, GoneDoes, AddForeignKeyDoes
    DEF Up5d0c6, Shed, Grown
  <2>3. c[6].rows = d.rows /\ c[6].revision = d.revision
    <3>1. {"no_inventory"} \cap d.rows = {}
      BY <1>3 DEF Written
    <3>2. c[6].rows \subseteq d.rows
      BY <2>1, AddNullableDoes, FillDoes, RequireDoes, GoneDoes, AddForeignKeyDoes
    DEF Up5d0c6
    <3>3. d.rows \subseteq c[6].rows
      BY <2>1, <3>1, AddNullableDoes, FillDoes, RequireDoes, GoneDoes, AddForeignKeyDoes
    DEF Up5d0c6
    <3>4. c[6].revision = d.revision
      BY <2>1, AddNullableDoes, FillDoes, RequireDoes, GoneDoes, AddForeignKeyDoes
    DEF Up5d0c6
    <3>. QED  BY <3>2, <3>3, <3>4
  <2>4. Ready(6, d) => (Runs(s, d) <=> "strays" \notin d.rows)
    BY <2>1, <1>3, AddNullableDoes, FillDoes, RequireDoes, GoneDoes, AddForeignKeyDoes
    DEF Up5d0c6, Ready, Shed, Grown, Lasting, Written
  <2>. QED  BY <2>1, <2>2, <2>3, <2>4 DEF c, MovesUp
<1>. QED  BY <1>1, <1>2, <1>3

\* c3c55: two columns of reservations, added, filled in and required.
LEMMA UpgradeTo7 ==
    LET s == Upc3c55 IN
    /\ \A k \in 1 .. Len(s) : Tame(s[k])
    /\ \A d : IsDatabase(d) /\ d.rows \subseteq Written =>
          /\ MovesUp(7, d, Course(s, d)[Len(s)])
          /\ Ready(7, d) => Runs(s, d)
<1>. DEFINE s == Upc3c55
<1>1. Len(s) = 6 /\ Len(s) \in Nat
  BY DEF Upc3c55
<1>2. \A k \in 1 .. 6 : Tame(s[k])
  BY KindsAreTame DEF Upc3c55, Lasting, Missing
<1>3. ASSUME NEW d, IsDatabase(d), d.rows \subseteq Written
      PROVE  /\ MovesUp(7, d, Course(s, d)[6])
             /\ Ready(7, d) => Runs(s, d)
  <2>. DEFINE c == Course(s, d)
  <2>1. /\ c[0] = d /\ c[1] = Done(s[1], c[0]) /\ c[2] = Done(s[2], c[1])
        /\ c[3] = Done(s[3], c[2]) /\ c[4] = Done(s[4], c[3]) /\ c[5] = Done(s[5], c[4])
        /\ c[6] = Done(s[6], c[5])
        /\ Runs(s, d) <=> /\ Possible(s[1], c[0]) /\ Possible(s[2], c[1]) /\ Possible(s[3], c[2])
                          /\ Possible(s[4], c[3]) /\ Possible(s[5], c[4]) /\ Possible(s[6], c[5])
        /\ IsDatabase(c[0]) /\ IsDatabase(c[1]) /\ IsDatabase(c[2]) /\ IsDatabase(c[3])
        /\ IsDatabase(c[4]) /\ IsDatabase(c[5]) /\ IsDatabase(c[6])
    BY <1>1, <1>3, Course6
  <2>. HIDE DEF c
  <2>2. c[6].schema = (d.schema \ Shed[7]) \cup Grown[7]
    BY <2>1, AddNullableDoes, FillDoes, RequireDoes, NewDoes DEF Upc3c55, Shed, Grown
  <2>3. c[6].rows = d.rows /\ c[6].revision = d.revision
    <3>1. {"no_key", "no_version"} \cap d.rows = {}
      BY <1>3 DEF Written
    <3>2. c[6].rows \subseteq d.rows
      BY <2>1, AddNullableDoes, FillDoes, RequireDoes, NewDoes DEF Upc3c55
    <3>3. d.rows \subseteq c[6].rows
      BY <2>1, <3>1, AddNullableDoes, FillDoes, RequireDoes, NewDoes DEF Upc3c55
    <3>4. c[6].revision = d.revision
      BY <2>1, AddNullableDoes, FillDoes, RequireDoes, NewDoes DEF Upc3c55
    <3>. QED  BY <3>2, <3>3, <3>4
  <2>4. Ready(7, d) => Runs(s, d)
    BY <2>1, <1>3, AddNullableDoes, FillDoes, RequireDoes, NewDoes
    DEF Upc3c55, Ready, Shed, Grown, Lasting, Written
  <2>. QED  BY <2>1, <2>2, <2>3, <2>4 DEF c, MovesUp
<1>. QED  BY <1>1, <1>2, <1>3

\* 89cce: items of orders get a required column and lose their keys.
LEMMA UpgradeTo8 ==
    LET s == Up89cce IN
    /\ \A k \in 1 .. Len(s) : Tame(s[k])
    /\ \A d : IsDatabase(d) /\ d.rows \subseteq Written =>
          /\ MovesUp(8, d, Course(s, d)[Len(s)])
          /\ Ready(8, d) => (Runs(s, d) <=> "order_items" \notin d.rows)
<1>. DEFINE s == Up89cce
<1>1. Len(s) = 3 /\ Len(s) \in Nat
  BY DEF Up89cce
<1>2. \A k \in 1 .. 3 : Tame(s[k])
  BY KindsAreTame DEF Up89cce, Lasting
<1>3. ASSUME NEW d, IsDatabase(d), d.rows \subseteq Written
      PROVE  /\ MovesUp(8, d, Course(s, d)[3])
             /\ Ready(8, d) => (Runs(s, d) <=> "order_items" \notin d.rows)
  <2>. DEFINE c == Course(s, d)
  <2>1. /\ c[0] = d /\ c[1] = Done(s[1], c[0]) /\ c[2] = Done(s[2], c[1])
        /\ c[3] = Done(s[3], c[2])
        /\ Runs(s, d) <=> /\ Possible(s[1], c[0]) /\ Possible(s[2], c[1]) /\ Possible(s[3], c[2])
        /\ IsDatabase(c[0]) /\ IsDatabase(c[1]) /\ IsDatabase(c[2]) /\ IsDatabase(c[3])
    BY <1>1, <1>3, Course3
  <2>. HIDE DEF c
  <2>2. c[3].schema = (d.schema \ Shed[8]) \cup Grown[8]
    BY <2>1, AddRequiredDoes, GoneDoes DEF Up89cce, Shed, Grown
  <2>3. c[3].rows = d.rows /\ c[3].revision = d.revision
    BY <2>1, AddRequiredDoes, GoneDoes DEF Up89cce
  <2>4. Ready(8, d) => (Runs(s, d) <=> "order_items" \notin d.rows)
    BY <2>1, AddRequiredDoes, GoneDoes DEF Up89cce, Ready, Shed, Grown, Lasting
  <2>. QED  BY <2>1, <2>2, <2>3, <2>4 DEF c, MovesUp
<1>. QED  BY <1>1, <1>2, <1>3

\* The downgrades, as far as they can run.
LEMMA DowngradeFrom1 ==
    LET s == Down250dc IN
    /\ \A k \in 1 .. Len(s) : Tame(s[k])
    /\ \A d : IsDatabase(d) /\ d.rows \subseteq Written => MovesDown(1, d, Course(s, d)[Len(s)])
<1>. DEFINE s == Down250dc
<1>1. Len(s) = 3 /\ Len(s) \in Nat
  BY DEF Down250dc
<1>2. \A k \in 1 .. 3 : Tame(s[k])
  BY KindsAreTame DEF Down250dc, Lasting
<1>3. ASSUME NEW d, IsDatabase(d), d.rows \subseteq Written
      PROVE  MovesDown(1, d, Course(s, d)[3])
  <2>. DEFINE c == Course(s, d)
  <2>1. /\ c[0] = d /\ c[1] = Done(s[1], c[0]) /\ c[2] = Done(s[2], c[1])
        /\ c[3] = Done(s[3], c[2])
        /\ IsDatabase(c[0]) /\ IsDatabase(c[1]) /\ IsDatabase(c[2]) /\ IsDatabase(c[3])
    BY <1>1, <1>3, Course3
  <2>. HIDE DEF c
  <2>2. c[3].schema = (d.schema \ (Grown[1] \ Lasting)) \cup Shed[1]
    BY <2>1, GoneDoes, DropTableDoes DEF Down250dc, Shed, Grown, Lasting
  <2>3. c[3].rows \subseteq d.rows /\ c[3].revision = d.revision
    BY <2>1, GoneDoes, DropTableDoes DEF Down250dc
  <2>. QED  BY <2>1, <2>2, <2>3 DEF c, MovesDown
<1>. QED  BY <1>1, <1>2, <1>3

LEMMA DowngradeFrom2 ==
    LET s == Down5f53d IN
    /\ \A k \in 1 .. Len(s) : Tame(s[k])
    /\ \A d : IsDatabase(d) /\ d.rows \subseteq Written => MovesDown(2, d, Course(s, d)[Len(s)])
<1>. DEFINE s == Down5f53d
<1>1. Len(s) = 2 /\ Len(s) \in Nat
  BY DEF Down5f53d
<1>2. \A k \in 1 .. 2 : Tame(s[k])
  BY KindsAreTame DEF Down5f53d, Lasting
<1>3. ASSUME NEW d, IsDatabase(d), d.rows \subseteq Written
      PROVE  MovesDown(2, d, Course(s, d)[2])
  <2>. DEFINE c == Course(s, d)
  <2>1. /\ c[0] = d /\ c[1] = Done(s[1], c[0]) /\ c[2] = Done(s[2], c[1])
        /\ IsDatabase(c[0]) /\ IsDatabase(c[1]) /\ IsDatabase(c[2])
    BY <1>1, <1>3, Course2
  <2>. HIDE DEF c
  <2>2. c[2].schema = (d.schema \ (Grown[2] \ Lasting)) \cup Shed[2]
    BY <2>1, RelaxDoes DEF Down5f53d, Shed, Grown, Lasting
  <2>3. c[2].rows \subseteq d.rows /\ c[2].revision = d.revision
    BY <2>1, RelaxDoes DEF Down5f53d
  <2>. QED  BY <2>1, <2>2, <2>3 DEF c, MovesDown
<1>. QED  BY <1>1, <1>2, <1>3

LEMMA DowngradeFrom4 ==
    LET s == Downf6be8 IN
    /\ \A k \in 1 .. Len(s) : Tame(s[k])
    /\ \A d : IsDatabase(d) /\ d.rows \subseteq Written => MovesDown(4, d, Course(s, d)[Len(s)])
<1>. DEFINE s == Downf6be8
<1>1. Len(s) = 9 /\ Len(s) \in Nat
  BY DEF Downf6be8
<1>2. \A k \in 1 .. 9 : Tame(s[k])
  BY KindsAreTame DEF Downf6be8, Lasting
<1>3. ASSUME NEW d, IsDatabase(d), d.rows \subseteq Written
      PROVE  MovesDown(4, d, Course(s, d)[9])
  <2>. DEFINE c == Course(s, d)
  <2>1. /\ c[0] = d /\ c[1] = Done(s[1], c[0]) /\ c[2] = Done(s[2], c[1])
        /\ c[3] = Done(s[3], c[2]) /\ c[4] = Done(s[4], c[3]) /\ c[5] = Done(s[5], c[4])
        /\ c[6] = Done(s[6], c[5]) /\ c[7] = Done(s[7], c[6]) /\ c[8] = Done(s[8], c[7])
        /\ c[9] = Done(s[9], c[8])
        /\ IsDatabase(c[0]) /\ IsDatabase(c[1]) /\ IsDatabase(c[2]) /\ IsDatabase(c[3])
        /\ IsDatabase(c[4]) /\ IsDatabase(c[5]) /\ IsDatabase(c[6]) /\ IsDatabase(c[7])
        /\ IsDatabase(c[8]) /\ IsDatabase(c[9])
    BY <1>1, <1>3, Course9
  <2>. HIDE DEF c
  <2>2. c[9].schema = (d.schema \ (Grown[4] \ Lasting)) \cup Shed[4]
    BY <2>1, GoneDoes, DropTableDoes DEF Downf6be8, Shed, Grown, Lasting
  <2>3. c[9].rows \subseteq d.rows /\ c[9].revision = d.revision
    BY <2>1, GoneDoes, DropTableDoes DEF Downf6be8
  <2>. QED  BY <2>1, <2>2, <2>3 DEF c, MovesDown
<1>. QED  BY <1>1, <1>2, <1>3

LEMMA DowngradeFrom6 ==
    LET s == Down5d0c6 IN
    /\ \A k \in 1 .. Len(s) : Tame(s[k])
    /\ \A d : IsDatabase(d) /\ d.rows \subseteq Written => MovesDown(6, d, Course(s, d)[Len(s)])
<1>. DEFINE s == Down5d0c6
<1>1. Len(s) = 6 /\ Len(s) \in Nat
  BY DEF Down5d0c6
<1>2. \A k \in 1 .. 6 : Tame(s[k])
  BY KindsAreTame DEF Down5d0c6, Lasting, Missing
<1>3. ASSUME NEW d, IsDatabase(d), d.rows \subseteq Written
      PROVE  MovesDown(6, d, Course(s, d)[6])
  <2>. DEFINE c == Course(s, d)
  <2>1. /\ c[0] = d /\ c[1] = Done(s[1], c[0]) /\ c[2] = Done(s[2], c[1])
        /\ c[3] = Done(s[3], c[2]) /\ c[4] = Done(s[4], c[3]) /\ c[5] = Done(s[5], c[4])
        /\ c[6] = Done(s[6], c[5])
        /\ IsDatabase(c[0]) /\ IsDatabase(c[1]) /\ IsDatabase(c[2]) /\ IsDatabase(c[3])
        /\ IsDatabase(c[4]) /\ IsDatabase(c[5]) /\ IsDatabase(c[6])
    BY <1>1, <1>3, Course6
  <2>. HIDE DEF c
  <2>2. c[6].schema = (d.schema \ (Grown[6] \ Lasting)) \cup Shed[6]
    BY <2>1, AddNullableDoes, FillDoes, RequireDoes, GoneDoes, AddForeignKeyDoes
    DEF Down5d0c6, Shed, Grown, Lasting
  <2>3. c[6].rows \subseteq d.rows /\ c[6].revision = d.revision
    BY <2>1, <1>3, AddNullableDoes, FillDoes, RequireDoes, GoneDoes, AddForeignKeyDoes
    DEF Down5d0c6, Written
  <2>. QED  BY <2>1, <2>2, <2>3 DEF c, MovesDown
<1>. QED  BY <1>1, <1>2, <1>3

LEMMA DowngradeFrom7 ==
    LET s == Downc3c55 IN
    /\ \A k \in 1 .. Len(s) : Tame(s[k])
    /\ \A d : IsDatabase(d) /\ d.rows \subseteq Written => MovesDown(7, d, Course(s, d)[Len(s)])
<1>. DEFINE s == Downc3c55
<1>1. Len(s) = 3 /\ Len(s) \in Nat
  BY DEF Downc3c55
<1>2. \A k \in 1 .. 3 : Tame(s[k])
  BY KindsAreTame DEF Downc3c55, Lasting
<1>3. ASSUME NEW d, IsDatabase(d), d.rows \subseteq Written
      PROVE  MovesDown(7, d, Course(s, d)[3])
  <2>. DEFINE c == Course(s, d)
  <2>1. /\ c[0] = d /\ c[1] = Done(s[1], c[0]) /\ c[2] = Done(s[2], c[1])
        /\ c[3] = Done(s[3], c[2])
        /\ IsDatabase(c[0]) /\ IsDatabase(c[1]) /\ IsDatabase(c[2]) /\ IsDatabase(c[3])
    BY <1>1, <1>3, Course3
  <2>. HIDE DEF c
  <2>2. c[3].schema = (d.schema \ (Grown[7] \ Lasting)) \cup Shed[7]
    BY <2>1, GoneDoes DEF Downc3c55, Shed, Grown, Lasting
  <2>3. c[3].rows \subseteq d.rows /\ c[3].revision = d.revision
    BY <2>1, GoneDoes DEF Downc3c55
  <2>. QED  BY <2>1, <2>2, <2>3 DEF c, MovesDown
<1>. QED  BY <1>1, <1>2, <1>3

LEMMA DowngradeFrom8 ==
    LET s == Down89cce IN
    /\ \A k \in 1 .. Len(s) : Tame(s[k])
    /\ \A d : IsDatabase(d) /\ d.rows \subseteq Written => MovesDown(8, d, Course(s, d)[Len(s)])
<1>. DEFINE s == Down89cce
<1>1. Len(s) = 3 /\ Len(s) \in Nat
  BY DEF Down89cce
<1>2. \A k \in 1 .. 3 : Tame(s[k])
  BY KindsAreTame DEF Down89cce, Lasting
<1>3. ASSUME NEW d, IsDatabase(d), d.rows \subseteq Written
      PROVE  MovesDown(8, d, Course(s, d)[3])
  <2>. DEFINE c == Course(s, d)
  <2>1. /\ c[0] = d /\ c[1] = Done(s[1], c[0]) /\ c[2] = Done(s[2], c[1])
        /\ c[3] = Done(s[3], c[2])
        /\ IsDatabase(c[0]) /\ IsDatabase(c[1]) /\ IsDatabase(c[2]) /\ IsDatabase(c[3])
    BY <1>1, <1>3, Course3
  <2>. HIDE DEF c
  <2>2. c[3].schema = (d.schema \ (Grown[8] \ Lasting)) \cup Shed[8]
    BY <2>1, NewDoes, GoneDoes DEF Down89cce, Shed, Grown, Lasting
  <2>3. c[3].rows \subseteq d.rows /\ c[3].revision = d.revision
    BY <2>1, NewDoes, GoneDoes DEF Down89cce
  <2>. QED  BY <2>1, <2>2, <2>3 DEF c, MovesDown
<1>. QED  BY <1>1, <1>2, <1>3

\* Two downgrades have a statement that no database lets pass.
LEMMA DowngradeFrom3 ==
    LET s == Down54bea IN
    /\ Len(s) = 2 /\ \A k \in 1 .. 2 : Tame(s[k])
    /\ "cast_string_to_integer" \in s[1].needs
<1>1. Len(Down54bea) = 2 /\ \A k \in 1 .. 2 : Tame(Down54bea[k])
  BY KindsAreTame DEF Down54bea, Lasting
<1>2. "cast_string_to_integer" \in Down54bea[1].needs
  BY DEF Down54bea, On, Impossible, Gone, Plain
<1>. QED  BY <1>1, <1>2

LEMMA DowngradeFrom5 ==
    LET s == Down38dd2 IN
    /\ Len(s) = 4 /\ \A k \in 1 .. 4 : Tame(s[k])
    /\ \A d : IsDatabase(d) =>
          Course(s, d)[1].schema = d.schema \cup {"reservation_items.provider_id"}
    /\ "unnamed_constraint" \in s[2].needs
<1>. DEFINE s == Down38dd2
<1>1. Len(s) = 4 /\ Len(s) \in Nat /\ \A k \in 1 .. 4 : Tame(s[k])
  BY KindsAreTame DEF Down38dd2, Lasting
<1>2. "unnamed_constraint" \in s[2].needs
  BY DEF Down38dd2, Impossible, Gone, Plain
<1>3. ASSUME NEW d, IsDatabase(d)
      PROVE  Course(s, d)[1].schema = d.schema \cup {"reservation_items.provider_id"}
  <2>. DEFINE c == Course(s, d)
  <2>1. c[0] = d /\ c[1] = Done(s[1], c[0])
    BY <1>1, Course4
  <2>. HIDE DEF c
  <2>2. c[1].schema = d.schema \cup {"reservation_items.provider_id"}
    BY <1>3, <2>1, AddRequiredDoes DEF Down38dd2
  <2>. QED  BY <2>2 DEF c
<1>. QED  BY <1>1, <1>2, <1>3

\* A statement that adds an enum label passes on every database.
Labels(s) == /\ s.auto /\ s.gives \subseteq Lasting
             /\ \A d : IsDatabase(d) =>
                    /\ Done(s, d).schema = d.schema \cup s.gives
                    /\ Done(s, d).rows = d.rows /\ Done(s, d).revision = d.revision
                    /\ Possible(s, d)

\* AddLabel is such a statement.
LEMMA AddLabelLabels ==
    ASSUME NEW l \in Lasting
    PROVE  Labels(AddLabel(l)) /\ AddLabel(l).gives = {l}
<1>1. AddLabel(l).auto /\ AddLabel(l).gives = {l}
  BY DEF AddLabel, Plain
<1>. HIDE DEF AddLabel
<1>. QED  BY <1>1, AddLabelDoes DEF Labels

\* 12f83: three labels of the status of reservations.
LEMMA UpgradeTo9 ==
    LET s == Up12f83 IN
    /\ \A k \in 1 .. Len(s) : Labels(s[k])
    /\ \A x \in Grown[9] : \E k \in 1 .. Len(s) : x \in s[k].gives
    /\ \A d : IsDatabase(d) => MovesUp(9, d, Course(s, d)[Len(s)]) /\ Runs(s, d)
<1>. DEFINE s == Up12f83
<1>1. Len(s) = 3 /\ Len(s) \in Nat
  BY DEF Up12f83
<1>2. s[1] = AddLabel("CREATING") /\ s[2] = AddLabel("PENDING_LOCAL") /\ s[3] = AddLabel("CONFIRMING")
  BY DEF Up12f83
<1>. HIDE DEF s
<1>3. /\ Labels(s[1]) /\ s[1].gives = {"CREATING"}
      /\ Labels(s[2]) /\ s[2].gives = {"PENDING_LOCAL"}
      /\ Labels(s[3]) /\ s[3].gives = {"CONFIRMING"}
  BY <1>2, AddLabelLabels DEF Lasting
<1>4. \A k \in 1 .. 3 : Labels(s[k])
  BY <1>3
<1>5. \A x \in Grown[9] : \E k \in 1 .. 3 : x \in s[k].gives
  BY <1>3 DEF Grown
<1>6. ASSUME NEW d, IsDatabase(d) PROVE MovesUp(9, d, Course(s, d)[3]) /\ Runs(s, d)
  <2>. DEFINE c == Course(s, d)
  <2>1. /\ c[0] = d /\ c[1] = Done(s[1], c[0]) /\ c[2] = Done(s[2], c[1])
        /\ c[3] = Done(s[3], c[2])
        /\ Runs(s, d) <=> /\ Possible(s[1], c[0]) /\ Possible(s[2], c[1]) /\ Possible(s[3], c[2])
        /\ IsDatabase(c[0]) /\ IsDatabase(c[1]) /\ IsDatabase(c[2]) /\ IsDatabase(c[3])
    BY <1>1, <1>6, Course3
  <2>. HIDE DEF c
  <2>2. /\ c[3].schema = (d.schema \ Shed[9]) \cup Grown[9]
        /\ c[3].rows = d.rows /\ c[3].revision = d.revision
    BY <1>3, <2>1 DEF Labels, Shed, Grown
  <2>3. Runs(s, d)
    BY <1>3, <2>1 DEF Labels
  <2>. QED  BY <2>1, <2>2, <2>3 DEF c, MovesUp
<1>. QED  BY <1>1, <1>4, <1>5, <1>6 DEF s

\* 2d99b: a label of the status of items.
LEMMA UpgradeTo10 ==
    LET s == Up2d99b IN
    /\ \A k \in 1 .. Len(s) : Labels(s[k])
    /\ \A x \in Grown[10] : \E k \in 1 .. Len(s) : x \in s[k].gives
    /\ \A d : IsDatabase(d) => MovesUp(10, d, Course(s, d)[Len(s)]) /\ Runs(s, d)
<1>. DEFINE s == Up2d99b
<1>1. Len(s) = 1 /\ Len(s) \in Nat
  BY DEF Up2d99b
<1>2. s[1] = AddLabel("HELD_LOCAL")
  BY DEF Up2d99b
<1>. HIDE DEF s
<1>3. Labels(s[1]) /\ s[1].gives = {"HELD_LOCAL"}
  BY <1>2, AddLabelLabels DEF Lasting
<1>4. \A x \in Grown[10] : \E k \in 1 .. 1 : x \in s[k].gives
  BY <1>3 DEF Grown
<1>5. ASSUME NEW d, IsDatabase(d) PROVE MovesUp(10, d, Course(s, d)[1]) /\ Runs(s, d)
  <2>. DEFINE c == Course(s, d)
  <2>1. /\ c[0] = d /\ c[1] = Done(s[1], c[0])
        /\ Runs(s, d) <=> /\ Possible(s[1], c[0])
        /\ IsDatabase(c[0]) /\ IsDatabase(c[1])
    BY <1>1, <1>5, Course1
  <2>. HIDE DEF c
  <2>2. /\ c[1].schema = (d.schema \ Shed[10]) \cup Grown[10]
        /\ c[1].rows = d.rows /\ c[1].revision = d.revision
    BY <1>3, <2>1 DEF Labels, Shed, Grown
  <2>3. Runs(s, d)
    BY <1>3, <2>1 DEF Labels
  <2>. QED  BY <2>1, <2>2, <2>3 DEF c, MovesUp
<1>. QED  BY <1>1, <1>3, <1>4, <1>5 DEF s

\* The downgrades of the last two revisions do nothing.
LEMMA EmptyDowngrade ==
    ASSUME NEW d PROVE Len(<< >>) = 0 /\ Course(<< >>, d)[Len(<< >>)] = d
  BY CourseSteps

\* What has just been said, by the number of the revision.
LEMMA UpgradeScripts ==
    ASSUME NEW r \in 1 .. Latest
    PROVE  LET s == Upgrade[r] IN
           /\ Len(s) \in Nat
           /\ r < 9 => Len(s) > 0 /\ \A k \in 1 .. Len(s) : Tame(s[k])
           /\ r >= 9 => /\ Len(s) > 0 /\ \A k \in 1 .. Len(s) : Labels(s[k])
                        /\ \A x \in Grown[r] : \E k \in 1 .. Len(s) : x \in s[k].gives
<1>0. r \in 1 .. 10
  BY Revisions
<1>1. CASE r = 1
  <2>1. Upgrade[r] = Up250dc /\ Len(Up250dc) = 3
    BY <1>1, Revisions DEF Up250dc
  <2>. QED  BY <1>1, <2>1, UpgradeTo1
<1>2. CASE r = 2
  <2>1. Upgrade[r] = Up5f53d /\ Len(Up5f53d) = 2
    BY <1>2, Revisions DEF Up5f53d
  <2>. QED  BY <1>2, <2>1, UpgradeTo2
<1>3. CASE r = 3
  <2>1. Upgrade[r] = Up54bea /\ Len(Up54bea) = 2
    BY <1>3, Revisions DEF Up54bea
  <2>. QED  BY <1>3, <2>1, UpgradeTo3
<1>4. CASE r = 4
  <2>1. Upgrade[r] = Upf6be8 /\ Len(Upf6be8) = 9
    BY <1>4, Revisions DEF Upf6be8
  <2>. QED  BY <1>4, <2>1, UpgradeTo4
<1>5. CASE r = 5
  <2>1. Upgrade[r] = Up38dd2 /\ Len(Up38dd2) = 4
    BY <1>5, Revisions DEF Up38dd2
  <2>. QED  BY <1>5, <2>1, UpgradeTo5
<1>6. CASE r = 6
  <2>1. Upgrade[r] = Up5d0c6 /\ Len(Up5d0c6) = 6
    BY <1>6, Revisions DEF Up5d0c6
  <2>. QED  BY <1>6, <2>1, UpgradeTo6
<1>7. CASE r = 7
  <2>1. Upgrade[r] = Upc3c55 /\ Len(Upc3c55) = 6
    BY <1>7, Revisions DEF Upc3c55
  <2>. QED  BY <1>7, <2>1, UpgradeTo7
<1>8. CASE r = 8
  <2>1. Upgrade[r] = Up89cce /\ Len(Up89cce) = 3
    BY <1>8, Revisions DEF Up89cce
  <2>. QED  BY <1>8, <2>1, UpgradeTo8
<1>9. CASE r = 9
  <2>1. Upgrade[r] = Up12f83 /\ Len(Up12f83) = 3
    BY <1>9, Revisions DEF Up12f83
  <2>. QED  BY <1>9, <2>1, UpgradeTo9
<1>10. CASE r = 10
  <2>1. Upgrade[r] = Up2d99b /\ Len(Up2d99b) = 1
    BY <1>10, Revisions DEF Up2d99b
  <2>. QED  BY <1>10, <2>1, UpgradeTo10
<1>. QED  BY <1>0, <1>1, <1>2, <1>3, <1>4, <1>5, <1>6, <1>7, <1>8, <1>9, <1>10

\* Downgrades are made of statements that are rolled back with their transaction.
LEMMA DowngradeScripts ==
    ASSUME NEW r \in 1 .. Latest
    PROVE  /\ Len(Downgrade[r]) \in Nat
           /\ \A k \in 1 .. Len(Downgrade[r]) : Tame(Downgrade[r][k])
<1>0. r \in 1 .. 10
  BY Revisions
<1>1. CASE r = 1
  <2>1. Downgrade[r] = Down250dc /\ Len(Down250dc) = 3
    BY <1>1, Revisions DEF Down250dc
  <2>. QED  BY <2>1, DowngradeFrom1
<1>2. CASE r = 2
  <2>1. Downgrade[r] = Down5f53d /\ Len(Down5f53d) = 2
    BY <1>2, Revisions DEF Down5f53d
  <2>. QED  BY <2>1, DowngradeFrom2
<1>3. CASE r = 3
  <2>1. Downgrade[r] = Down54bea /\ Len(Down54bea) = 2
    BY <1>3, Revisions DEF Down54bea
  <2>. QED  BY <2>1, DowngradeFrom3
<1>4. CASE r = 4
  <2>1. Downgrade[r] = Downf6be8 /\ Len(Downf6be8) = 9
    BY <1>4, Revisions DEF Downf6be8
  <2>. QED  BY <2>1, DowngradeFrom4
<1>5. CASE r = 5
  <2>1. Downgrade[r] = Down38dd2 /\ Len(Down38dd2) = 4
    BY <1>5, Revisions DEF Down38dd2
  <2>. QED  BY <2>1, DowngradeFrom5
<1>6. CASE r = 6
  <2>1. Downgrade[r] = Down5d0c6 /\ Len(Down5d0c6) = 6
    BY <1>6, Revisions DEF Down5d0c6
  <2>. QED  BY <2>1, DowngradeFrom6
<1>7. CASE r = 7
  <2>1. Downgrade[r] = Downc3c55 /\ Len(Downc3c55) = 3
    BY <1>7, Revisions DEF Downc3c55
  <2>. QED  BY <2>1, DowngradeFrom7
<1>8. CASE r = 8
  <2>1. Downgrade[r] = Down89cce /\ Len(Down89cce) = 3
    BY <1>8, Revisions DEF Down89cce
  <2>. QED  BY <2>1, DowngradeFrom8
<1>9. CASE r >= 9
  <2>1. Downgrade[r] = << >> /\ Len(<< >>) = 0
    BY <1>0, <1>9, Revisions
  <2>. QED  BY <2>1
<1>. QED  BY <1>0, <1>1, <1>2, <1>3, <1>4, <1>5, <1>6, <1>7, <1>8, <1>9

Ran(script, d) == Course(script, d)[Len(script)]

\* The rows, or the type left behind, that stop an upgrade to revision r.
Unhindered(r, d) == /\ r = 3 => "otps" \notin d.rows
                    /\ r = 4 => "types" \notin d.schema
                    /\ r \in {5, 6} => "strays" \notin d.rows
                    /\ r = 8 => "order_items" \notin d.rows

\* The ten upgrades together: the facts they move, and what stops them.
LEMMA UpgradeMoves ==
    ASSUME NEW r \in 1 .. Latest, NEW d, IsDatabase(d), d.rows \subseteq Written
    PROVE  /\ MovesUp(r, d, Ran(Upgrade[r], d))
           /\ Ready(r, d) => (Runs(Upgrade[r], d) <=> Unhindered(r, d))
<1>0. r \in 1 .. 10
  BY Revisions
<1>1. CASE r = 1
  BY <1>1, UpgradeTo1, Revisions DEF Ran, Unhindered
<1>2. CASE r = 2
  BY <1>2, UpgradeTo2, Revisions DEF Ran, Unhindered
<1>3. CASE r = 3
  BY <1>3, UpgradeTo3, Revisions DEF Ran, Unhindered
<1>4. CASE r = 4
  BY <1>4, UpgradeTo4, Revisions DEF Ran, Unhindered
<1>5. CASE r = 5
  BY <1>5, UpgradeTo5, Revisions DEF Ran, Unhindered
<1>6. CASE r = 6
  BY <1>6, UpgradeTo6, Revisions DEF Ran, Unhindered
<1>7. CASE r = 7
  BY <1>7, UpgradeTo7, Revisions DEF Ran, Unhindered
<1>8. CASE r = 8
  BY <1>8, UpgradeTo8, Revisions DEF Ran, Unhindered
<1>9. CASE r = 9
  BY <1>9, UpgradeTo9, Revisions DEF Ran, Unhindered
<1>10. CASE r = 10
  BY <1>10, UpgradeTo10, Revisions DEF Ran, Unhindered
<1>. QED  BY <1>0, <1>1, <1>2, <1>3, <1>4, <1>5, <1>6, <1>7, <1>8, <1>9, <1>10

\* The downgrades that can come to an end, together.
LEMMA DowngradeMoves ==
    ASSUME NEW r \in 1 .. Latest, r \notin {3, 5}, NEW d, IsDatabase(d), d.rows \subseteq Written
    PROVE  MovesDown(r, d, Ran(Downgrade[r], d))
<1>0. r \in 1 .. 10
  BY Revisions
<1>1. CASE r = 1
  BY <1>1, DowngradeFrom1, Revisions DEF Ran
<1>2. CASE r = 2
  BY <1>2, DowngradeFrom2, Revisions DEF Ran
<1>4. CASE r = 4
  BY <1>4, DowngradeFrom4, Revisions DEF Ran
<1>6. CASE r = 6
  BY <1>6, DowngradeFrom6, Revisions DEF Ran
<1>7. CASE r = 7
  BY <1>7, DowngradeFrom7, Revisions DEF Ran
<1>8. CASE r = 8
  BY <1>8, DowngradeFrom8, Revisions DEF Ran
<1>9. CASE r \in {9, 10}
  <2>1. Ran(Downgrade[r], d) = d
    BY <1>9, EmptyDowngrade, Revisions DEF Ran
  <2>2. Grown[r] \ Lasting = {} /\ Shed[r] = {}
    BY <1>9 DEF Grown, Shed, Lasting
  <2>. QED  BY <2>1, <2>2 DEF MovesDown
<1>. QED  BY <1>0, <1>1, <1>2, <1>4, <1>6, <1>7, <1>8, <1>9

-----------------------------------------------------------------------------
(* Upgrades one after the other, and the schema of a new database. *)

\* Upgrading to head moves the facts of each revision in turn, and keeps the rows.
LEMMA UpgradedMoves ==
    ASSUME NEW d, d.revision \in 0 .. Latest, IsDatabase(d), d.rows \subseteq Written
    PROVE  /\ Upgraded(d)[d.revision] = d
           /\ \A r \in d.revision .. Latest :
                 Upgraded(d)[r].rows = d.rows /\ IsDatabase(Upgraded(d)[r])
           /\ \A r \in d.revision + 1 .. Latest :
                 MovesUp(r, Upgraded(d)[r - 1], Upgraded(d)[r])
<1>. DEFINE u == Upgraded(d)
            e == d.revision
            Keeps(x) == x.rows = d.rows /\ IsDatabase(x)
            Kept == {n \in Nat : e + n <= Latest => Keeps(u[e + n])}
<1>. e \in Nat /\ Latest \in Nat /\ e <= Latest
  BY Revisions
<1>1. u[e] = d /\ \A r \in e + 1 .. Latest : u[r] = Ran(Upgrade[r], u[r - 1])
  BY UpgradedSteps DEF Ran
<1>. HIDE DEF u, e
<1>2. \A r \in e + 1 .. Latest : Keeps(u[r - 1]) => MovesUp(r, u[r - 1], u[r])
  <2>1. SUFFICES ASSUME NEW r \in e + 1 .. Latest, Keeps(u[r - 1])
                 PROVE  MovesUp(r, u[r - 1], u[r])
    OBVIOUS
  <2>2. r \in 1 .. Latest
    BY <2>1
  <2>. QED  BY <1>1, <2>1, <2>2, UpgradeMoves
<1>3. 0 \in Kept
  BY <1>1
<1>4. \A n \in Nat : n \in Kept => n + 1 \in Kept
  <2>1. SUFFICES ASSUME NEW n \in Nat, n \in Kept, e + (n + 1) <= Latest
                 PROVE  Keeps(u[e + (n + 1)])
    OBVIOUS
  <2>2. Keeps(u[e + n])
    BY <2>1
  <2>3. e + (n + 1) \in e + 1 .. Latest /\ (e + (n + 1)) - 1 = e + n
    BY <2>1
  <2>4. MovesUp(e + (n + 1), u[e + n], u[e + (n + 1)])
    BY <1>2, <2>2, <2>3
  <2>. QED  BY <2>2, <2>4 DEF MovesUp
<1>5. Nat \subseteq Kept
  <2>. HIDE DEF Kept
  <2>. QED  BY <1>3, <1>4, NatSetInduction
<1>6. \A r \in e .. Latest : Keeps(u[r])
  <2>1. ASSUME NEW r \in e .. Latest PROVE Keeps(u[r])
    <3>1. r - e \in Nat /\ e + (r - e) = r
      OBVIOUS
    <3>2. r - e \in Kept
      BY <1>5, <3>1
    <3>. QED  BY <3>1, <3>2
  <2>. QED  BY <2>1
<1>7. \A r \in e + 1 .. Latest : MovesUp(r, u[r - 1], u[r])
  <2>1. ASSUME NEW r \in e + 1 .. Latest PROVE MovesUp(r, u[r - 1], u[r])
    <3>1. r - 1 \in e .. Latest
      OBVIOUS
    <3>. QED  BY <1>2, <1>6, <3>1
  <2>. QED  BY <2>1
<1>. QED  BY <1>1, <1>6, <1>7 DEF u, e

\* So the schema of a new database is that of the revision before, moved.
LEMMA FreshSteps ==
    /\ Fresh[0] = {}
    /\ \A r \in 1 .. Latest : Fresh[r] = (Fresh[r - 1] \ Shed[r]) \cup Grown[r]
<1>. DEFINE u == Upgraded(Empty)
<1>1. Empty.revision = 0 /\ Empty.rows = {} /\ Empty.schema = {} /\ 0 \in 0 .. Latest
  BY Revisions DEF Empty
<1>2. u[0] = Empty /\ \A r \in 1 .. Latest : MovesUp(r, u[r - 1], u[r])
  <2>1. Empty.revision \in 0 .. Latest /\ Empty.rows \subseteq Written /\ IsDatabase(Empty)
    BY <1>1 DEF Empty, IsDatabase
  <2>. QED  BY <1>1, <2>1, UpgradedMoves
<1>. HIDE DEF u
<1>3. \A r \in 0 .. Latest : Fresh[r] = u[r].schema
  BY DEF Fresh, u
<1>4. ASSUME NEW r \in 1 .. Latest
      PROVE  Fresh[r] = (Fresh[r - 1] \ Shed[r]) \cup Grown[r]
  <2>1. r \in 0 .. Latest /\ r - 1 \in 0 .. Latest
    BY Revisions
  <2>. QED  BY <1>2, <1>3, <2>1 DEF MovesUp
<1>. QED  BY <1>1, <1>2, <1>3, <1>4

LEMMA FreshTable ==
    /\ Fresh[0] = {}
    /\ Fresh[1] = (Fresh[0] \ Shed[1]) \cup Grown[1]
    /\ Fresh[2] = (Fresh[1] \ Shed[2]) \cup Grown[2]
    /\ Fresh[3] = (Fresh[2] \ Shed[3]) \cup Grown[3]
    /\ Fresh[4] = (Fresh[3] \ Shed[4]) \cup Grown[4]
    /\ Fresh[5] = (Fresh[4] \ Shed[5]) \cup Grown[5]
    /\ Fresh[6] = (Fresh[5] \ Shed[6]) \cup Grown[6]
    /\ Fresh[7] = (Fresh[6] \ Shed[7]) \cup Grown[7]
    /\ Fresh[8] = (Fresh[7] \ Shed[8]) \cup Grown[8]
    /\ Fresh[9] = (Fresh[8] \ Shed[9]) \cup Grown[9]
    /\ Fresh[10] = (Fresh[9] \ Shed[10]) \cup Grown[10]
<1>0. \A r \in 1 .. 10 : Fresh[r] = (Fresh[r - 1] \ Shed[r]) \cup Grown[r]
  BY FreshSteps, Revisions
<1>1. Fresh[1] = (Fresh[0] \ Shed[1]) \cup Grown[1]
  BY <1>0
<1>2. Fresh[2] = (Fresh[1] \ Shed[2]) \cup Grown[2]
  BY <1>0
<1>3. Fresh[3] = (Fresh[2] \ Shed[3]) \cup Grown[3]
  BY <1>0
<1>4. Fresh[4] = (Fresh[3] \ Shed[4]) \cup Grown[4]
  BY <1>0
<1>5. Fresh[5] = (Fresh[4] \ Shed[5]) \cup Grown[5]
  BY <1>0
<1>6. Fresh[6] = (Fresh[5] \ Shed[6]) \cup Grown[6]
  BY <1>0
<1>7. Fresh[7] = (Fresh[6] \ Shed[7]) \cup Grown[7]
  BY <1>0
<1>8. Fresh[8] = (Fresh[7] \ Shed[8]) \cup Grown[8]
  BY <1>0
<1>9. Fresh[9] = (Fresh[8] \ Shed[9]) \cup Grown[9]
  BY <1>0
<1>10. Fresh[10] = (Fresh[9] \ Shed[10]) \cup Grown[10]
  BY <1>0
<1>. QED  BY FreshSteps, <1>1, <1>2, <1>3, <1>4, <1>5, <1>6, <1>7, <1>8, <1>9, <1>10

\* Each upgrade takes away what is there, and adds what is not.
LEMMA FreshApart ==
    ASSUME NEW r \in 1 .. Latest
    PROVE  Shed[r] \subseteq Fresh[r - 1] /\ Grown[r] \cap Fresh[r - 1] = {}
<1>0. r \in 1 .. 10
  BY Revisions
<1>1. Shed[1] \subseteq Fresh[0] /\ Grown[1] \cap Fresh[0] = {}
  BY FreshTable DEF Shed, Grown
<1>2. Shed[2] \subseteq Fresh[1] /\ Grown[2] \cap Fresh[1] = {}
  BY FreshTable DEF Shed, Grown
<1>3. Shed[3] \subseteq Fresh[2] /\ Grown[3] \cap Fresh[2] = {}
  BY FreshTable DEF Shed, Grown
<1>4. Shed[4] \subseteq Fresh[3] /\ Grown[4] \cap Fresh[3] = {}
  BY FreshTable DEF Shed, Grown
<1>5. Shed[5] \subseteq Fresh[4] /\ Grown[5] \cap Fresh[4] = {}
  BY FreshTable DEF Shed, Grown
<1>6. Shed[6] \subseteq Fresh[5] /\ Grown[6] \cap Fresh[5] = {}
  BY FreshTable DEF Shed, Grown
<1>7. Shed[7] \subseteq Fresh[6] /\ Grown[7] \cap Fresh[6] = {}
  BY FreshTable DEF Shed, Grown
<1>8. Shed[8] \subseteq Fresh[7] /\ Grown[8] \cap Fresh[7] = {}
  BY FreshTable DEF Shed, Grown
<1>9. Shed[9] \subseteq Fresh[8] /\ Grown[9] \cap Fresh[8] = {}
  BY FreshTable DEF Shed, Grown
<1>10. Shed[10] \subseteq Fresh[9] /\ Grown[10] \cap Fresh[9] = {}
  BY FreshTable DEF Shed, Grown
<1>. QED  BY <1>0, <1>1, <1>2, <1>3, <1>4, <1>5, <1>6, <1>7, <1>8, <1>9, <1>10

-----------------------------------------------------------------------------
(* The inductive invariant. *)

\* At each revision there is the schema of a new database, perhaps with enum
\* types and labels from later ones; behind revision 5 no item is astray.
RowsAt(r) == IF r < 5 THEN Written ELSE Written \ {"strays"}
Base(r) == [schema |-> Fresh[r], rows |-> RowsAt(r), revision |-> r]

Like(w, m) == /\ m.schema \subseteq w.schema /\ w.schema \ m.schema \subseteq Lasting
              /\ w.rows \subseteq m.rows /\ w.revision = m.revision

Process == [command : {"none", "upgrade", "downgrade"}, goal : 0 .. Latest,
            base : 0 .. Latest, at : 0 .. Latest, next : Nat]

TypeInv == /\ IsDatabase(db) /\ db.revision \in 0 .. Latest
           /\ proc \in [Operators -> Process]

DbInv == Like(db, Base(db.revision))

Upgrading(o) == proc[o].command = "upgrade"
Labelling(o) == Upgrading(o) /\ proc[o].at >= 8

\* A process with revisions that are not committed yet.
Ahead(o) == proc[o].base # proc[o].at

\* The downgrades of 54bea and 38dd2 do not come past their impossible statement.
PlaceInv(o) ==
    /\ Running(o) => proc[o].next \in 1 .. Len(Script(o)) + 1
    /\ Upgrading(o) => proc[o].base <= proc[o].at /\ proc[o].at < proc[o].goal
    /\ proc[o].command = "downgrade" =>
          /\ ~Ahead(o) /\ proc[o].at > 0
          /\ proc[o].at = 3 => proc[o].next = 1
          /\ proc[o].at = 5 => proc[o].next <= 2
    /\ Ahead(o) => Running(o)
    /\ Labelling(o) /\ Ahead(o) => proc[o].next = 1

\* The row of alembic_version keeps others from recording a revision, ...
VersionInv(o) == Ahead(o) => db.revision = proc[o].base
OneInv == \A p, q \in Operators : Ahead(p) /\ Ahead(q) => p = q

\* ... and the lock of reservation_items keeps stray items out behind the key
\* that 38dd2 adds.
PastStrays(o) == proc[o].at >= 5 \/ (proc[o].at = 4 /\ proc[o].next > 3)
StraysInv(o) == Upgrading(o) /\ proc[o].base < 5 /\ PastStrays(o) => "strays" \notin db.rows

ProcInv(o) == PlaceInv(o) /\ VersionInv(o) /\ StraysInv(o)

IInv == TypeInv /\ DbInv /\ OneInv /\ \A o \in Operators : ProcInv(o)

\* One statement done to two databases that are alike.
LEMMA LikeDone ==
    ASSUME NEW s, NEW w, NEW m, IsDatabase(w), IsDatabase(m), Like(w, m)
    PROVE  Like(Done(s, w), Done(s, m))
<1>1. /\ Done(s, w).schema = (w.schema \ s.takes) \cup s.gives
      /\ Done(s, m).schema = (m.schema \ s.takes) \cup s.gives
      /\ Done(s, w).revision = w.revision /\ Done(s, m).revision = m.revision
  BY DoneIs
<1>2. Done(s, w).rows \subseteq Done(s, m).rows
  <2>1. w.rows \subseteq m.rows
    BY DEF Like
  <2>2. {n[2] : n \in {x \in s.nulls : x[1] \in w.rows}}
            \subseteq {n[2] : n \in {x \in s.nulls : x[1] \in m.rows}}
    BY <2>1
  <2>3. /\ Done(s, w).rows = (w.rows \ s.cleared) \cup {n[2] : n \in {x \in s.nulls : x[1] \in w.rows}}
        /\ Done(s, m).rows = (m.rows \ s.cleared) \cup {n[2] : n \in {x \in s.nulls : x[1] \in m.rows}}
    BY DoneIs
  <2>. QED  BY <2>1, <2>2, <2>3
<1>. QED  BY <1>1, <1>2 DEF Like

\* A statement adds none of the rows that the application writes.
LEMMA TameDone ==
    ASSUME NEW s, Tame(s), NEW d, IsDatabase(d)
    PROVE  /\ Done(s, d).rows \cap Written \subseteq d.rows
           /\ Done(s, d).revision = d.revision /\ IsDatabase(Done(s, d))
<1>1. Missing \cap Written = {}
  BY DEF Missing, Written
<1>2. Done(s, d).rows = (d.rows \ s.cleared) \cup {n[2] : n \in {m \in s.nulls : m[1] \in d.rows}}
  BY DoneIs
<1>3. {n[2] : n \in {m \in s.nulls : m[1] \in d.rows}} \subseteq Missing
  BY DEF Tame
<1>4. Done(s, d).rows \cap Written \subseteq d.rows
  BY <1>1, <1>2, <1>3
<1>. QED  BY <1>4, DoneIs

\* A script done to two databases that are alike, statement by statement.
LEMMA CourseLike ==
    ASSUME NEW s, Len(s) \in Nat, NEW w, NEW m, IsDatabase(w), IsDatabase(m), Like(w, m)
    PROVE  \A k \in 0 .. Len(s) :
              Like(Course(s, w)[k], Course(s, m)[k])
<1>. DEFINE v == Course(s, w)
            n == Course(s, m)
            Good(k) == IsDatabase(v[k]) /\ IsDatabase(n[k]) /\ Like(v[k], n[k])
            Places == {k \in Nat : k <= Len(s) => Good(k)}
<1>1. /\ v[0] = w /\ \A k \in 1 .. Len(s) : v[k] = Done(s[k], v[k - 1])
      /\ n[0] = m /\ \A k \in 1 .. Len(s) : n[k] = Done(s[k], n[k - 1])
  BY CourseSteps
<1>. HIDE DEF v, n
<1>2. 0 \in Places
  BY <1>1
<1>3. ASSUME NEW k \in Nat, k \in Places PROVE k + 1 \in Places
  <2>1. SUFFICES ASSUME k + 1 <= Len(s) PROVE Good(k + 1)
    OBVIOUS
  <2>2. Good(k)
    BY <1>3, <2>1
  <2>3. k + 1 \in 1 .. Len(s) /\ (k + 1) - 1 = k
    BY <2>1
  <2>4. v[k + 1] = Done(s[k + 1], v[k]) /\ n[k + 1] = Done(s[k + 1], n[k])
    BY <1>1, <2>3
  <2>. QED  BY <2>2, <2>4, DoneIs, LikeDone
<1>4. Nat \subseteq Places
  <2>. HIDE DEF Places
  <2>. QED  BY <1>2, <1>3, NatSetInduction
<1>. QED  BY <1>4 DEF v, n

\* A script leaves the revision, and adds no row that the application writes.
LEMMA CourseKeeps ==
    ASSUME NEW s, Len(s) \in Nat, NEW d, IsDatabase(d),
           \A k \in 1 .. Len(s) : Tame(s[k]) \/ Labels(s[k])
    PROVE  \A k \in 0 .. Len(s) :
              /\ IsDatabase(Course(s, d)[k])
              /\ Course(s, d)[k].revision = d.revision
              /\ Course(s, d)[k].rows \cap Written \subseteq d.rows
<1>. DEFINE c == Course(s, d)
            Good(k) == /\ IsDatabase(c[k]) /\ c[k].revision = d.revision
                       /\ c[k].rows \cap Written \subseteq d.rows
            Places == {k \in Nat : k <= Len(s) => Good(k)}
<1>1. c[0] = d /\ \A k \in 1 .. Len(s) : c[k] = Done(s[k], c[k - 1])
  BY CourseSteps
<1>. HIDE DEF c
<1>2. 0 \in Places
  BY <1>1
<1>3. ASSUME NEW k \in Nat, k \in Places PROVE k + 1 \in Places
  <2>1. SUFFICES ASSUME k + 1 <= Len(s) PROVE Good(k + 1)
    OBVIOUS
  <2>2. Good(k)
    BY <1>3, <2>1
  <2>3. k + 1 \in 1 .. Len(s) /\ (k + 1) - 1 = k
    BY <2>1
  <2>4. c[k + 1] = Done(s[k + 1], c[k]) /\ (Tame(s[k + 1]) \/ Labels(s[k + 1]))
    BY <1>1, <2>3
  <2>5. CASE Tame(s[k + 1])
    BY <2>2, <2>4, <2>5, TameDone
  <2>6. CASE Labels(s[k + 1])
    BY <2>2, <2>4, <2>6, DoneIs DEF Labels
  <2>. QED  BY <2>4, <2>5, <2>6
<1>4. Nat \subseteq Places
  <2>. HIDE DEF Places
  <2>. QED  BY <1>2, <1>3, NatSetInduction
<1>. QED  BY <1>4 DEF c


\* The parts of the database that each revision is compared with.
LEMMA BaseIs ==
    ASSUME NEW r
    PROVE  /\ Base(r).schema = Fresh[r] /\ Base(r).rows = RowsAt(r) /\ Base(r).revision = r
           /\ RowsAt(r) \subseteq Written /\ IsDatabase(Base(r))
  BY DEF Base, RowsAt, IsDatabase

\* The script of a process, and what its statements are.
LEMMA ScriptOf ==
    ASSUME NEW o \in Operators, TypeInv, PlaceInv(o), Running(o)
    PROVE  /\ Len(Script(o)) \in Nat
           /\ Labelling(o) => /\ Len(Script(o)) > 0
                              /\ \A k \in 1 .. Len(Script(o)) : Labels(Script(o)[k])
           /\ ~Labelling(o) => \A k \in 1 .. Len(Script(o)) : Tame(Script(o)[k])
<1>1. proc[o] \in Process
  BY DEF TypeInv
<1>2. proc[o].at \in 0 .. Latest /\ proc[o].command \in {"upgrade", "downgrade"}
  BY <1>1 DEF Process, Running
<1>3. CASE proc[o].command = "upgrade"
  <2>0. proc[o].goal \in 0 .. Latest
    BY <1>1 DEF Process
  <2>1. proc[o].at + 1 \in 1 .. Latest /\ Script(o) = Upgrade[proc[o].at + 1]
    BY <1>2, <1>3, <2>0, Revisions DEF PlaceInv, Script, Upgrading
  <2>2. proc[o].at + 1 >= 9 <=> proc[o].at >= 8
    BY <1>2, Revisions
  <2>3. Labelling(o) => proc[o].at + 1 >= 9
    BY <1>3, <2>2 DEF Labelling, Upgrading
  <2>4. ~Labelling(o) => proc[o].at + 1 < 9
    BY <1>2, <1>3, <2>2, Revisions DEF Labelling, Upgrading
  <2>. QED  BY <2>1, <2>3, <2>4, UpgradeScripts
<1>4. CASE proc[o].command = "downgrade"
  <2>1. proc[o].at \in 1 .. Latest /\ Script(o) = Downgrade[proc[o].at]
    BY <1>2, <1>4, Revisions DEF PlaceInv, Script
  <2>2. ~Labelling(o)
    BY <1>4 DEF Labelling, Upgrading
  <2>. QED  BY <2>1, <2>2, DowngradeScripts
<1>. QED  BY <1>2, <1>3, <1>4

\* The database is that of revision r, whatever is recorded.
Real(d, r) == /\ Fresh[r] \subseteq d.schema /\ d.schema \ Fresh[r] \subseteq Lasting
              /\ d.rows \subseteq RowsAt(r)

\* To be like the base of a revision is to be real at it, and to record it.
LEMMA LikeIsReal ==
    ASSUME NEW d, NEW r PROVE Like(d, Base(r)) <=> Real(d, r) /\ d.revision = r
  BY BaseIs DEF Like, Real

\* At the end of an upgrade's script there is the next revision ...
LEMMA EndOfUpgrade ==
    ASSUME NEW r \in 1 .. Latest, NEW d, Like(d, Ran(Upgrade[r], Base(r - 1))),
           r = 5 => "strays" \notin d.rows
    PROVE  Real(d, r)
<1>. DEFINE m == Ran(Upgrade[r], Base(r - 1))
<1>1. /\ m.schema = (Fresh[r - 1] \ Shed[r]) \cup Grown[r]
      /\ m.rows = RowsAt(r - 1)
  BY BaseIs, UpgradeMoves DEF MovesUp
<1>2. Fresh[r] = (Fresh[r - 1] \ Shed[r]) \cup Grown[r]
  BY FreshSteps
<1>. HIDE DEF m
<1>3. Like(d, m)
  BY DEF m
<1>4. d.rows \subseteq RowsAt(r)
  <2>1. d.rows \subseteq RowsAt(r - 1)
    BY <1>1, <1>3 DEF Like
  <2>2. r - 1 < 5 <=> r <= 5
    BY Revisions
  <2>. QED  BY <2>1, <2>2, Revisions DEF RowsAt
<1>. QED  BY <1>1, <1>2, <1>3, <1>4 DEF Like, Real

\* ... and at the end of a downgrade's the one before.
LEMMA EndOfDowngrade ==
    ASSUME NEW r \in 1 .. Latest, r \notin {3, 5}, NEW d, Like(d, Ran(Downgrade[r], Base(r)))
    PROVE  Real(d, r - 1)
<1>. DEFINE m == Ran(Downgrade[r], Base(r))
<1>1. /\ m.schema = (Fresh[r] \ (Grown[r] \ Lasting)) \cup Shed[r]
      /\ m.rows \subseteq RowsAt(r)
  BY BaseIs, DowngradeMoves DEF MovesDown
<1>2. /\ Fresh[r] = (Fresh[r - 1] \ Shed[r]) \cup Grown[r]
      /\ Shed[r] \subseteq Fresh[r - 1] /\ Grown[r] \cap Fresh[r - 1] = {}
  BY FreshSteps, FreshApart
<1>. HIDE DEF m
<1>3. Like(d, m)
  BY DEF m
<1>4. Fresh[r - 1] \subseteq m.schema /\ m.schema \ Fresh[r - 1] \subseteq Lasting
  BY <1>1, <1>2
<1>5. RowsAt(r) \subseteq RowsAt(r - 1)
  BY Revisions DEF RowsAt
<1>. QED  BY <1>1, <1>3, <1>4, <1>5 DEF Like, Real

\* An upgrade adds to a schema, and takes from it, what it does to that of a
\* new database; whether the types of f6be8 are there, it does not change before
\* f6be8.
LEMMA UpgradedIsReal ==
    ASSUME NEW d, d.revision \in 0 .. Latest, IsDatabase(d), Real(d, d.revision)
    PROVE  \A r \in d.revision .. Latest :
              /\ Fresh[r] \subseteq Upgraded(d)[r].schema
              /\ Upgraded(d)[r].schema \ Fresh[r] \subseteq Lasting
              /\ r < 4 => ("types" \in Upgraded(d)[r].schema <=> "types" \in d.schema)
<1>. DEFINE u == Upgraded(d)
            e == d.revision
            Good(r) == /\ Fresh[r] \subseteq u[r].schema
                       /\ u[r].schema \ Fresh[r] \subseteq Lasting
                       /\ r < 4 => ("types" \in u[r].schema <=> "types" \in d.schema)
            Numbers == {n \in Nat : e + n <= Latest => Good(e + n)}
<1>1. d.rows \subseteq Written
  BY BaseIs DEF Real
<1>2. e \in Nat /\ e <= Latest /\ Latest \in Nat
  BY Revisions
<1>3. u[e] = d /\ \A r \in e + 1 .. Latest : MovesUp(r, u[r - 1], u[r])
  BY <1>1, UpgradedMoves
<1>4. Good(e)
  BY <1>3 DEF Real
<1>. HIDE DEF u, e
<1>5. \A r \in 1 .. 3 : "types" \notin Shed[r] /\ "types" \notin Grown[r]
  <2>1. /\ "types" \notin Shed[1] /\ "types" \notin Shed[2] /\ "types" \notin Shed[3]
        /\ "types" \notin Grown[1] /\ "types" \notin Grown[2] /\ "types" \notin Grown[3]
    BY DEF Shed, Grown
  <2>2. 1 .. 3 = {1, 2, 3}
    OBVIOUS
  <2>. QED  BY <2>1, <2>2, Zenon
<1>6. ASSUME NEW r \in e + 1 .. Latest, Good(r - 1) PROVE Good(r)
  <2>1. r \in 1 .. Latest
    BY <1>2
  <2>2. /\ u[r].schema = (u[r - 1].schema \ Shed[r]) \cup Grown[r]
        /\ Fresh[r] = (Fresh[r - 1] \ Shed[r]) \cup Grown[r]
    BY <1>3, <2>1, FreshSteps DEF MovesUp
  <2>3. Fresh[r] \subseteq u[r].schema /\ u[r].schema \ Fresh[r] \subseteq Lasting
    BY <1>6, <2>2
  <2>4. ASSUME r < 4 PROVE "types" \in u[r].schema <=> "types" \in d.schema
    <3>1. r \in 1 .. 3 /\ r - 1 < 4
      BY <2>1, <2>4
    <3>. QED  BY <1>5, <1>6, <2>2, <3>1
  <2>. QED  BY <2>3, <2>4
<1>. HIDE DEF Good
<1>7. 0 \in Numbers
  BY <1>2, <1>4
<1>8. ASSUME NEW n \in Nat, n \in Numbers PROVE n + 1 \in Numbers
  <2>1. SUFFICES ASSUME e + (n + 1) <= Latest PROVE Good(e + (n + 1))
    OBVIOUS
  <2>2. e + (n + 1) \in e + 1 .. Latest /\ (e + (n + 1)) - 1 = e + n /\ e + n <= Latest
    BY <1>2, <2>1
  <2>3. Good(e + n)
    BY <1>8, <2>2
  <2>. QED  BY <1>6, <2>2, <2>3
<1>9. Nat \subseteq Numbers
  <2>. HIDE DEF Numbers
  <2>. QED  BY <1>7, <1>8, NatSetInduction
<1>10. ASSUME NEW r \in e .. Latest PROVE Good(r)
  <2>1. r - e \in Nat /\ e + (r - e) = r /\ r <= Latest
    BY <1>2
  <2>2. r - e \in Numbers
    BY <1>9, <2>1
  <2>. QED  BY <2>1, <2>2
<1>. QED  BY <1>10 DEF Good, u, e

\* Items astray are written at revision 4 only.
LEMMA StraysAt4 ==
    ASSUME NEW r \in 0 .. Latest, "reservation_items_product_id_fkey:products" \in Fresh[r] \cup Lasting
    PROVE  r = 4
<1>. DEFINE key == "reservation_items_product_id_fkey:products"
<1>1. key \notin Fresh[0] /\ key \notin Fresh[1] /\ key \notin Fresh[2] /\ key \notin Fresh[3]
  BY FreshTable DEF Grown
<1>2. key \notin Fresh[5]
  BY FreshTable DEF Grown, Shed
<1>3. key \notin Fresh[6] /\ key \notin Fresh[7] /\ key \notin Fresh[8]
  BY <1>2, FreshTable DEF Grown
<1>4. key \notin Fresh[9] /\ key \notin Fresh[10]
  BY <1>3, FreshTable DEF Grown
<1>5. key \notin Lasting
  BY DEF Lasting
<1>. HIDE DEF key
<1>6. r \in 0 .. 10
  BY Revisions
<1>7. key \in Fresh[r]
  BY <1>5 DEF key
<1>. QED  BY <1>1, <1>2, <1>3, <1>4, <1>6, <1>7


\* What a process sees is the committed database with its own statements done to it.
LEMMA SeenIs ==
    ASSUME IInv, NEW o \in Operators, Running(o)
    PROVE  /\ IsDatabase(Reached(o)) /\ Reached(o).rows = db.rows
           /\ ~Ahead(o) => Reached(o) = db
           /\ Ahead(o) => /\ Reached(o).revision = proc[o].at
                          /\ Reached(o).schema = Upgraded(db)[proc[o].at].schema
           /\ IsDatabase(Seen(o)) /\ Seen(o).revision = Reached(o).revision
           /\ Seen(o).rows \cap Written \subseteq db.rows
           /\ proc[o].next = 1 => Seen(o) = Reached(o)
           /\ Len(Script(o)) \in Nat
<1>. DEFINE at == proc[o].at
            u == Upgraded(db)[at]
<1>1. TypeInv /\ DbInv /\ PlaceInv(o) /\ VersionInv(o) /\ proc[o] \in Process
  BY DEF IInv, ProcInv, TypeInv
<1>2. Real(db, db.revision) /\ db.rows \subseteq Written
  BY <1>1, LikeIsReal, BaseIs DEF DbInv, Real
<1>3. ASSUME Ahead(o) PROVE IsDatabase(u) /\ u.rows = db.rows
  <2>1. at \in db.revision .. Latest
    BY <1>1, <1>3, Revisions DEF PlaceInv, VersionInv, Process, Ahead, Upgrading, Running
  <2>. QED  BY <1>1, <1>2, <2>1, UpgradedMoves DEF TypeInv
<1>4. Reached(o) = IF Ahead(o) THEN [u EXCEPT !.revision = at] ELSE db
  BY DEF Reached, Ahead
<1>. HIDE DEF u, at
<1>5. /\ IsDatabase(Reached(o)) /\ Reached(o).rows = db.rows
      /\ ~Ahead(o) => Reached(o) = db
      /\ Ahead(o) => Reached(o).revision = at /\ Reached(o).schema = u.schema
  <2>1. CASE Ahead(o)
    <3>1. u = [schema |-> u.schema, rows |-> u.rows, revision |-> u.revision] /\ u.rows = db.rows
      BY <1>3, <2>1 DEF IsDatabase
    <3>2. Reached(o) = [schema |-> u.schema, rows |-> db.rows, revision |-> at]
      BY <1>4, <2>1, <3>1
    <3>3. IsDatabase(Reached(o))
      BY <3>2 DEF IsDatabase
    <3>. QED  BY <2>1, <3>2, <3>3
  <2>2. CASE ~Ahead(o)
    BY <1>1, <1>4, <2>2 DEF TypeInv
  <2>. QED  BY <2>1, <2>2
<1>6. /\ Len(Script(o)) \in Nat
      /\ \A k \in 1 .. Len(Script(o)) : Tame(Script(o)[k]) \/ Labels(Script(o)[k])
  BY <1>1, ScriptOf
<1>7. proc[o].next - 1 \in 0 .. Len(Script(o))
  BY <1>1, <1>6 DEF PlaceInv
<1>8. /\ IsDatabase(Seen(o)) /\ Seen(o).revision = Reached(o).revision
      /\ Seen(o).rows \cap Written \subseteq Reached(o).rows
  BY <1>5, <1>6, <1>7, CourseKeeps DEF Seen
<1>9. proc[o].next = 1 => Seen(o) = Reached(o)
  BY <1>6, CourseSteps DEF Seen
<1>. QED  BY <1>5, <1>6, <1>8, <1>9 DEF u, at

\* A process that still is where it believes has reached what its revision says, ...
LEMMA ReachedIsReal ==
    ASSUME IInv, NEW o \in Operators, Running(o), Reached(o).revision = proc[o].at
    PROVE  Like(Reached(o), Base(proc[o].at))
<1>. DEFINE at == proc[o].at
            base == proc[o].base
<1>1. /\ TypeInv /\ DbInv /\ PlaceInv(o) /\ VersionInv(o) /\ StraysInv(o)
      /\ proc[o] \in Process
  BY DEF IInv, ProcInv, TypeInv
<1>2. Real(db, db.revision)
  BY <1>1, LikeIsReal DEF DbInv
<1>3. CASE ~Ahead(o)
  BY <1>1, <1>3, SeenIs DEF DbInv
<1>4. CASE Ahead(o)
  <2>1. /\ Upgrading(o) /\ db.revision = base /\ at \in 0 .. Latest /\ base \in 0 .. Latest
        /\ at > base
    BY <1>1, <1>4, Revisions DEF PlaceInv, VersionInv, Process, Ahead, Upgrading, Running
  <2>2. at \in db.revision .. Latest
    BY <2>1, Revisions
  <2>3. /\ Fresh[at] \subseteq Upgraded(db)[at].schema
        /\ Upgraded(db)[at].schema \ Fresh[at] \subseteq Lasting
    BY <1>1, <1>2, <2>2, UpgradedIsReal DEF TypeInv
  <2>4. db.rows \subseteq RowsAt(at)
    <3>1. db.rows \subseteq RowsAt(base)
      BY <1>2, <2>1 DEF Real
    <3>2. CASE base >= 5
      <4>1. at >= 5
        BY <2>1, <3>2, Revisions
      <4>. QED  BY <2>1, <3>1, <3>2, <4>1, Revisions DEF RowsAt
    <3>3. CASE base < 5
      <4>1. at >= 5 => "strays" \notin db.rows
        BY <1>1, <2>1, <3>3 DEF StraysInv, PastStrays
      <4>. QED  BY <2>1, <3>1, <3>3, <4>1, Revisions DEF RowsAt
    <3>. QED  BY <2>1, <3>2, <3>3, Revisions
  <2>. HIDE DEF at
  <2>5. Real(Reached(o), at)
    BY <1>4, <2>3, <2>4, SeenIs DEF Real, at
  <2>. QED  BY <2>5, LikeIsReal DEF at
<1>. QED  BY <1>3, <1>4

\* ... and sees what its statements make of that.
LEMMA SeenIsLike ==
    ASSUME IInv, NEW o \in Operators, Running(o), Seen(o).revision = proc[o].at
    PROVE  Like(Seen(o), Course(Script(o), Base(proc[o].at))[proc[o].next - 1])
<1>1. PlaceInv(o)
  BY DEF IInv, ProcInv
<1>2. Len(Script(o)) \in Nat /\ IsDatabase(Reached(o)) /\ Reached(o).revision = proc[o].at
  BY SeenIs
<1>3. proc[o].next - 1 \in 0 .. Len(Script(o))
  BY <1>1, <1>2 DEF PlaceInv
<1>4. Like(Reached(o), Base(proc[o].at)) /\ IsDatabase(Base(proc[o].at))
  BY <1>2, ReachedIsReal, BaseIs
<1>. QED  BY <1>2, <1>3, <1>4, CourseLike DEF Seen

\* A script that has ended has made the revision it leads to.
LEMMA EndOfScript ==
    ASSUME IInv, NEW o \in Operators, Running(o), ~AtStatement(o), Seen(o).revision = proc[o].at
    PROVE  Real(Seen(o), To(o)) /\ To(o) \in 0 .. Latest
<1>. DEFINE at == proc[o].at
            seen == Seen(o)
<1>1. TypeInv /\ PlaceInv(o) /\ StraysInv(o) /\ proc[o] \in Process
  BY DEF IInv, ProcInv, TypeInv
<1>2. at \in 0 .. Latest /\ proc[o].command \in {"upgrade", "downgrade"} /\ Latest = 10
  BY <1>1, Revisions DEF Process, Running
<1>3. Len(Script(o)) \in Nat /\ proc[o].next = Len(Script(o)) + 1
  BY <1>1, SeenIs DEF PlaceInv, AtStatement
<1>4. Like(seen, Ran(Script(o), Base(at)))
  BY <1>3, SeenIsLike DEF Ran
<1>5. CASE proc[o].command = "upgrade"
  <2>1. proc[o].goal \in 0 .. Latest /\ proc[o].base <= at /\ at < proc[o].goal
    BY <1>1, <1>5 DEF Process, PlaceInv, Upgrading
  <2>2. at + 1 \in 1 .. Latest /\ (at + 1) - 1 = at
    BY <1>2, <2>1
  <2>3. Script(o) = Upgrade[at + 1] /\ To(o) = at + 1
    BY <1>5 DEF Script, To
  <2>4. ASSUME at + 1 = 5 PROVE "strays" \notin seen.rows
    <3>1. at = 4 /\ Script(o) = Up38dd2
      BY <1>2, <2>3, <2>4, Revisions
    <3>2. proc[o].next = 5
      BY <1>3, <3>1 DEF Up38dd2
    <3>3. proc[o].base < 5 /\ PastStrays(o)
      BY <1>1, <2>1, <3>1, <3>2 DEF PastStrays, Process
    <3>4. "strays" \notin db.rows
      BY <1>1, <1>5, <3>3 DEF StraysInv, Upgrading
    <3>. QED  BY <3>4, SeenIs DEF Written
  <2>5. Like(seen, Ran(Upgrade[at + 1], Base((at + 1) - 1)))
    BY <1>4, <2>2, <2>3
  <2>. HIDE DEF at, seen
  <2>6. Real(seen, at + 1)
    BY <2>2, <2>4, <2>5, EndOfUpgrade
  <2>. QED  BY <2>2, <2>3, <2>6 DEF seen
<1>6. CASE proc[o].command = "downgrade"
  <2>1. at \in 1 .. Latest
    BY <1>1, <1>2, <1>6 DEF PlaceInv
  <2>2. Script(o) = Downgrade[at] /\ To(o) = at - 1
    BY <1>6 DEF Script, To
  <2>3. at # 3
    <3>1. SUFFICES ASSUME at = 3 PROVE FALSE
      OBVIOUS
    <3>2. Len(Script(o)) = 2
      BY <2>2, <3>1, Revisions, DowngradeFrom3
    <3>. QED  BY <1>1, <1>3, <1>6, <3>1, <3>2 DEF PlaceInv
  <2>4. at # 5
    <3>1. SUFFICES ASSUME at = 5 PROVE FALSE
      OBVIOUS
    <3>2. Len(Script(o)) = 4
      BY <2>2, <3>1, Revisions, DowngradeFrom5
    <3>. QED  BY <1>1, <1>3, <1>6, <3>1, <3>2 DEF PlaceInv
  <2>. HIDE DEF at, seen
  <2>5. Real(seen, at - 1) /\ at - 1 \in 0 .. Latest
    BY <1>2, <1>4, <2>1, <2>2, <2>3, <2>4, EndOfDowngrade
  <2>. QED  BY <2>2, <2>5 DEF seen
<1>. QED  BY <1>2, <1>5, <1>6

\* The statement that o is at.
LEMMA StatementOf ==
    ASSUME IInv, NEW o \in Operators, AtStatement(o)
    PROVE  /\ Running(o) /\ Len(Script(o)) \in Nat /\ proc[o].next \in 1 .. Len(Script(o))
           /\ Statement(o) = Script(o)[proc[o].next]
           /\ Statement(o).auto => Labelling(o) /\ Labels(Statement(o))
           /\ ~Statement(o).auto => ~Labelling(o) /\ Tame(Statement(o))
<1>1. Running(o) /\ PlaceInv(o) /\ TypeInv
  BY DEF AtStatement, IInv, ProcInv
<1>2. Len(Script(o)) \in Nat /\ proc[o].next \in 1 .. Len(Script(o))
  BY <1>1, ScriptOf DEF AtStatement, PlaceInv
<1>3. /\ Labelling(o) => Labels(Statement(o))
      /\ ~Labelling(o) => Tame(Statement(o))
  BY <1>1, <1>2, ScriptOf DEF Statement
<1>4. Labelling(o) => Statement(o).auto
  BY <1>3 DEF Labels
<1>5. ~Labelling(o) => ~Statement(o).auto
  BY <1>3 DEF Tame
<1>. QED  BY <1>1, <1>2, <1>3, <1>4, <1>5 DEF Statement


\* What a process is at depends on nothing but its own record.
LEMMA SameProcess ==
    ASSUME NEW p, proc'[p] = proc[p]
    PROVE  /\ Script(p)' = Script(p) /\ (Running(p)' <=> Running(p)) /\ (Ahead(p)' <=> Ahead(p))
           /\ (Upgrading(p)' <=> Upgrading(p)) /\ (Labelling(p)' <=> Labelling(p))
           /\ (PastStrays(p)' <=> PastStrays(p))
  BY DEF Script, Running, Ahead, Upgrading, Labelling, PastStrays

\* A step of others that leaves the revision to a process that is ahead, and
\* adds no stray item behind its back.
LEMMA OtherKeeps ==
    ASSUME NEW p \in Operators, ProcInv(p), proc'[p] = proc[p],
           Ahead(p) => db'.revision = db.revision,
           "strays" \in db'.rows /\ Upgrading(p) /\ proc[p].base < 5 /\ PastStrays(p)
               => "strays" \in db.rows
    PROVE  ProcInv(p)'
<1>1. PlaceInv(p)'
  BY SameProcess DEF PlaceInv, ProcInv
<1>2. VersionInv(p)'
  BY SameProcess DEF VersionInv, ProcInv
<1>3. StraysInv(p)'
  BY SameProcess DEF StraysInv, ProcInv
<1>. QED  BY <1>1, <1>2, <1>3 DEF ProcInv

\* A process that runs nothing claims nothing.
LEMMA IdleKeeps ==
    ASSUME NEW p, proc'[p] = Idle
    PROVE  ProcInv(p)' /\ ~Ahead(p)'
  BY DEF ProcInv, PlaceInv, VersionInv, StraysInv, Ahead, Upgrading, Labelling, Running, Idle

\* Nobody records a revision beside a process that is ahead.
LEMMA NobodyAhead ==
    ASSUME NEW o \in Operators, Running(o), ~AtStatement(o), WaitsFor(o) = {},
           NEW p \in Operators, p # o, ProcInv(p)
    PROVE  ~Ahead(p)
<1>1. SUFFICES ASSUME Ahead(p) PROVE FALSE
  OBVIOUS
<1>2. Running(p)
  BY <1>1 DEF ProcInv, PlaceInv
<1>3. "alembic_version" \in Wanted(o)
  BY DEF Wanted
<1>4. "alembic_version" \in Held(p)
  <2>. DEFINE some == LocksOf(Script(p), proc[p].next - 1)
              more == UNION {LocksOf(Upgrade[r], Len(Upgrade[r])) : r \in proc[p].base + 1 .. proc[p].at}
  <2>1. Held(p) = some \cup more
                      \cup (IF proc[p].at # proc[p].base THEN {"alembic_version"} ELSE {})
    BY DEF Held
  <2>. HIDE DEF some, more
  <2>. QED  BY <1>1, <2>1 DEF Ahead
<1>5. p \in WaitsFor(o)
  BY <1>2, <1>3, <1>4 DEF WaitsFor
<1>. QED  BY <1>5

\* The locks of a script's first statements are those of each of them.
LEMMA LocksOfHas ==
    ASSUME NEW script, NEW n, NEW k \in 1 .. n, NEW l \in script[k].locks
    PROVE  l \in LocksOf(script, n)
  BY DEF LocksOf

\* Nobody writes an item behind the key that 38dd2 adds.
LEMMA StraysLocked ==
    ASSUME IInv, NEW p \in Operators, Upgrading(p), proc[p].base < 5, PastStrays(p)
    PROVE  "reservation_items" \in Held(p)
<1>1. Len(Up38dd2) = 4 /\ "reservation_items" \in Up38dd2[1].locks
  BY DEF Up38dd2, On, Gone, Plain
<1>2. proc[p] \in Process /\ PlaceInv(p) /\ Upgrade[5] = Up38dd2 /\ Latest = 10
  BY Revisions DEF IInv, TypeInv, ProcInv
<1>3. CASE proc[p].at >= 5
  <2>1. 5 \in proc[p].base + 1 .. proc[p].at
    BY <1>2, <1>3 DEF Process
  <2>2. "reservation_items" \in LocksOf(Upgrade[5], Len(Upgrade[5]))
    BY <1>1, <1>2, LocksOfHas
  <2>. QED  BY <2>1, <2>2 DEF Held
<1>4. CASE proc[p].at = 4 /\ proc[p].next > 3
  <2>1. Script(p) = Up38dd2
    BY <1>2, <1>4 DEF Script, Upgrading
  <2>2. 1 \in 1 .. proc[p].next - 1
    BY <1>2, <1>4 DEF Process
  <2>3. "reservation_items" \in LocksOf(Script(p), proc[p].next - 1)
    BY <1>1, <2>1, <2>2, LocksOfHas
  <2>. QED  BY <2>3 DEF Held
<1>. QED  BY <1>3, <1>4 DEF PastStrays

\* At first nothing is there and nobody runs.
LEMMA InitInv == Init => IInv
<1>1. SUFFICES ASSUME Init PROVE IInv
  OBVIOUS
<1>2. TypeInv
  BY <1>1, Revisions DEF Init, Empty, TypeInv, IsDatabase, Process, Idle
<1>3. DbInv
  BY <1>1, FreshSteps DEF Init, Empty, DbInv, Like, Base
<1>4. \A o \in Operators : ProcInv(o) /\ ~Ahead(o)
  BY <1>1 DEF Init, Idle, ProcInv, PlaceInv, VersionInv, StraysInv, Ahead, Upgrading,
              Labelling, Running
<1>. QED  BY <1>2, <1>3, <1>4 DEF IInv, OneInv

-----------------------------------------------------------------------------
(* Each action keeps the invariant. *)

\* A rolled-back transaction leaves the committed database as it was.
LEMMA AbortKeeps ==
    ASSUME IInv, NEW o \in Operators, Abort(o)
    PROVE  IInv'
<1>. USE DEF IInv
<1>1. proc' = [proc EXCEPT ![o] = Idle] /\ db' = db
  BY DEF Abort
<1>2. /\ proc' \in [Operators -> Process] /\ proc'[o] = Idle
      /\ \A p \in Operators \ {o} : proc'[p] = proc[p]
  <2>1. Idle \in Process
    BY Revisions DEF Process, Idle
  <2>. QED  BY <1>1, <2>1 DEF TypeInv
<1>3. TypeInv' /\ DbInv'
  BY <1>1, <1>2 DEF TypeInv, DbInv, IsDatabase
<1>4. ~Ahead(o)' /\ \A p \in Operators \ {o} : Ahead(p)' <=> Ahead(p)
  BY <1>2, IdleKeeps, SameProcess
<1>5. OneInv'
  BY <1>4 DEF OneInv
<1>6. ASSUME NEW p \in Operators PROVE ProcInv(p)'
  BY <1>1, <1>2, IdleKeeps, OtherKeeps
<1>. QED  BY <1>3, <1>5, <1>6

\* A command that begins has done nothing yet.
LEMMA BeginKeeps ==
    ASSUME IInv, NEW o \in Operators, Begin(o)
    PROVE  IInv'
<1>. USE DEF IInv
<1>. DEFINE new(command, goal) == [command |-> command, goal |-> goal, base |-> db.revision,
                                   at |-> db.revision, next |-> 1]
<1>1. PICK command \in {"upgrade", "downgrade"}, goal \in 0 .. Latest :
          /\ command = "upgrade" => db.revision < goal
          /\ command = "downgrade" => db.revision > 0
          /\ proc' = [proc EXCEPT ![o] = new(command, goal)]
  <2>1. CASE \E head \in Heads : /\ db.revision < head
                                 /\ proc' = [proc EXCEPT ![o] = new("upgrade", head)]
    <3>1. PICK head \in Heads : /\ db.revision < head
                               /\ proc' = [proc EXCEPT ![o] = new("upgrade", head)]
      BY <2>1
    <3>2. head \in 0 .. Latest
      BY HeadsAssumption, Revisions
    <3>. HIDE DEF new
    <3>. QED  BY <3>1, <3>2
  <2>2. CASE db.revision > 0 /\ proc' = [proc EXCEPT ![o] = new("downgrade", db.revision - 1)]
    <3>1. db.revision - 1 \in 0 .. Latest
      BY <2>2, Revisions DEF TypeInv
    <3>. QED  BY <2>2, <3>1
  <2>. QED  BY <2>1, <2>2 DEF Begin
<1>2. ~Running(o) /\ db' = db
  BY DEF Begin
<1>. HIDE DEF new
<1>3. new(command, goal) \in Process
  BY DEF TypeInv, Process, new
<1>4. /\ proc' \in [Operators -> Process] /\ proc'[o] = new(command, goal)
      /\ \A p \in Operators \ {o} : proc'[p] = proc[p]
  BY <1>1, <1>3 DEF TypeInv
<1>5. TypeInv' /\ DbInv'
  BY <1>2, <1>4 DEF TypeInv, DbInv, IsDatabase
<1>6. /\ proc'[o].command = command /\ proc'[o].goal = goal /\ proc'[o].base = db.revision
      /\ proc'[o].at = db.revision /\ proc'[o].next = 1
  BY <1>4 DEF new
<1>7. ~Ahead(o)' /\ \A p \in Operators \ {o} : Ahead(p)' <=> Ahead(p)
  BY <1>4, <1>6, SameProcess DEF Ahead
<1>8. OneInv'
  BY <1>7 DEF OneInv
<1>9. ProcInv(o)'
  <2>1. Len(Script(o)') \in Nat
    <3>1. /\ command = "upgrade" => Script(o)' = Upgrade[db.revision + 1] /\ db.revision + 1 \in 1 .. Latest
          /\ command = "downgrade" => Script(o)' = Downgrade[db.revision] /\ db.revision \in 1 .. Latest
      BY <1>1, <1>6, Revisions DEF Script, TypeInv
    <3>. QED  BY <3>1, UpgradeScripts, DowngradeScripts
  <2>2. PlaceInv(o)'
    BY <1>1, <1>6, <1>7, <2>1, Revisions DEF PlaceInv, Upgrading, TypeInv
  <2>3. VersionInv(o)' /\ StraysInv(o)'
    BY <1>6, <1>7, Revisions DEF VersionInv, StraysInv, PastStrays, TypeInv
  <2>. QED  BY <2>2, <2>3 DEF ProcInv
<1>10. ASSUME NEW p \in Operators, p # o PROVE ProcInv(p)'
  BY <1>2, <1>4, <1>10, OtherKeeps
<1>. QED  BY <1>5, <1>8, <1>9, <1>10

\* The application writes rows only, and items astray only at revision 4.
LEMMA WriteKeeps ==
    ASSUME IInv, NEW mark \in Written, Write(mark)
    PROVE  IInv'
<1>. USE DEF IInv
<1>1. proc' = proc /\ db' = [db EXCEPT !.rows = @ \cup {mark}]
  BY DEF Write
<1>2. /\ db'.schema = db.schema /\ db'.rows = db.rows \cup {mark} /\ db'.revision = db.revision
      /\ IsDatabase(db')
  <2>1. db = [schema |-> db.schema, rows |-> db.rows, revision |-> db.revision]
    BY DEF TypeInv, IsDatabase
  <2>2. db' = [schema |-> db.schema, rows |-> db.rows \cup {mark}, revision |-> db.revision]
    BY <1>1, <2>1
  <2>. QED  BY <2>2 DEF IsDatabase
<1>3. TypeInv'
  BY <1>1, <1>2 DEF TypeInv
<1>4. Real(db, db.revision)
  BY LikeIsReal DEF DbInv
<1>5. mark \in RowsAt(db.revision)
  <2>1. mark = "strays" => db.revision = 4
    BY <1>4, StraysAt4 DEF Write, Real, TypeInv
  <2>. QED  BY <2>1 DEF RowsAt
<1>6. DbInv'
  <2>1. Like(db', Base(db.revision))
    BY <1>2, <1>4, <1>5, LikeIsReal DEF Real
  <2>. QED  BY <1>2, <2>1 DEF DbInv
<1>7. OneInv'
  BY <1>1, SameProcess DEF OneInv
<1>8. ASSUME NEW p \in Operators PROVE ProcInv(p)'
  <2>1. ASSUME "strays" \in db'.rows, Upgrading(p), proc[p].base < 5, PastStrays(p)
        PROVE  "strays" \in db.rows
    <3>1. "reservation_items" \in Held(p) /\ Running(p)
      BY <2>1, StraysLocked DEF Upgrading, Running
    <3>2. mark # "strays"
      BY <3>1 DEF Write
    <3>. QED  BY <1>2, <2>1, <3>2
  <2>. QED  BY <1>1, <1>2, <2>1, OtherKeeps
<1>. QED  BY <1>3, <1>6, <1>7, <1>8


\* autocommit_block commits the revisions that are finished.
LEMMA EnterAutocommitKeeps ==
    ASSUME IInv, NEW o \in Operators, EnterAutocommit(o)
    PROVE  IInv'
<1>. DEFINE at == proc[o].at
<1>1. /\ AtStatement(o) /\ Statement(o).auto /\ Ahead(o)
      /\ db' = Seen(o) /\ proc' = [proc EXCEPT ![o].base = at]
  BY DEF EnterAutocommit, Ahead
<1>2. Running(o) /\ Labelling(o)
  BY <1>1, StatementOf
<1>3. /\ TypeInv /\ ProcInv(o) /\ proc[o] \in Process /\ at \in 0 .. Latest /\ at >= 8
      /\ Upgrading(o)
  BY <1>2 DEF IInv, TypeInv, Process, Labelling
<1>4. proc[o].next = 1
  BY <1>1, <1>2, <1>3 DEF ProcInv, PlaceInv
<1>5. /\ db' = Reached(o) /\ IsDatabase(db') /\ db'.revision = at /\ db'.rows = db.rows
  BY <1>1, <1>2, <1>4, SeenIs
<1>6. Like(db', Base(at))
  BY <1>2, <1>5, ReachedIsReal
<1>7. /\ proc' \in [Operators -> Process] /\ \A p \in Operators \ {o} : proc'[p] = proc[p]
      /\ proc'[o].command = proc[o].command /\ proc'[o].goal = proc[o].goal
      /\ proc'[o].base = at /\ proc'[o].at = at /\ proc'[o].next = 1
  BY <1>1, <1>3, <1>4 DEF IInv, TypeInv, Process
<1>. HIDE DEF at
<1>8. TypeInv' /\ DbInv'
  BY <1>3, <1>5, <1>6, <1>7 DEF TypeInv, DbInv
<1>9. ~Ahead(o)' /\ \A p \in Operators \ {o} : ~Ahead(p) /\ (Ahead(p)' <=> Ahead(p))
  BY <1>1, <1>7, SameProcess DEF Ahead, IInv, OneInv
<1>10. OneInv'
  BY <1>9 DEF OneInv
<1>11. ProcInv(o)'
  <2>1. Script(o)' = Script(o) /\ Len(Script(o)) \in Nat
    BY <1>2, <1>7, SeenIs DEF Script, at
  <2>2. PlaceInv(o)'
    BY <1>3, <1>7, <1>9, <2>1, Revisions DEF PlaceInv, ProcInv, Upgrading, at
  <2>3. VersionInv(o)' /\ StraysInv(o)'
    BY <1>3, <1>7, <1>9, Revisions DEF VersionInv, StraysInv
  <2>. QED  BY <2>2, <2>3 DEF ProcInv
<1>12. ASSUME NEW p \in Operators, p # o PROVE ProcInv(p)'
  BY <1>5, <1>7, <1>9, <1>12, OtherKeeps DEF IInv
<1>. QED  BY <1>8, <1>10, <1>11, <1>12 DEF IInv

\* A label that is committed at once changes nothing else.
LEMMA ExecuteAutocommitKeeps ==
    ASSUME IInv, NEW o \in Operators, ExecuteAutocommit(o)
    PROVE  IInv'
<1>. DEFINE s == Statement(o)
            n == proc[o].next
<1>1. AtStatement(o) /\ s.auto /\ ~Ahead(o)
  BY DEF ExecuteAutocommit, Ahead
<1>2. /\ Running(o) /\ Labelling(o) /\ Labels(s) /\ Len(Script(o)) \in Nat
      /\ n \in 1 .. Len(Script(o))
  BY <1>1, StatementOf
<1>3. TypeInv /\ DbInv /\ ProcInv(o) /\ proc[o] \in Process
  BY DEF IInv, TypeInv
<1>4. Possible(s, db)
  BY <1>2, <1>3 DEF Labels, TypeInv
<1>5. db' = Done(s, db) /\ proc' = [proc EXCEPT ![o].next = @ + 1]
  BY <1>4 DEF ExecuteAutocommit
<1>6. /\ db'.schema = db.schema \cup s.gives /\ db'.rows = db.rows
      /\ db'.revision = db.revision /\ IsDatabase(db') /\ s.gives \subseteq Lasting
  BY <1>2, <1>3, <1>5, DoneIs DEF Labels, TypeInv
<1>. HIDE DEF s
<1>7. /\ proc' \in [Operators -> Process] /\ \A p \in Operators \ {o} : proc'[p] = proc[p]
      /\ proc'[o].command = proc[o].command /\ proc'[o].goal = proc[o].goal
      /\ proc'[o].base = proc[o].base /\ proc'[o].at = proc[o].at /\ proc'[o].next = n + 1
  BY <1>3, <1>5 DEF TypeInv, Process
<1>8. TypeInv' /\ DbInv'
  BY <1>3, <1>6, <1>7 DEF TypeInv, DbInv, Like
<1>9. \A p \in Operators : Ahead(p)' <=> Ahead(p)
  BY <1>7, SameProcess DEF Ahead
<1>10. OneInv'
  BY <1>9 DEF OneInv, IInv
<1>11. ProcInv(o)'
  <2>1. Script(o)' = Script(o) /\ proc[o].at >= 8 /\ Upgrading(o)
    BY <1>2, <1>7 DEF Script, Labelling
  <2>2. PlaceInv(o)'
    BY <1>1, <1>2, <1>3, <1>7, <1>9, <2>1 DEF PlaceInv, ProcInv, Upgrading, Running
  <2>3. VersionInv(o)' /\ StraysInv(o)'
    BY <1>1, <1>3, <1>6, <1>7, <1>9, <2>1
       DEF VersionInv, StraysInv, ProcInv, PastStrays, Upgrading, Process
  <2>. QED  BY <2>2, <2>3 DEF ProcInv
<1>12. ASSUME NEW p \in Operators, p # o PROVE ProcInv(p)'
  BY <1>6, <1>7, <1>12, OtherKeeps DEF IInv
<1>. QED  BY <1>8, <1>10, <1>11, <1>12 DEF IInv

\* No database has what the two impossible statements ask for.
LEMMA NeverThere ==
    ASSUME NEW r \in 0 .. Latest
    PROVE  /\ "cast_string_to_integer" \notin Fresh[r] \cup Lasting
           /\ "unnamed_constraint" \notin Fresh[r] \cup {"reservation_items.provider_id"} \cup Lasting
<1>. DEFINE Nowhere(x) == \A k \in 0 .. 10 : x \notin Fresh[k]
<1>1. ASSUME NEW x \in {"cast_string_to_integer", "unnamed_constraint"} PROVE Nowhere(x)
  <2>1. x \notin Grown[1] /\ x \notin Grown[2] /\ x \notin Grown[3] /\ x \notin Grown[4]
    BY <1>1 DEF Grown
  <2>2. x \notin Grown[5] /\ x \notin Grown[6] /\ x \notin Grown[7] /\ x \notin Grown[8]
    BY <1>1 DEF Grown
  <2>3. x \notin Grown[9] /\ x \notin Grown[10]
    BY <1>1 DEF Grown
  <2>4. x \notin Fresh[0] /\ x \notin Fresh[1] /\ x \notin Fresh[2] /\ x \notin Fresh[3]
    BY <2>1, FreshTable
  <2>5. x \notin Fresh[4] /\ x \notin Fresh[5] /\ x \notin Fresh[6] /\ x \notin Fresh[7]
    BY <2>1, <2>2, <2>4, FreshTable
  <2>6. x \notin Fresh[8] /\ x \notin Fresh[9] /\ x \notin Fresh[10]
    BY <2>2, <2>3, <2>5, FreshTable
  <2>. QED  BY <2>4, <2>5, <2>6
<1>2. r \in 0 .. 10
  BY Revisions
<1>3. "cast_string_to_integer" \notin Fresh[r] /\ "unnamed_constraint" \notin Fresh[r]
  BY <1>1, <1>2
<1>. QED  BY <1>3 DEF Lasting


\* The downgrades of 54bea and 38dd2 fail.
LEMMA ImpossibleFails ==
    ASSUME IInv, NEW o \in Operators, AtStatement(o), proc[o].command = "downgrade",
           Possible(Statement(o), Seen(o))
    PROVE  /\ proc[o].at # 3
           /\ proc[o].at = 5 => proc[o].next = 1
<1>1. /\ TypeInv /\ DbInv /\ PlaceInv(o) /\ Running(o) /\ proc[o].next \in Nat
      /\ proc[o].next >= 1
  BY DEF IInv, ProcInv, TypeInv, Process, Running, PlaceInv
<1>2. Reached(o) = db /\ Len(Script(o)) \in Nat /\ Script(o) = Downgrade[proc[o].at]
  BY <1>1, SeenIs DEF PlaceInv, Script
<1>3. db.schema \subseteq Fresh[db.revision] \cup Lasting
  BY <1>1, LikeIsReal DEF DbInv, Real
<1>4. /\ "cast_string_to_integer" \notin db.schema
      /\ "unnamed_constraint" \notin db.schema \cup {"reservation_items.provider_id"}
  BY <1>1, <1>3, NeverThere DEF TypeInv
<1>5. Statement(o).needs \subseteq Seen(o).schema
  BY DEF Possible
<1>6. ASSUME proc[o].at = 3 PROVE FALSE
  <2>1. Script(o) = Down54bea /\ proc[o].next = 1
    BY <1>1, <1>2, <1>6, Revisions DEF PlaceInv
  <2>2. "cast_string_to_integer" \in Statement(o).needs
    BY <2>1, DowngradeFrom3 DEF Statement
  <2>3. Seen(o) = db
    BY <1>1, <1>2, <2>1, SeenIs
  <2>. QED  BY <1>4, <1>5, <2>2, <2>3
<1>7. ASSUME proc[o].at = 5, proc[o].next # 1 PROVE FALSE
  <2>1. Script(o) = Down38dd2 /\ proc[o].next = 2
    BY <1>1, <1>2, <1>7, Revisions DEF PlaceInv
  <2>2. "unnamed_constraint" \in Statement(o).needs
    BY <2>1, DowngradeFrom5 DEF Statement
  <2>3. Seen(o).schema = db.schema \cup {"reservation_items.provider_id"}
    <3>1. Seen(o) = Course(Down38dd2, db)[1]
      BY <1>2, <2>1 DEF Seen
    <3>. QED  BY <1>1, <3>1, DowngradeFrom5 DEF TypeInv
  <2>. QED  BY <1>4, <1>5, <2>2, <2>3
<1>. QED  BY <1>6, <1>7

\* The first two statements of 38dd2 leave the rows; the third is refused where
\* an item is astray.
LEMMA NoneAstray ==
    ASSUME IInv, NEW o \in Operators, AtStatement(o), Upgrading(o), proc[o].at = 4,
           proc[o].next = 3, Possible(Statement(o), Seen(o))
    PROVE  "strays" \notin db.rows
<1>1. Running(o)
  BY DEF Upgrading, Running
<1>2. Script(o) = Up38dd2
  BY Revisions DEF Script, Upgrading
<1>3. IsDatabase(Reached(o)) /\ Reached(o).rows = db.rows
  BY <1>1, SeenIs
<1>4. Seen(o) = Course(Up38dd2, Reached(o))[2]
  BY <1>2 DEF Seen
<1>5. Len(Up38dd2) = 4
  BY DEF Up38dd2
<1>. DEFINE c == Course(Up38dd2, Reached(o))
<1>6. /\ c[0] = Reached(o) /\ c[1] = Done(Up38dd2[1], c[0]) /\ c[2] = Done(Up38dd2[2], c[1])
      /\ IsDatabase(c[0]) /\ IsDatabase(c[1])
  BY <1>3, <1>5, Course4
<1>. HIDE DEF c
<1>7. c[2].rows = db.rows
  BY <1>3, <1>6, GoneDoes DEF Up38dd2
<1>8. Statement(o).refused = {"strays"}
  <2>1. Statement(o) = Up38dd2[3]
    BY <1>2 DEF Statement
  <2>2. Up38dd2[3].refused = {"strays"}
    BY DEF Up38dd2, On, AddForeignKey, New, Plain
  <2>. QED  BY <2>1, <2>2
<1>. QED  BY <1>4, <1>7, <1>8 DEF c, Possible

\* A statement takes a process one step along its script.
LEMMA ExecuteKeeps ==
    ASSUME IInv, NEW o \in Operators, Execute(o)
    PROVE  IInv'
<1>. DEFINE s == Statement(o)
            n == proc[o].next
<1>1. AtStatement(o) /\ ~s.auto
  BY DEF Execute
<1>2. /\ Running(o) /\ ~Labelling(o) /\ Len(Script(o)) \in Nat
      /\ n \in 1 .. Len(Script(o))
  BY <1>1, StatementOf
<1>3. TypeInv /\ DbInv /\ ProcInv(o) /\ proc[o] \in Process
  BY DEF IInv, TypeInv
<1>4. CASE ~Possible(s, Seen(o))
  BY <1>4, AbortKeeps DEF Execute
<1>5. CASE Possible(s, Seen(o))
  <2>1. db' = db /\ proc' = [proc EXCEPT ![o].next = @ + 1]
    BY <1>5 DEF Execute
  <2>2. /\ proc' \in [Operators -> Process] /\ \A p \in Operators \ {o} : proc'[p] = proc[p]
        /\ proc'[o].command = proc[o].command /\ proc'[o].goal = proc[o].goal
        /\ proc'[o].base = proc[o].base /\ proc'[o].at = proc[o].at /\ proc'[o].next = n + 1
    BY <1>3, <2>1 DEF TypeInv, Process
  <2>3. TypeInv' /\ DbInv'
    BY <1>3, <2>1, <2>2 DEF TypeInv, DbInv
  <2>4. \A p \in Operators : Ahead(p)' <=> Ahead(p)
    BY <2>2, SameProcess DEF Ahead
  <2>5. OneInv'
    BY <2>4 DEF OneInv, IInv
  <2>6. ProcInv(o)'
    <3>1. Script(o)' = Script(o) /\ (Labelling(o)' <=> Labelling(o))
      BY <2>2 DEF Script, Labelling, Upgrading
    <3>2. PlaceInv(o)'
      <4>1. proc[o].command = "downgrade" => /\ proc[o].at # 3
                                             /\ proc[o].at = 5 => n = 1
        BY <1>1, <1>5, ImpossibleFails
      <4>. HIDE DEF s
      <4>. QED  BY <1>2, <1>3, <2>2, <2>4, <3>1, <4>1 DEF PlaceInv, ProcInv, Upgrading, Running
    <3>3. VersionInv(o)'
      BY <1>3, <2>1, <2>2, <2>4 DEF VersionInv, ProcInv
    <3>4. StraysInv(o)'
      <4>1. SUFFICES ASSUME Upgrading(o), proc[o].base < 5,
                            proc[o].at >= 5 \/ (proc[o].at = 4 /\ n + 1 > 3)
                     PROVE  "strays" \notin db.rows
        BY <2>1, <2>2 DEF StraysInv, Upgrading, PastStrays
      <4>2. CASE PastStrays(o)
        BY <1>3, <4>1, <4>2 DEF ProcInv, StraysInv
      <4>3. CASE ~PastStrays(o)
        <5>1. proc[o].at = 4 /\ n = 3
          BY <1>2, <4>1, <4>3 DEF PastStrays
        <5>. QED  BY <1>1, <1>5, <4>1, <5>1, NoneAstray
      <4>. QED  BY <4>2, <4>3
    <3>. QED  BY <3>2, <3>3, <3>4 DEF ProcInv
  <2>7. ASSUME NEW p \in Operators, p # o PROVE ProcInv(p)'
    BY <2>1, <2>2, <2>7, OtherKeeps DEF IInv
  <2>. QED  BY <2>3, <2>5, <2>6, <2>7 DEF IInv
<1>. QED  BY <1>4, <1>5

\* A script that has ended has made the revision that is recorded; a process that
\* has been overtaken matches no row and is rolled back.
LEMMA RecordKeeps ==
    ASSUME IInv, NEW o \in Operators, Record(o)
    PROVE  IInv'
<1>. DEFINE seen == Seen(o)
            at == proc[o].at
            recorded == [seen EXCEPT !.revision = To(o)]
<1>1. Running(o) /\ ~AtStatement(o) /\ WaitsFor(o) = {}
  BY DEF Record
<1>2. TypeInv /\ DbInv /\ ProcInv(o) /\ proc[o] \in Process
  BY DEF IInv, TypeInv
<1>3. CASE seen.revision # at
  BY <1>3, AbortKeeps DEF Record
<1>4. CASE seen.revision = at
  <2>1. Real(seen, To(o)) /\ To(o) \in 0 .. Latest
    BY <1>1, <1>4, EndOfScript
  <2>2. IsDatabase(seen) /\ seen.rows \cap Written \subseteq db.rows
    BY <1>1, SeenIs
  <2>3. \A p \in Operators \ {o} : ~Ahead(p)
    BY <1>1, NobodyAhead DEF IInv
  <2>4. IF proc[o].command = "upgrade" /\ To(o) # proc[o].goal
        THEN /\ proc' = [proc EXCEPT ![o].at = To(o), ![o].next = 1]
             /\ db' = db
        ELSE /\ proc' = [proc EXCEPT ![o] = Idle]
             /\ db' = recorded
    BY <1>4 DEF Record
  <2>. HIDE DEF seen
  <2>5. CASE ~(proc[o].command = "upgrade" /\ To(o) # proc[o].goal)
    <3>1. /\ db'.schema = seen.schema /\ db'.rows = seen.rows /\ db'.revision = To(o)
          /\ IsDatabase(db')
      <4>1. seen = [schema |-> seen.schema, rows |-> seen.rows, revision |-> seen.revision]
        BY <2>2 DEF IsDatabase
      <4>2. db' = [schema |-> seen.schema, rows |-> seen.rows, revision |-> To(o)]
        BY <2>4, <2>5, <4>1
      <4>. QED  BY <4>2 DEF IsDatabase
    <3>2. /\ proc' \in [Operators -> Process] /\ proc'[o] = Idle
          /\ \A p \in Operators \ {o} : proc'[p] = proc[p]
      <4>1. Idle \in Process
        BY Revisions DEF Process, Idle
      <4>. QED  BY <1>2, <2>4, <2>5, <4>1 DEF TypeInv
    <3>3. Like(db', Base(To(o)))
      BY <2>1, <3>1, LikeIsReal DEF Real
    <3>4. TypeInv' /\ DbInv'
      BY <2>1, <3>1, <3>2, <3>3 DEF TypeInv, DbInv
    <3>5. \A p \in Operators : ~Ahead(p)'
      BY <2>3, <3>2, IdleKeeps, SameProcess
    <3>6. OneInv'
      BY <3>5 DEF OneInv
    <3>7. ASSUME NEW p \in Operators PROVE ProcInv(p)'
      <4>1. CASE p = o
        BY <3>2, <4>1, IdleKeeps
      <4>2. CASE p # o
        <5>1. "strays" \in db'.rows => "strays" \in db.rows
          BY <2>2, <3>1 DEF Written
        <5>. QED  BY <2>3, <3>2, <4>2, <5>1, OtherKeeps DEF IInv
      <4>. QED  BY <4>1, <4>2
    <3>. QED  BY <3>4, <3>6, <3>7 DEF IInv
  <2>6. CASE proc[o].command = "upgrade" /\ To(o) # proc[o].goal
    <3>1. To(o) = at + 1 /\ at \in 0 .. Latest /\ proc[o].goal \in 0 .. Latest
          /\ proc[o].base \in 0 .. Latest /\ proc[o].base <= at /\ at + 1 < proc[o].goal
      BY <1>2, <2>6, Revisions DEF To, Process, ProcInv, PlaceInv, Upgrading
    <3>2. /\ proc' \in [Operators -> Process] /\ \A p \in Operators \ {o} : proc'[p] = proc[p]
          /\ proc'[o].command = "upgrade" /\ proc'[o].goal = proc[o].goal
          /\ proc'[o].base = proc[o].base /\ proc'[o].at = at + 1 /\ proc'[o].next = 1
          /\ db' = db
      BY <1>2, <2>1, <2>4, <2>6, <3>1 DEF TypeInv, Process
    <3>3. TypeInv' /\ DbInv'
      BY <1>2, <3>2 DEF TypeInv, DbInv
    <3>4. \A p \in Operators \ {o} : ~Ahead(p)'
      BY <2>3, <3>2, SameProcess
    <3>5. OneInv'
      BY <3>4 DEF OneInv
    <3>6. db.revision = proc[o].base
      <4>1. CASE Ahead(o)
        BY <1>2, <4>1 DEF ProcInv, VersionInv
      <4>2. CASE ~Ahead(o)
        <5>1. Seen(o).revision = db.revision
          BY <1>1, <4>2, SeenIs
        <5>. QED  BY <1>4, <4>2, <5>1 DEF Ahead, seen
      <4>. QED  BY <4>1, <4>2
    <3>7. ProcInv(o)'
      <4>1. Script(o)' = Upgrade[(at + 1) + 1] /\ (at + 1) + 1 \in 1 .. Latest
        BY <3>1, <3>2, Revisions DEF Script
      <4>2. Len(Script(o)') \in Nat
        BY <4>1, UpgradeScripts
      <4>3. PlaceInv(o)'
        BY <3>1, <3>2, <4>2, Revisions DEF PlaceInv, Upgrading, Running
      <4>4. VersionInv(o)'
        BY <3>2, <3>6 DEF VersionInv
      <4>5. StraysInv(o)'
        <5>1. SUFFICES ASSUME proc[o].base < 5, at + 1 >= 5 PROVE "strays" \notin db.rows
          BY <3>1, <3>2, Revisions DEF StraysInv, PastStrays
        <5>2. PastStrays(o)
          <6>1. CASE at = 4
            <7>1. Script(o) = Up38dd2 /\ Len(Up38dd2) = 4
              BY <2>6, <6>1, Revisions DEF Script, Up38dd2
            <7>2. proc[o].next > 3
              BY <1>1, <1>2, <7>1 DEF AtStatement, Process
            <7>. QED  BY <6>1, <7>2 DEF PastStrays
          <6>2. CASE at # 4
            BY <3>1, <5>1, <6>2, Revisions DEF PastStrays
          <6>. QED  BY <6>1, <6>2
        <5>. QED  BY <1>2, <2>6, <5>1, <5>2 DEF ProcInv, StraysInv, Upgrading
      <4>. QED  BY <4>3, <4>4, <4>5 DEF ProcInv
    <3>8. ASSUME NEW p \in Operators, p # o PROVE ProcInv(p)'
      BY <3>2, <3>8, OtherKeeps DEF IInv
    <3>. QED  BY <3>3, <3>5, <3>7, <3>8 DEF IInv
  <2>. QED  BY <2>5, <2>6
<1>. QED  BY <1>3, <1>4


\* A step that changes nothing.
LEMMA StutterKeeps == IInv /\ UNCHANGED vars => IInv'
<1>1. SUFFICES ASSUME IInv, UNCHANGED vars PROVE IInv'
  OBVIOUS
<1>2. db' = db /\ proc' = proc
  BY <1>1 DEF vars
<1>3. TypeInv' /\ DbInv'
  BY <1>1, <1>2 DEF IInv, TypeInv, DbInv
<1>4. OneInv'
  BY <1>1, <1>2, SameProcess DEF IInv, OneInv
<1>5. ASSUME NEW p \in Operators PROVE ProcInv(p)'
  BY <1>1, <1>2, OtherKeeps DEF IInv
<1>. QED  BY <1>3, <1>4, <1>5 DEF IInv

\* All actions together.
LEMMA NextKeeps == IInv /\ [Next]_vars => IInv'
<1>1. SUFFICES ASSUME IInv, [Next]_vars PROVE IInv'
  OBVIOUS
<1>2. ASSUME NEW o \in Operators, Begin(o) PROVE IInv'
  BY <1>1, <1>2, BeginKeeps
<1>3. ASSUME NEW o \in Operators, Execute(o) PROVE IInv'
  BY <1>1, <1>3, ExecuteKeeps
<1>4. ASSUME NEW o \in Operators, EnterAutocommit(o) PROVE IInv'
  BY <1>1, <1>4, EnterAutocommitKeeps
<1>5. ASSUME NEW o \in Operators, ExecuteAutocommit(o) PROVE IInv'
  BY <1>1, <1>5, ExecuteAutocommitKeeps
<1>6. ASSUME NEW o \in Operators, Record(o) PROVE IInv'
  BY <1>1, <1>6, RecordKeeps
<1>7. ASSUME NEW o \in Operators, Crash(o) \/ DeadlockAbort(o) PROVE IInv'
  BY <1>1, <1>7, AbortKeeps DEF Crash, DeadlockAbort
<1>8. ASSUME NEW mark \in Marks, Write(mark) PROVE IInv'
  BY <1>1, <1>8, MarksAssumption, WriteKeeps
<1>9. CASE UNCHANGED vars
  BY <1>1, <1>9, StutterKeeps
<1>. QED  BY <1>1, <1>2, <1>3, <1>4, <1>5, <1>6, <1>7, <1>8, <1>9 DEF Next, Step

\* Whatever is run, crashes, is refused, waits or is written beside it, the
\* committed schema is that of a new database of the recorded revision, but for
\* enum types and labels; and what a process has done since its last commit
\* rests on the revision recorded then, behind locks that keep others out.
THEOREM InvariantHolds == Spec => []IInv
<1>1. Init => IInv
  BY InitInv
<1>2. IInv /\ [Next]_vars => IInv'
  BY NextKeeps
<1>. QED  BY <1>1, <1>2, PTL DEF Spec

-----------------------------------------------------------------------------
(* The invariants of the runs. *)

\* What the invariant says of the committed database.
LEMMA DbIsReal == IInv => /\ db.revision \in 0 .. Latest /\ IsDatabase(db)
                          /\ Real(db, db.revision)
  BY LikeIsReal DEF IInv, TypeInv, DbInv

\* Committed rows miss no value that a migration leaves NULL on its way, and
\* each process is at a statement of one of the ten revisions, not behind the
\* one it last committed.
THEOREM MigrationsTypeCorrect == Spec => []MigrationsTypeOK
<1>1. IInv => MigrationsTypeOK
  <2>1. SUFFICES ASSUME IInv PROVE MigrationsTypeOK
    OBVIOUS
  <2>2. db.rows \subseteq Written /\ db.revision \in 0 .. Latest
    BY <2>1, DbIsReal, BaseIs DEF Real
  <2>3. ASSUME NEW o \in Operators
        PROVE  /\ proc[o].command \in {"none", "upgrade", "downgrade"}
               /\ proc[o].base \in 0 .. Latest /\ proc[o].at \in proc[o].base .. Latest
               /\ proc[o].goal \in 0 .. Latest
               /\ Running(o) => proc[o].next \in 1 .. Len(Script(o)) + 1
    <3>1. proc[o] \in Process /\ PlaceInv(o)
      BY <2>1 DEF IInv, TypeInv, ProcInv
    <3>2. proc[o].base <= proc[o].at
      BY <3>1, Revisions DEF PlaceInv, Process, Ahead, Upgrading, Running
    <3>. QED  BY <3>1, <3>2, Revisions DEF Process, PlaceInv
  <2>. QED  BY <2>2, <2>3 DEF MigrationsTypeOK
<1>. QED  BY <1>1, InvariantHolds, PTL

\* alembic_version tells the schema: no crash, refusal, downgrade, deadlock or
\* second command leaves a database whose tables, columns and constraints are
\* other than those that the recorded revision gives a new one.
THEOREM RecordedSchemaIsReal == Spec => []RecordedIsReal
<1>1. IInv => RecordedIsReal
  BY DbIsReal DEF Real, RecordedIsReal
<1>. QED  BY <1>1, InvariantHolds, PTL


\* What stays of each revision's facts at head, and what the models rely on.
LEMMA HeadSchema ==
    /\ Models \ Undelivered \subseteq Fresh[10]
    /\ Undelivered \subseteq Models /\ Undelivered \cap (Fresh[10] \cup Lasting) = {}
    /\ Fresh[10] \cap Demanded \subseteq Models
    /\ Lasting \cap Demanded = {}
<1>1. UserModel \subseteq Fresh[10]
  BY FreshTable DEF UserModel, Grown, Shed
<1>2. OtpModel \subseteq Fresh[10]
  BY FreshTable DEF OtpModel, Grown, Shed
<1>3. ProductModel \cup OrderModel \cup ProviderModel \cup InventoryModel \cup CallLogModel
          \subseteq Fresh[10]
  BY FreshTable DEF ProductModel, OrderModel, ProviderModel, InventoryModel, CallLogModel,
                    Grown, Shed
<1>4. ReservationModel \ Undelivered \subseteq Fresh[10]
  BY FreshTable DEF ReservationModel, Undelivered, Grown, Shed
<1>5. ReservationItemModel \subseteq Fresh[10]
  BY FreshTable DEF ReservationItemModel, Grown, Shed
<1>6. OrderItemModel \subseteq Fresh[10]
  BY FreshTable DEF OrderItemModel, Grown, Shed
<1>7. "reservation_items.product_id" \notin Fresh[10] /\ "reservation_items.provider_id" \notin Fresh[10]
  <2>1. "reservation_items.provider_id" \notin Fresh[5]
    BY FreshTable DEF Shed, Grown
  <2>2. "reservation_items.product_id" \notin Fresh[6] /\ "reservation_items.provider_id" \notin Fresh[6]
    BY <2>1, FreshTable DEF Shed, Grown
  <2>3. "reservation_items.product_id" \notin Fresh[8] /\ "reservation_items.provider_id" \notin Fresh[8]
    BY <2>2, FreshTable DEF Grown
  <2>. QED  BY <2>3, FreshTable DEF Grown
<1>8. Demanded \ {"reservation_items.product_id", "reservation_items.provider_id"} \subseteq Models
  BY DEF Demanded, Models, OtpModel, ReservationModel, OrderItemModel, ReservationItemModel
<1>9. Lasting \cap Demanded = {}
  BY DEF Lasting, Demanded
<1>10. Undelivered \subseteq Models
  BY DEF Undelivered, Models, ReservationModel
<1>11. Undelivered \cap (Fresh[10] \cup Lasting) = {}
  <2>1. Undelivered \cap Fresh[4] = {}
    BY FreshTable DEF Undelivered, Grown, Shed
  <2>2. Undelivered \cap Fresh[8] = {}
    BY <2>1, FreshTable DEF Undelivered, Grown, Shed
  <2>. QED  BY <2>2, FreshTable DEF Undelivered, Grown, Shed, Lasting
<1>. QED  BY <1>1, <1>2, <1>3, <1>4, <1>5, <1>6, <1>7, <1>8, <1>9, <1>10, <1>11 DEF Models

\* A database at head has every table, column, label and key that the ORM models
\* declare, but for exactly one unique key, and no column that demands a value the
\* models do not give.
THEOREM HeadSchemaServesModels == Spec => []HeadServesModels
<1>1. IInv => HeadServesModels
  <2>1. SUFFICES ASSUME IInv, db.revision = 10
                 PROVE  Models \ db.schema = Undelivered /\ db.schema \cap Demanded \subseteq Models
    BY Revisions DEF HeadServesModels
  <2>2. Fresh[10] \subseteq db.schema /\ db.schema \ Fresh[10] \subseteq Lasting
    BY <2>1, DbIsReal DEF Real
  <2>. QED  BY <2>2, HeadSchema
<1>. QED  BY <1>1, InvariantHolds, PTL

\* Every revision of an upgrade is ready to run, so that rows and the types
\* alone decide.
LEMMA UpgradeWorksWhen ==
    ASSUME NEW d, d.revision \in 0 .. Latest, IsDatabase(d), Real(d, d.revision)
    PROVE  UpgradeWorks(d) <=> /\ d.rows \cap InTheWay(d.revision) = {}
                               /\ d.revision < 4 => "types" \notin d.schema
<1>. DEFINE u == Upgraded(d)
            e == d.revision
<1>1. d.rows \subseteq RowsAt(e) /\ d.rows \subseteq Written
  BY BaseIs DEF Real
<1>2. e \in 0 .. 10 /\ Latest = 10
  BY Revisions
<1>3. \A r \in e .. 10 : u[r].rows = d.rows /\ IsDatabase(u[r])
  BY <1>1, <1>2, UpgradedMoves
<1>4. \A r \in e .. 10 :
         /\ Fresh[r] \subseteq u[r].schema
         /\ u[r].schema \ Fresh[r] \subseteq Lasting
         /\ r < 4 => ("types" \in u[r].schema <=> "types" \in d.schema)
  BY <1>2, UpgradedIsReal
<1>. HIDE DEF u
<1>5. ASSUME NEW r \in e + 1 .. 10
      PROVE  Runs(Upgrade[r], u[r - 1]) <=> Unhindered(r, u[r - 1])
  <2>1. r \in 1 .. Latest /\ r - 1 \in e .. 10
    BY <1>2
  <2>2. Shed[r] \subseteq u[r - 1].schema
    BY <1>4, <2>1, FreshApart
  <2>3. (Grown[r] \ Lasting) \cap u[r - 1].schema = {}
    BY <1>4, <2>1, FreshApart
  <2>4. Ready(r, u[r - 1])
    BY <2>2, <2>3 DEF Ready
  <2>5. u[r - 1].rows \subseteq Written /\ IsDatabase(u[r - 1])
    BY <1>1, <1>3, <2>1
  <2>. QED  BY <2>1, <2>4, <2>5, UpgradeMoves
<1>6. UpgradeWorks(d) <=> \A r \in e + 1 .. 10 : Unhindered(r, u[r - 1])
  BY <1>2, <1>5 DEF UpgradeWorks, u
<1>7. ASSUME NEW r \in e + 1 .. 10
      PROVE  Unhindered(r, u[r - 1]) <=>
                 /\ r = 3 => "otps" \notin d.rows
                 /\ r = 4 => "types" \notin d.schema
                 /\ r \in {5, 6} => "strays" \notin d.rows
                 /\ r = 8 => "order_items" \notin d.rows
  <2>1. r - 1 \in e .. 10 /\ (r = 4 => r - 1 < 4)
    BY <1>2
  <2>2. /\ u[r - 1].rows = d.rows
        /\ r = 4 => ("types" \in u[r - 1].schema <=> "types" \in d.schema)
    BY <1>3, <1>4, <2>1
  <2>. QED  BY <2>2 DEF Unhindered
<1>8. (\A r \in e + 1 .. 10 : Unhindered(r, u[r - 1])) <=>
          /\ e < 3 => "otps" \notin d.rows
          /\ e < 4 => "types" \notin d.schema
          /\ e < 6 => "strays" \notin d.rows
          /\ e < 8 => "order_items" \notin d.rows
  <2>1. ASSUME \A r \in e + 1 .. 10 : Unhindered(r, u[r - 1])
        PROVE  /\ e < 3 => "otps" \notin d.rows
               /\ e < 4 => "types" \notin d.schema
               /\ e < 6 => "strays" \notin d.rows
               /\ e < 8 => "order_items" \notin d.rows
    <3>1. /\ e < 3 => 3 \in e + 1 .. 10
          /\ e < 4 => 4 \in e + 1 .. 10
          /\ e < 6 => 6 \in e + 1 .. 10
          /\ e < 8 => 8 \in e + 1 .. 10
      BY <1>2
    <3>. QED  BY <1>7, <2>1, <3>1
  <2>2. ASSUME /\ e < 3 => "otps" \notin d.rows
               /\ e < 4 => "types" \notin d.schema
               /\ e < 6 => "strays" \notin d.rows
               /\ e < 8 => "order_items" \notin d.rows,
               NEW r \in e + 1 .. 10
        PROVE  Unhindered(r, u[r - 1])
    BY <1>2, <1>7, <2>2
  <2>. QED  BY <2>1, <2>2
<1>9. e >= 5 => "strays" \notin d.rows
  BY <1>1, <1>2 DEF RowsAt
<1>10. d.rows \cap InTheWay(e) = {} <=>
           /\ e < 3 => "otps" \notin d.rows
           /\ e < 5 => "strays" \notin d.rows
           /\ e < 8 => "order_items" \notin d.rows
  BY <1>2 DEF InTheWay
<1>11. (e < 6 => "strays" \notin d.rows) <=> (e < 5 => "strays" \notin d.rows)
  BY <1>2, <1>9
<1>. HIDE DEF e
<1>12. UpgradeWorks(d) <=> /\ d.rows \cap InTheWay(e) = {}
                           /\ e < 4 => "types" \notin d.schema
  BY <1>6, <1>8, <1>10, <1>11, Zenon
<1>. QED  BY <1>12 DEF e
\* `alembic upgrade head` works on a database exactly when no row of the three
\* kinds is in the way of a revision to come and, before f6be8, no type is left
\* from a downgrade: a failed or interrupted attempt never counts.
THEOREM UpgradeWorksExactly == Spec => []UpgradeWorksUnless
<1>1. IInv => UpgradeWorksUnless
  BY DbIsReal, UpgradeWorksWhen DEF UpgradeWorksUnless
<1>. QED  BY <1>1, InvariantHolds, PTL
=============================================================================
