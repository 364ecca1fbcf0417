------------------------- MODULE ContentGroupProofs -------------------------
(***************************************************************************)
(* Proofs about content groups, for any configurations and triangles, any  *)
(* slaves, and every fault the module knows: what a committed group        *)
(* records of itself is true.                                              *)
(*                                                                         *)
(* The argument.  A container that has been checked is a fixed point of    *)
(* the check (CheckedIsFixed), so a commit records the truth, and a group  *)
(* whose first writer is committed when the job crashes is completed by    *)
(* recovery with the same serials missing (Matched).  A check removes      *)
(* nothing that a seed has and that did not fail in the new run (Seeded),  *)
(* and what a seed has is not worked on again (Slaving).  Stage ties all   *)
(* this to the operation the master is at.                                 *)
(***************************************************************************)
EXTENDS ContentGroup, SequenceTheorems, FiniteSetTheorems, TLAPS

-----------------------------------------------------------------------------
(* Rows and the integrity check                                            *)

\* Checking rows again would find m missing, and m is what is not there.
Fixed(rows, m) ==
  /\ m = Configs \ Present(rows)
  /\ MissingSerials(rows, {}) = m

\* A leg is stored with one configuration only.
LEMMA OneOwner ==
  ASSUME NEW c \in Configs, NEW d \in Configs, NEW k \in Stored(c),
         k \in Stored(d)
  PROVE  c = d
BY ConfigsAssumption DEF Stored

\* What belongs to a configuration is among the rows and legs there can be.
LEMMA RowTypes ==
  ASSUME NEW c \in Configs
  PROVE  /\ \A j \in 1 .. Samples : RowsAt(c, j) \subseteq Rows(c)
         /\ Rows(c) \subseteq AllRows
         /\ Stored(c) \subseteq AllLegs
BY DEF Rows, AllRows, Stored, AllLegs

\* Serials found in a container are configurations.
LEMMA PresentTypes ==
  ASSUME NEW rows, rows \subseteq AllRows
  PROVE  Present(rows) \subseteq Configs
<1>. SUFFICES ASSUME NEW q \in rows, q[1] = "npf" PROVE q[2] \in Configs
  BY DEF Present, SerialsIn
<1>1. PICK c \in Configs, j \in 1 .. Samples : q \in RowsAt(c, j)
  BY DEF AllRows, Rows
<1>2. q # <<"twopf", q[2], q[3]>>
  OBVIOUS
<1>3. q = <<"npf", c, j>>
  <2>1. ASSUME NEW k, q = <<"twopf", k, j>> PROVE FALSE
    BY <2>1
  <2>. QED BY <1>1, <2>1 DEF RowsAt
<1>. QED BY <1>3

\* So are serials reported missing.
LEMMA MissingTypes ==
  ASSUME NEW rows, NEW F \in SUBSET Configs
  PROVE  MissingSerials(rows, F) \in SUBSET Configs
BY DEF MissingSerials, MapTwopfToThreepf

\* Reports add to what is missing.
LEMMA MissingReported ==
  ASSUME NEW rows, NEW F
  PROVE  MissingSerials(rows, F) = MissingSerials(rows, {}) \cup F
BY DEF MissingSerials

\* The more rows, the less is missing.
LEMMA MissingAntitone ==
  ASSUME NEW rows, NEW more, rows \subseteq more
  PROVE  MissingSerials(more, {}) \subseteq MissingSerials(rows, {})
<1>1. \A table : SerialsIn(table, rows) \subseteq SerialsIn(table, more)
  BY DEF SerialsIn
<1>. QED BY <1>1 DEF MissingSerials, MapTwopfToThreepf, Present

\* Dropping serials removes them, and of the legs only those they own.
LEMMA DroppedRows ==
  ASSUME NEW rows, NEW cs
  PROVE  /\ Dropped(rows, cs) \subseteq rows
         /\ Present(Dropped(rows, cs)) = Present(rows) \ cs
         /\ SerialsIn("twopf", rows) \ TwopfDropList(cs)
              \subseteq SerialsIn("twopf", Dropped(rows, cs))
BY DEF Dropped, Present, SerialsIn

\* After the check of a container, whatever was reported, it is consistent:
\* another check would change nothing.
LEMMA CheckedIsFixed ==
  ASSUME NEW rows, rows \subseteq AllRows, NEW F \in SUBSET Configs,
         NEW total, total = MissingSerials(rows, F)
  PROVE  Fixed(Dropped(rows, total), total) /\ F \subseteq total
<1>. DEFINE kept == Dropped(rows, total)
<1>1. F \subseteq total /\ Configs \ Present(rows) \subseteq total
      /\ total \subseteq Configs
  BY MissingTypes DEF MissingSerials
<1>2. Present(kept) = Present(rows) \ total
  BY DroppedRows
<1>3. total = Configs \ Present(kept)
  BY <1>1, <1>2, PresentTypes
<1>4. MapTwopfToThreepf(AllLegs \ SerialsIn("twopf", kept)) \subseteq total
  <2>. SUFFICES ASSUME NEW c \in Configs, NEW k \in Stored(c),
                       k \notin SerialsIn("twopf", kept)
                PROVE  c \in total
    BY DEF MapTwopfToThreepf
  <2>1. k \in AllLegs
    BY RowTypes
  <2>2. CASE k \notin SerialsIn("twopf", rows)
    BY <2>1, <2>2 DEF MissingSerials, MapTwopfToThreepf
  <2>3. CASE k \in SerialsIn("twopf", rows)
    <3>1. k \in TwopfDropList(total)
      BY <2>3, DroppedRows
    <3>2. PICK d \in total : k \in Stored(d)
      BY <3>1 DEF TwopfDropList
    <3>. QED BY <1>1, <3>2, OneOwner
  <2>. QED BY <2>2, <2>3
<1>5. MissingSerials(kept, {}) = total
  BY <1>3, <1>4 DEF MissingSerials
<1>. QED BY <1>1, <1>3, <1>5 DEF Fixed

-----------------------------------------------------------------------------
(* The master's program                                                    *)

I(op) == Op(op, "int")
Z(op) == Op(op, "zeta")
Recheck(s, serials) == [Op("recheck", s) EXCEPT !.serials = serials]

\* Two sequences joined are known from their elements: the provers need this to
\* compute with explicit tuples.
LEMMA Join ==
  ASSUME NEW S, NEW s \in Seq(S), NEW t \in Seq(S), NEW u \in Seq(S),
         Len(u) = Len(s) + Len(t),
         \A i \in 1 .. Len(s) : u[i] = s[i],
         \A i \in 1 .. Len(t) : u[Len(s) + i] = t[i]
  PROVE  s \o t = u
<1>1. Len(s) \in Nat /\ Len(t) \in Nat
  BY LenProperties
<1>2. /\ s \o t \in Seq(S) /\ Len(s \o t) = Len(s) + Len(t)
      /\ \A i \in 1 .. Len(s) + Len(t) :
           (s \o t)[i] = IF i <= Len(s) THEN s[i] ELSE t[i - Len(s)]
  BY ConcatProperties
<1>3. ASSUME NEW i \in 1 .. Len(s) + Len(t) PROVE (s \o t)[i] = u[i]
  <2>1. CASE i <= Len(s)
    BY <1>1, <1>2, <2>1
  <2>2. CASE ~(i <= Len(s))
    <3>1. i - Len(s) \in 1 .. Len(t) /\ Len(s) + (i - Len(s)) = i
      BY <1>1, <2>2
    <3>2. u[Len(s) + (i - Len(s))] = t[i - Len(s)]
      BY <3>1
    <3>. QED BY <1>2, <2>2, <3>1, <3>2
  <2>. QED BY <2>1, <2>2
<1>. QED BY <1>2, <1>3, SeqEqual

\* Short tuples joined.
LEMMA Joined ==
  ASSUME NEW a, NEW b, NEW c
  PROVE  /\ <<a>> \o <<b>> = <<a, b>>
         /\ <<a>> \o <<b, c>> = <<a, b, c>>
         /\ <<a, b>> \o <<c>> = <<a, b, c>>
<1>. DEFINE S == {a, b, c}
<1>1. <<a>> \o <<b>> = <<a, b>>
  <2>. DEFINE s == <<a>>
              t == <<b>>
              u == <<a, b>>
  <2>1. s \in Seq(S) /\ t \in Seq(S) /\ u \in Seq(S)
    OBVIOUS
  <2>2. Len(s) = 1 /\ Len(t) = 1 /\ Len(u) = 2
    OBVIOUS
  <2>3. \A i \in 1 .. 1 : u[i] = s[i]
    OBVIOUS
  <2>4. \A i \in 1 .. 1 : u[1 + i] = t[i]
    OBVIOUS
  <2>. HIDE DEF S, s, t, u
  <2>5. /\ Len(u) = Len(s) + Len(t)
        /\ \A i \in 1 .. Len(s) : u[i] = s[i]
        /\ \A i \in 1 .. Len(t) : u[Len(s) + i] = t[i]
    BY <2>2, <2>3, <2>4
  <2>6. s \o t = u
    BY ONLY <2>1, <2>5, Join
  <2>. QED BY <2>6 DEF s, t, u
<1>2. <<a>> \o <<b, c>> = <<a, b, c>>
  <2>. DEFINE s == <<a>>
              t == <<b, c>>
              u == <<a, b, c>>
  <2>1. s \in Seq(S) /\ t \in Seq(S) /\ u \in Seq(S)
    OBVIOUS
  <2>2. Len(s) = 1 /\ Len(t) = 2 /\ Len(u) = 3
    OBVIOUS
  <2>3. \A i \in 1 .. 1 : u[i] = s[i]
    OBVIOUS
  <2>4. \A i \in 1 .. 2 : u[1 + i] = t[i]
    OBVIOUS
  <2>. HIDE DEF S, s, t, u
  <2>5. /\ Len(u) = Len(s) + Len(t)
        /\ \A i \in 1 .. Len(s) : u[i] = s[i]
        /\ \A i \in 1 .. Len(t) : u[Len(s) + i] = t[i]
    BY <2>2, <2>3, <2>4
  <2>6. s \o t = u
    BY ONLY <2>1, <2>5, Join
  <2>. QED BY <2>6 DEF s, t, u
<1>3. <<a, b>> \o <<c>> = <<a, b, c>>
  <2>. DEFINE s == <<a, b>>
              t == <<c>>
              u == <<a, b, c>>
  <2>1. s \in Seq(S) /\ t \in Seq(S) /\ u \in Seq(S)
    OBVIOUS
  <2>2. Len(s) = 2 /\ Len(t) = 1 /\ Len(u) = 3
    OBVIOUS
  <2>3. \A i \in 1 .. 2 : u[i] = s[i]
    OBVIOUS
  <2>4. \A i \in 1 .. 1 : u[2 + i] = t[i]
    OBVIOUS
  <2>. HIDE DEF S, s, t, u
  <2>5. /\ Len(u) = Len(s) + Len(t)
        /\ \A i \in 1 .. Len(s) : u[i] = s[i]
        /\ \A i \in 1 .. Len(t) : u[Len(s) + i] = t[i]
    BY <2>2, <2>3, <2>4
  <2>6. s \o t = u
    BY ONLY <2>1, <2>5, Join
  <2>. QED BY <2>6 DEF s, t, u
<1>. QED BY <1>1, <1>2, <1>3

\* A pair made of two parts, and another pair.
LEMMA JoinedFour ==
  ASSUME NEW a, NEW b, NEW c, NEW d
  PROVE  (<<a>> \o <<b>>) \o <<c, d>> = <<a, b, c, d>>
<1>. DEFINE S == {a, b, c, d}
<1>1. <<a, b>> \o <<c, d>> = <<a, b, c, d>>
  <2>. DEFINE s == <<a, b>>
              t == <<c, d>>
              u == <<a, b, c, d>>
  <2>1. s \in Seq(S) /\ t \in Seq(S) /\ u \in Seq(S)
    OBVIOUS
  <2>2. Len(s) = 2 /\ Len(t) = 2 /\ Len(u) = 4
    OBVIOUS
  <2>3. \A i \in 1 .. 2 : u[i] = s[i]
    OBVIOUS
  <2>4. \A i \in 1 .. 2 : u[2 + i] = t[i]
    OBVIOUS
  <2>. HIDE DEF S, s, t, u
  <2>5. /\ Len(u) = Len(s) + Len(t)
        /\ \A i \in 1 .. Len(s) : u[i] = s[i]
        /\ \A i \in 1 .. Len(t) : u[Len(s) + i] = t[i]
    BY <2>2, <2>3, <2>4
  <2>6. s \o t = u
    BY ONLY <2>1, <2>5, Join
  <2>. QED BY <2>6 DEF s, t, u
<1>2. <<a>> \o <<b>> = <<a, b>>
  BY Joined
<1>. QED BY ONLY <1>1, <1>2

\* Three operations, and the two commits.
LEMMA JoinedFive ==
  ASSUME NEW a, NEW b, NEW c, NEW d, NEW e
  PROVE  (<<a, b>> \o <<c>>) \o <<d, e>> = <<a, b, c, d, e>>
<1>. DEFINE S == {a, b, c, d, e}
<1>1. <<a, b, c>> \o <<d, e>> = <<a, b, c, d, e>>
  <2>. DEFINE s == <<a, b, c>>
              t == <<d, e>>
              u == <<a, b, c, d, e>>
  <2>1. s \in Seq(S) /\ t \in Seq(S) /\ u \in Seq(S)
    OBVIOUS
  <2>2. Len(s) = 3 /\ Len(t) = 2 /\ Len(u) = 5
    OBVIOUS
  <2>3. \A i \in 1 .. 3 : u[i] = s[i]
    OBVIOUS
  <2>4. \A i \in 1 .. 2 : u[3 + i] = t[i]
    OBVIOUS
  <2>. HIDE DEF S, s, t, u
  <2>5. /\ Len(u) = Len(s) + Len(t)
        /\ \A i \in 1 .. Len(s) : u[i] = s[i]
        /\ \A i \in 1 .. Len(t) : u[Len(s) + i] = t[i]
    BY <2>2, <2>3, <2>4
  <2>6. s \o t = u
    BY ONLY <2>1, <2>5, Join
  <2>. QED BY <2>6 DEF s, t, u
<1>2. <<a, b>> \o <<c>> = <<a, b, c>>
  BY Joined
<1>. QED BY ONLY <1>1, <1>2

\* InOrder(), for each set of writers there can be.
LEMMA Ordered ==
  ASSUME NEW op
  PROVE  /\ InOrder(op, {"int"}) = <<I(op)>>
         /\ InOrder(op, {"zeta"}) = <<Z(op)>>
         /\ InOrder(op, {"int", "zeta"}) = <<I(op), Z(op)>>
<1>1. InOrder(op, {"int"}) = <<I(op)>> \o <<>>
  BY DEF InOrder, I
<1>2. InOrder(op, {"zeta"}) = <<>> \o <<Z(op)>>
  BY DEF InOrder, Z
<1>3. InOrder(op, {"int", "zeta"}) = <<I(op)>> \o <<Z(op)>>
  BY DEF InOrder, I, Z
<1>. QED BY <1>1, <1>2, <1>3, Joined

\* CloseAndCommit(), for each set of writers there can be.
LEMMA Closing ==
  /\ CloseAndCommit({"int"}) = <<I("check"), I("commit")>>
  /\ CloseAndCommit({"zeta"}) = <<Z("check"), Z("commit")>>
  /\ CloseAndCommit({"int", "zeta"}) =
       <<I("check"), Z("check"), I("synchronize"), I("commit"), Z("commit")>>
<1>1. Cardinality({"int"}) = 1 /\ Cardinality({"zeta"}) = 1
  BY FS_Singleton
<1>2. Cardinality({"int", "zeta"}) = 2
  <2>1. {"int", "zeta"} = {"int"} \cup {"zeta"}
    OBVIOUS
  <2>2. IsFiniteSet({"int"}) /\ "zeta" \notin {"int"}
    BY FS_Singleton
  <2>3. Cardinality({"int"} \cup {"zeta"}) = Cardinality({"int"}) + 1
    BY <2>2, FS_AddElement
  <2>. QED BY <1>1, <2>1, <2>3
<1>3. CloseAndCommit({"int"}) = (<<I("check")>> \o <<>>) \o <<I("commit")>>
  <2>1. Synchronization({"int"}) = <<>>
    BY <1>1 DEF Synchronization
  <2>. QED BY <2>1, Ordered DEF CloseAndCommit
<1>4. CloseAndCommit({"zeta"}) = (<<Z("check")>> \o <<>>) \o <<Z("commit")>>
  <2>1. Synchronization({"zeta"}) = <<>>
    BY <1>1 DEF Synchronization
  <2>. QED BY <2>1, Ordered DEF CloseAndCommit
<1>5. CloseAndCommit({"int", "zeta"}) =
        (<<I("check"), Z("check")>> \o <<I("synchronize")>>)
          \o <<I("commit"), Z("commit")>>
  <2>1. Synchronization({"int", "zeta"}) = <<I("synchronize")>>
    BY <1>2 DEF Synchronization, I
  <2>. QED BY <2>1, Ordered DEF CloseAndCommit
<1>6. \A a, b : (<<a>> \o <<>>) \o <<b>> = <<a, b>>
  <2>1. \A a : <<a>> \o <<>> = <<a>>
    OBVIOUS
  <2>. QED BY <2>1, Joined
<1>7. CloseAndCommit({"int", "zeta"}) =
         <<I("check"), Z("check"), I("synchronize"), I("commit"), Z("commit")>>
  BY <1>5, JoinedFive
<1>8. CloseAndCommit({"int"}) = <<I("check"), I("commit")>>
  BY <1>3, <1>6
<1>9. CloseAndCommit({"zeta"}) = <<Z("check"), Z("commit")>>
  BY <1>4, <1>6
<1>. QED BY <1>7, <1>8, <1>9
-----------------------------------------------------------------------------
(* The invariant                                                           *)

\* What the writers of s hold after its container has been checked.
Checked(s) ==
  /\ Fixed(container[current][s], missing[s])
  /\ failed[s] \subseteq missing[s]
  /\ missing[s] # {} => fail[s]

Lacking(s) == (missing["int"] \cup missing["zeta"]) \ missing[s]

Fresh ==
  /\ missing = NoWriters
  /\ \A s \in Streams : record[current][s].state = "open"

\* The stages of the master's program, with what holds in each.
Registering ==
  /\ \/ /\ Paired /\ program = <<I("register"), Z("register"), I("work")>>
        /\ registered[current] = {}
     \/ /\ Paired /\ program = <<Z("register"), I("work")>>
        /\ registered[current] = {"int"}
     \/ /\ ~Paired /\ program = <<I("register"), I("work")>>
        /\ registered[current] = {}
  /\ Fresh

AtWork == program = <<I("work")>> /\ registered[current] = Streams /\ Fresh

ClosingPair ==
  /\ Paired /\ registered[current] = Streams
  /\ \/ /\ program = <<I("check"), Z("check"), I("synchronize"), I("commit"), Z("commit")>>
        /\ missing = NoWriters
     \/ /\ program = <<Z("check"), I("synchronize"), I("commit"), Z("commit")>>
        /\ Checked("int") /\ missing["zeta"] = {}
     \/ /\ Checked("int") /\ Checked("zeta")
        /\ \/ program = <<I("synchronize"), I("commit"), Z("commit")>>
           \/ program = <<Recheck("int", Lacking("int")), Recheck("zeta", Lacking("zeta")),
                          I("commit"), Z("commit")>>
           \/ /\ program = <<Recheck("int", Lacking("int")), I("commit"), Z("commit")>>
              /\ Lacking("zeta") = {}
           \/ /\ program = <<Recheck("zeta", Lacking("zeta")), I("commit"), Z("commit")>>
              /\ Lacking("int") = {}
           \/ /\ program = <<I("commit"), Z("commit")>>
              /\ missing["int"] = missing["zeta"]

ClosingOne ==
  \E s \in Streams :
    /\ registered[current] = {s}
    /\ \/ /\ program = <<Op("check", s), Op("commit", s)>>
          /\ missing[s] = {} /\ (s = "zeta" => failed[s] = {})
       \/ program = <<Op("commit", s)>> /\ Checked(s)

Aborting ==
  \/ /\ Fresh /\ registered[current] = Streams
     /\ program = IF Paired THEN <<I("abort"), Z("abort")>> ELSE <<I("abort")>>
  \/ /\ Paired /\ registered[current] = {"zeta"} /\ program = <<Z("abort")>>
     /\ record[current]["int"].state = "rejected"
     /\ record[current]["zeta"].state = "open"

Stage ==
  \/ program = <<>>
  \/ /\ current \in 1 .. runs
     /\ Registering \/ AtWork \/ ClosingPair \/ ClosingOne \/ Aborting

\* What is on disk of a group that is not being written.
Unused(r) ==
  r > runs => /\ registered[r] = {} /\ seed[r] = 0
              /\ \A s \in Streams : record[r][s].state = "none"

Sound(r) ==
  \A s \in Streams : Committed(r, s) =>
    /\ s \notin registered[r]
    /\ Fixed(container[r][s], record[r][s].missing)
    /\ record[r][s].missing # {} => record[r][s].fail

\* The integration is committed first; what is then left to recovery, or to
\* the second commit, will be found to miss the same serials.
Matched(r) ==
  Paired =>
    /\ "int" \in registered[r] => ~Committed(r, "zeta")
    /\ "zeta" \in registered[r] =>
         \/ "int" \in registered[r] \/ record[r]["int"].state = "rejected"
         \/ /\ Committed(r, "int")
            /\ MissingSerials(container[r]["zeta"], {}) = record[r]["int"].missing
    /\ Committed(r, "int") /\ Committed(r, "zeta") =>
         record[r]["int"].missing = record[r]["zeta"].missing

\* No check finds anything of a seed missing.
Seeded(r) ==
  seed[r] # 0 =>
    /\ seed[r] \in Runs /\ Seedable(seed[r])
    /\ \A s \in Streams :
         MissingSerials(container[r][s], {}) \cap Held(seed[r], s) = {}

OnDisk == \A r \in Runs : Unused(r) /\ Sound(r) /\ Matched(r) /\ Seeded(r)

\* The slaves work only while the master does, and never on what a seed has.
Slaving ==
  /\ AtWork \/ \A w \in Slaves : doing[w] = None
  /\ AtWork \/ Registering \/ todo = {}
  /\ program # <<>> /\ seed[current] # 0 =>
       /\ \A s \in Streams : failed[s] \cap Held(seed[current], s) = {}
       /\ todo \cap Held(seed[current], "int") = {}
       /\ \A w \in Slaves : doing[w] \notin Held(seed[current], "int")

IInv == TypeOK /\ Stage /\ OnDisk /\ Slaving

-----------------------------------------------------------------------------
(* Consequences of the invariant                                           *)

\* There is an integration stream, and a zeta stream if the task is paired.
LEMMA StreamTypes ==
  /\ Streams = IF Paired THEN {"int", "zeta"} ELSE {"int"}
  /\ "int" \in Streams /\ (Paired <=> "zeta" \in Streams)
  /\ \A s \in Streams : s = "int" \/ s = "zeta"
  /\ Paired \in BOOLEAN
BY BoundsAssumption DEF Streams

\* The stage tells the operation in hand, and the other way round.
LEMMA StageTells ==
  ASSUME Stage
  PROVE  /\ ~Idle => current \in 1 .. runs
         /\ Doing("register") => Registering
         /\ Working => AtWork
         /\ Doing("check") \/ Doing("synchronize") \/ Doing("recheck") \/ Doing("commit")
              => ClosingPair \/ ClosingOne
         /\ Doing("abort") => Aborting
<1>1. ~Idle => current \in 1 .. runs
  BY DEF Stage, Idle
<1>2. Registering => Head(program).op = "register"
  BY DEF Registering, I, Z, Op
<1>3. AtWork => Head(program).op = "work"
  BY DEF AtWork, I, Op
<1>4. ClosingPair => Head(program).op \in {"check", "synchronize", "recheck", "commit"}
  BY DEF ClosingPair, I, Z, Op, Recheck
<1>5. ClosingOne => Head(program).op \in {"check", "commit"}
  BY DEF ClosingOne, Op
<1>6. Aborting => Head(program).op = "abort"
  BY DEF Aborting, I, Z, Op
<1>. QED BY <1>1, <1>2, <1>3, <1>4, <1>5, <1>6 DEF Stage, Idle, Doing, Working

\* A group that is being written is nobody's seed.
LEMMA NotASeed ==
  ASSUME TypeOK, OnDisk, NEW c \in Runs
  PROVE  /\ registered[c] # {} => ~Seedable(c)
         /\ c > runs => ~Seedable(c)
         /\ (\E s \in Streams : record[c][s].state # "committed") => ~Seedable(c)
<1>1. registered[c] # {} => ~Seedable(c)
  BY DEF TypeOK, OnDisk, Sound, Seedable, Committed
<1>2. c > runs => ~Seedable(c)
  BY StreamTypes DEF OnDisk, Unused, Seedable
<1>. QED BY <1>1, <1>2 DEF Seedable

\* What a step on group c leaves alone.
OnlyGroup(c) ==
  /\ runs' \in {runs, runs + 1}
  /\ \A r \in Runs \ {c} : /\ container'[r] = container[r]
                           /\ registered'[r] = registered[r]
                           /\ record'[r] = record[r]
                           /\ seed'[r] = seed[r]

\* Groups a step leaves alone stay as they are on disk.
LEMMA OthersOnDisk ==
  ASSUME TypeOK, OnDisk, NEW c \in Runs, ~Seedable(c), OnlyGroup(c), NEW r \in Runs, r # c
  PROVE  (Unused(r) /\ Sound(r) /\ Matched(r) /\ Seeded(r))'
<1>1. Unused(r) /\ Sound(r) /\ Matched(r) /\ Seeded(r)
  BY DEF OnDisk
<1>2. /\ container'[r] = container[r] /\ registered'[r] = registered[r]
      /\ record'[r] = record[r] /\ seed'[r] = seed[r]
  BY DEF OnlyGroup
<1>3. r > runs' => r > runs
  BY DEF OnlyGroup, TypeOK, Runs
<1>4. Unused(r)' /\ Sound(r)' /\ Matched(r)'
  BY <1>1, <1>2, <1>3 DEF Unused, Sound, Matched, Committed
<1>5. ASSUME seed[r] # 0 PROVE Seeded(r)'
  <2>1. /\ container'[seed[r]] = container[seed[r]]
        /\ record'[seed[r]] = record[seed[r]]
    BY <1>1, <1>5 DEF Seeded, OnlyGroup
  <2>. QED BY <1>1, <1>2, <1>5, <2>1 DEF Seeded, Seedable, Held
<1>. QED BY <1>2, <1>4, <1>5 DEF Seeded

\* A group is seeded if nothing of the seed is missing.
LEMMA SeededStays ==
  ASSUME TypeOK, OnDisk, NEW c \in Runs, ~Seedable(c), OnlyGroup(c),
         seed'[c] # 0 =>
           /\ seed'[c] \in Runs /\ Seedable(seed'[c])
           /\ \A s \in Streams :
                MissingSerials(container'[c][s], {}) \cap Held(seed'[c], s) = {}
  PROVE  Seeded(c)'
<1>. SUFFICES ASSUME seed'[c] # 0 PROVE Seeded(c)'
  BY DEF Seeded
<1>. PICK q \in Runs : q = seed'[c]
  OBVIOUS
<1>1. q # c /\ container'[q] = container[q] /\ record'[q] = record[q]
  BY DEF OnlyGroup
<1>2. Seedable(q)'
  BY <1>1 DEF Seedable
<1>3. \A s \in Streams : Held(q, s)' = Held(q, s)
  BY <1>1 DEF Held
<1>. QED BY <1>2, <1>3 DEF Seeded, Held

\* The groups of a seed hold the same configurations.
LEMMA SeedHeld ==
  ASSUME TypeOK, OnDisk, NEW q \in Runs, Seedable(q), NEW s \in Streams, NEW t \in Streams
  PROVE  /\ Held(q, s) = Held(q, t) /\ Held(q, s) \subseteq Configs
         /\ record[q][s].missing = Configs \ Held(q, s)
<1>1. ASSUME NEW u \in Streams PROVE Held(q, u) \subseteq Configs
  <2>1. container[q][u] \subseteq AllRows
    BY DEF TypeOK
  <2>. QED BY <2>1, PresentTypes DEF Held
<1>2. \A u \in Streams : record[q][u].missing = Configs \ Held(q, u)
  BY DEF OnDisk, Sound, Seedable, Committed, Fixed, Held
<1>3. record[q][s].missing = record[q][t].missing
  BY DEF Seedable
<1>. QED BY <1>1, <1>2, <1>3

-----------------------------------------------------------------------------
(* The slaves                                                              *)

Batch == [Streams -> SUBSET AllRows]
Containers == Seq([to : Streams, rows : SUBSET AllRows])

\* Sequences of no element, and of one.
LEMMA Single ==
  ASSUME NEW S, NEW a \in S
  PROVE  <<>> \in Seq(S) /\ <<a>> \in Seq(S)
OBVIOUS

\* Announced containers join the queue.
LEMMA Announced ==
  ASSUME aggregations \in Containers, NEW held \in Batch, NEW streams \in SUBSET Streams
  PROVE  aggregations \o Container("int", held, streams)
                      \o Container("zeta", held, streams) \in Containers
<1>1. ASSUME NEW s PROVE Container(s, held, streams) \in Containers
  <2>1. CASE s \in streams
    <3>1. [to |-> s, rows |-> held[s]] \in [to : Streams, rows : SUBSET AllRows]
      BY <2>1 DEF Batch
    <3>2. <<>> \in Containers /\ <<[to |-> s, rows |-> held[s]]>> \in Containers
      BY <3>1, Single DEF Containers
    <3>. QED BY <2>1, <3>2 DEF Container
  <2>2. CASE s \notin streams
    BY <2>2 DEF Container, Containers
  <2>. QED BY <2>1, <2>2
<1>2. aggregations \o Container("int", held, streams) \in Containers
  BY <1>1, ConcatProperties DEF Containers
<1>. QED BY <1>1, <1>2, ConcatProperties DEF Containers

\* What is on disk stays so when nothing is written.
LEMMA DiskStays ==
  ASSUME OnDisk, UNCHANGED diskVars
  PROVE  OnDisk'
<1>. SUFFICES ASSUME NEW r \in Runs
              PROVE  (Unused(r) /\ Sound(r) /\ Matched(r) /\ Seeded(r))'
  BY DEF OnDisk
<1>1. Unused(r) /\ Sound(r) /\ Matched(r) /\ Seeded(r)
  BY DEF OnDisk
<1>2. Unused(r)' /\ Sound(r)' /\ Matched(r)'
  BY <1>1 DEF Unused, Sound, Matched, Committed, diskVars
<1>3. Seeded(r)'
  BY <1>1 DEF Seeded, Seedable, Held, diskVars
<1>. QED BY <1>2, <1>3

\* Steps of the slaves leave the master's stage, and the disk, alone.
LEMMA WorkStep ==
  ASSUME IInv, AtWork, current \in 1 .. runs,
         UNCHANGED <<diskVars, program, current, missing>>
  PROVE  AtWork' /\ Stage' /\ OnDisk'
<1>1. AtWork'
  BY DEF AtWork, Fresh, diskVars
<1>2. Stage'
  BY <1>1 DEF Stage, diskVars
<1>3. OnDisk'
  BY DiskStays DEF IInv, diskVars
<1>. QED BY <1>1, <1>2, <1>3

\* A slave at work on a configuration.
LEMMA Busy ==
  ASSUME IInv, NEW w \in Slaves, doing[w] # None
  PROVE  AtWork /\ current \in 1 .. runs /\ doing[w] \in Configs
<1>1. AtWork /\ doing[w] \in Configs
  BY DEF IInv, Slaving, TypeOK
<1>. QED BY <1>1 DEF AtWork, IInv, Stage

\* What a slave must keep to: it takes up, and fails, nothing of a seed.
LEMMA SlavingStays ==
  ASSUME IInv, AtWork', UNCHANGED <<program, current, seed, container>>,
         todo' \subseteq todo,
         \A w \in Slaves : doing'[w] \in todo \cup {doing[w], None},
         \A s \in Streams : failed'[s] \subseteq failed[s] \cup {doing[w] : w \in Slaves},
         failed'["int"] \subseteq Configs,
         Paired => failed'["zeta"] = failed["zeta"]
  PROVE  Slaving'
<1>. SUFFICES ASSUME program # <<>>, seed[current] # 0
              PROVE  /\ \A s \in Streams : failed'[s] \cap Held(seed[current], s) = {}
                     /\ todo' \cap Held(seed[current], "int") = {}
                     /\ \A w \in Slaves : doing'[w] \notin Held(seed[current], "int")
  BY DEF Slaving, Held
<1>1. seed[current] \in Runs
  BY DEF IInv, Stage, OnDisk, Seeded, TypeOK, Runs
<1>2. Held(seed[current], "int") \subseteq Configs
  <2>1. container[seed[current]]["int"] \subseteq AllRows
    BY <1>1, StreamTypes DEF IInv, TypeOK
  <2>. QED BY <2>1, PresentTypes DEF Held
<1>3. /\ \A s \in Streams : failed[s] \cap Held(seed[current], s) = {}
      /\ todo \cap Held(seed[current], "int") = {}
      /\ \A w \in Slaves : doing[w] \notin Held(seed[current], "int")
  BY DEF IInv, Slaving
<1>4. None \notin Held(seed[current], "int")
  BY <1>2, ConfigsAssumption
<1>. QED BY <1>3, <1>4, StreamTypes

\* StartConfiguration keeps the invariant: the serial comes from the queue.
LEMMA StartStep ==
  ASSUME IInv, NEW w \in Slaves, NEW c \in Configs, StartConfiguration(w, c)
  PROVE  IInv'
<1>1. AtWork /\ current \in 1 .. runs
  BY StageTells DEF IInv, StartConfiguration, Working, Doing
<1>2. AtWork' /\ Stage' /\ OnDisk'
  BY <1>1, WorkStep DEF StartConfiguration, writerVars
<1>3. TypeOK'
  BY BoundsAssumption DEF IInv, TypeOK, StartConfiguration, diskVars, writerVars
<1>4. UNCHANGED <<program, current, seed, container, failed>> /\ todo' \subseteq todo
  BY DEF StartConfiguration, diskVars, writerVars
<1>5. \A v \in Slaves : doing'[v] \in todo \cup {doing[v], None}
  BY DEF IInv, TypeOK, StartConfiguration
<1>6. failed["int"] \subseteq Configs
  BY StreamTypes DEF IInv, TypeOK
<1>7. Slaving'
  BY <1>2, <1>4, <1>5, <1>6, SlavingStays
<1>. QED BY <1>2, <1>3, <1>7 DEF IInv

\* Steps in which a slave takes up nothing new and nothing fails.
LEMMA QuietStep ==
  ASSUME IInv, AtWork', UNCHANGED <<diskVars, program, current, writerVars, todo>>,
         \A v \in Slaves : doing'[v] \in {doing[v], None}
  PROVE  Slaving'
<1>1. UNCHANGED <<program, current, seed, container, failed, todo>>
  BY DEF diskVars, writerVars
<1>2. failed["int"] \subseteq Configs
  BY StreamTypes DEF IInv, TypeOK
<1>3. \A v \in Slaves : doing'[v] \in todo \cup {doing[v], None}
  OBVIOUS
<1>. QED BY <1>1, <1>2, <1>3, SlavingStays

\* Flushing keeps types.
LEMMA FlushTypes ==
  ASSUME TypeOK, NEW w \in Slaves, NEW held \in Batch, NEW streams \in SUBSET Streams,
         Flush(w, held, streams)
  PROVE  aggregations' \in Containers /\ cache' \in [Slaves -> Batch]
<1>1. aggregations \in Containers /\ cache \in [Slaves -> Batch]
  BY DEF TypeOK, Containers, Batch
<1>2. [s \in Streams |-> IF s \in streams THEN {} ELSE held[s]] \in Batch
  BY DEF Batch
<1>3. aggregations' \in Containers
  BY <1>1, Announced DEF Flush
<1>4. cache' \in [Slaves -> Batch]
  BY <1>1, <1>2 DEF Flush
<1>. QED BY <1>3, <1>4

\* PushSample keeps the invariant.
LEMMA PushStep ==
  ASSUME IInv, NEW w \in Slaves, NEW full \in SUBSET Streams, PushSample(w, full)
  PROVE  IInv'
<1>1. AtWork /\ current \in 1 .. runs /\ doing[w] \in Configs
  BY Busy DEF PushSample
<1>2. UNCHANGED <<diskVars, program, current, writerVars, todo, doing, level>>
  BY DEF PushSample
<1>3. AtWork' /\ Stage' /\ OnDisk'
  BY <1>1, <1>2, WorkStep DEF writerVars
<1>4. Slaving'
  BY <1>2, <1>3, QuietStep
<1>. DEFINE held == [s \in Streams |-> cache[w][s] \cup RowsAt(doing[w], pushed[w] + 1)]
<1>5. pushed[w] \in 0 .. Samples /\ pushed[w] + 1 \in 1 .. Samples
  BY BoundsAssumption DEF IInv, TypeOK, PushSample
<1>6. RowsAt(doing[w], pushed[w] + 1) \subseteq AllRows
  BY <1>1, <1>5, RowTypes
<1>7. held \in Batch
  BY <1>6 DEF IInv, TypeOK, Batch
<1>8. Flush(w, held, {})
  BY DEF PushSample, FlushedByPush
<1>9. aggregations' \in Containers /\ cache' \in [Slaves -> Batch]
  <2>. HIDE DEF held
  <2>. QED BY <1>7, <1>8, FlushTypes DEF IInv
<1>10. pushed' \in [Slaves -> 0 .. Samples]
  BY <1>5, BoundsAssumption DEF IInv, TypeOK, PushSample
<1>11. TypeOK'
  BY <1>2, <1>9, <1>10 DEF IInv, TypeOK, diskVars, writerVars, Containers, Batch
<1>. QED BY <1>3, <1>4, <1>11 DEF IInv

\* Refine keeps the invariant: the guard bounds the level.
LEMMA RefineStep ==
  ASSUME IInv, NEW w \in Slaves, Refine(w)
  PROVE  IInv'
<1>1. AtWork /\ current \in 1 .. runs
  BY Busy DEF Refine
<1>2. UNCHANGED <<diskVars, program, current, writerVars, todo, aggregations, doing>>
  BY DEF Refine
<1>3. AtWork' /\ Stage' /\ OnDisk'
  BY <1>1, <1>2, WorkStep DEF writerVars
<1>4. Slaving'
  BY <1>2, <1>3, QuietStep
<1>5. cache' \in [Slaves -> [Streams -> SUBSET AllRows]]
  <2>1. Unbatched(cache[w], doing[w]) \in [Streams -> SUBSET AllRows]
    BY DEF IInv, TypeOK, Unbatched
  <2>. QED BY <2>1 DEF IInv, TypeOK, Refine
<1>6. /\ level' \in [Slaves -> 0 .. MaxRefinements + 1]
      /\ pushed' \in [Slaves -> 0 .. Samples]
  BY BoundsAssumption DEF IInv, TypeOK, Refine, MeshAllowed
<1>7. TypeOK'
  BY <1>2, <1>5, <1>6 DEF IInv, TypeOK, diskVars, writerVars
<1>. QED BY <1>3, <1>4, <1>7 DEF IInv

\* Succeed keeps the invariant.
LEMMA SucceedStep ==
  ASSUME IInv, NEW w \in Slaves, NEW streams \in SUBSET Streams, Succeed(w, streams)
  PROVE  IInv'
<1>1. AtWork /\ current \in 1 .. runs
  BY Busy DEF Succeed
<1>2. UNCHANGED <<diskVars, program, current, writerVars, todo, pushed, level>>
  BY DEF Succeed
<1>3. AtWork' /\ Stage' /\ OnDisk'
  BY <1>1, <1>2, WorkStep DEF writerVars
<1>4. \A v \in Slaves : doing'[v] \in {doing[v], None}
  BY DEF IInv, TypeOK, Succeed
<1>5. Slaving'
  BY <1>2, <1>3, <1>4, QuietStep
<1>6. cache[w] \in Batch /\ Flush(w, cache[w], streams)
  BY DEF IInv, TypeOK, Batch, Succeed
<1>7. aggregations' \in Containers /\ cache' \in [Slaves -> Batch]
  BY <1>6, FlushTypes DEF IInv
<1>8. doing' \in [Slaves -> Configs \cup {None}]
  BY DEF IInv, TypeOK, Succeed
<1>9. TypeOK'
  BY <1>2, <1>7, <1>8 DEF IInv, TypeOK, diskVars, writerVars, Containers, Batch
<1>. QED BY <1>3, <1>5, <1>9 DEF IInv

\* CloseBatchers keeps the invariant.
LEMMA CloseStep ==
  ASSUME IInv, NEW w \in Slaves, CloseBatchers(w)
  PROVE  IInv'
<1>1. AtWork /\ current \in 1 .. runs
  BY StageTells DEF IInv, CloseBatchers, Working, Doing
<1>2. UNCHANGED <<diskVars, program, current, writerVars, todo, doing, pushed, level>>
  BY DEF CloseBatchers
<1>3. AtWork' /\ Stage' /\ OnDisk'
  BY <1>1, <1>2, WorkStep DEF writerVars
<1>4. Slaving'
  BY <1>2, <1>3, QuietStep
<1>5. cache[w] \in Batch /\ Flush(w, cache[w], Streams)
  BY DEF IInv, TypeOK, Batch, CloseBatchers
<1>6. aggregations' \in Containers /\ cache' \in [Slaves -> Batch]
  BY <1>5, FlushTypes DEF IInv
<1>7. TypeOK'
  BY <1>2, <1>6 DEF IInv, TypeOK, diskVars, writerVars, Containers, Batch
<1>. QED BY <1>3, <1>4, <1>7 DEF IInv

\* Fail keeps the invariant: what fails was taken from the queue.
LEMMA FailStep ==
  ASSUME IInv, NEW w \in Slaves, NEW streams \in SUBSET Streams, Fail(w, streams)
  PROVE  IInv'
<1>1. AtWork /\ current \in 1 .. runs /\ doing[w] \in Configs
  BY Busy DEF Fail
<1>2. UNCHANGED <<diskVars, program, current, missing, todo, pushed, level>>
  BY DEF Fail
<1>3. AtWork' /\ Stage' /\ OnDisk'
  BY <1>1, <1>2, WorkStep
<1>4. failed' = [failed EXCEPT !["int"] = @ \cup {doing[w]}]
  BY DEF Fail, FailuresMerged
<1>5. failed' \in [Streams -> SUBSET Configs]
  BY <1>1, <1>4 DEF IInv, TypeOK
<1>6. Slaving'
  <2>1. \A v \in Slaves : doing'[v] \in todo \cup {doing[v], None}
    BY DEF IInv, TypeOK, Fail
  <2>2. \A s \in Streams : failed'[s] \subseteq failed[s] \cup {doing[v] : v \in Slaves}
    BY <1>4, StreamTypes DEF IInv, TypeOK
  <2>3. failed'["int"] \subseteq Configs
    BY <1>5, StreamTypes
  <2>4. Paired => failed'["zeta"] = failed["zeta"]
    BY <1>4, StreamTypes DEF IInv, TypeOK
  <2>5. UNCHANGED <<program, current, seed, container, todo>>
    BY <1>2 DEF diskVars
  <2>. QED BY <1>3, <2>1, <2>2, <2>3, <2>4, <2>5, SlavingStays
<1>7. cache[w] \in Batch /\ Unbatched(cache[w], doing[w]) \in Batch
  BY DEF IInv, TypeOK, Batch, Unbatched
<1>8. aggregations' \in Containers
  BY <1>7, Announced DEF IInv, TypeOK, Containers, Batch, Fail
<1>9. cache' \in [Slaves -> Batch]
  <2>. DEFINE rest == [s \in Streams |->
                         IF s \in streams THEN {} ELSE Unbatched(cache[w], doing[w])[s]]
  <2>1. rest \in Batch
    BY <1>7 DEF Batch
  <2>2. cache' = [cache EXCEPT ![w] = rest]
    BY DEF Fail
  <2>. QED BY <2>1, <2>2 DEF IInv, TypeOK, Batch
<1>10. fail' \in [Streams -> BOOLEAN]
  BY DEF IInv, TypeOK, Fail
<1>11. doing' \in [Slaves -> Configs \cup {None}]
  BY DEF IInv, TypeOK, Fail
<1>12. TypeOK'
  BY <1>2, <1>5, <1>8, <1>9, <1>10, <1>11 DEF IInv, TypeOK, diskVars, Containers, Batch
<1>. QED BY <1>3, <1>6, <1>12 DEF IInv

-----------------------------------------------------------------------------
(* The master at work                                                      *)

\* The slaves' part of the invariant when the master moves on.
LEMMA Resting ==
  ASSUME IInv, UNCHANGED <<todo, seed, current>>, program # <<>>,
         AtWork' \/ \A w \in Slaves : doing'[w] = None,
         AtWork' \/ Registering' \/ todo' = {},
         \A w \in Slaves : doing'[w] = doing[w] \/ doing'[w] = None,
         seed[current] # 0 =>
           /\ container'[seed[current]] = container[seed[current]]
           /\ \A s \in Streams : failed'[s] \cap Held(seed[current], s) = {}
  PROVE  Slaving'
<1>. SUFFICES ASSUME seed[current] # 0
              PROVE  /\ \A s \in Streams : failed'[s] \cap Held(seed[current], s) = {}
                     /\ todo \cap Held(seed[current], "int") = {}
                     /\ \A w \in Slaves : doing'[w] \notin Held(seed[current], "int")
  BY DEF Slaving, Held
<1>1. seed[current] \in Runs
  BY DEF IInv, Stage, OnDisk, Seeded, TypeOK, Runs
<1>2. Held(seed[current], "int") \subseteq Configs
  <2>1. container[seed[current]]["int"] \subseteq AllRows
    BY <1>1, StreamTypes DEF IInv, TypeOK
  <2>. QED BY <2>1, PresentTypes DEF Held
<1>3. None \notin Held(seed[current], "int")
  BY <1>2, ConfigsAssumption
<1>. QED BY <1>3 DEF IInv, Slaving

\* A step on one group has that group alone to account for.
LEMMA OnDiskByGroup ==
  ASSUME TypeOK, OnDisk, NEW c \in Runs, ~Seedable(c), OnlyGroup(c),
         (Unused(c) /\ Sound(c) /\ Matched(c) /\ Seeded(c))'
  PROVE  OnDisk'
<1>1. \A r \in Runs \ {c} : (Unused(r) /\ Sound(r) /\ Matched(r) /\ Seeded(r))'
  BY OthersOnDisk
<1>. QED BY <1>1 DEF OnDisk, Runs

\* The operations of the program are operations.
LEMMA OperationTypes ==
  /\ \A op \in {"register", "work", "check", "synchronize", "recheck", "commit", "abort"},
        s \in Streams : Op(op, s) \in Operation
  /\ \A s \in Streams, cs \in SUBSET Configs : Recheck(s, cs) \in Operation
BY DEF Op, Operation, Recheck

\* The group in hand is one that was created.
LEMMA CurrentRun ==
  ASSUME TypeOK, current \in 1 .. runs
  PROVE  current \in Runs /\ current # 0 /\ ~(current > runs)
BY BoundsAssumption DEF TypeOK, Runs

\* RegisterWriter keeps the invariant.
LEMMA RegisterStep ==
  ASSUME IInv, RegisterWriter
  PROVE  IInv'
<1>1. Registering /\ current \in 1 .. runs
  BY StageTells DEF IInv, RegisterWriter, Doing
<1>. PICK c \in Runs : c = current
  BY <1>1, CurrentRun DEF IInv
<1>2. c \in 1 .. runs /\ ~(c > runs)
  BY <1>1, CurrentRun DEF IInv
<1>3. /\ UNCHANGED <<runs, container, record, seed, current, writerVars, todo,
                     aggregations, slaveVars>>
      /\ registered' = [registered EXCEPT ![c] = @ \cup {OnWriter}]
      /\ program' = Tail(program)
  BY DEF RegisterWriter
<1>4. Registering' \/ AtWork'
  <2>1. registered'[c] = registered[c] \cup {Head(program).on}
    BY <1>2, <1>3 DEF IInv, TypeOK, OnWriter
  <2>2. Fresh'
    BY <1>1, <1>3 DEF Registering, Fresh, writerVars
  <2>3. CASE Paired /\ program = <<I("register"), Z("register"), I("work")>>
             /\ registered[c] = {}
    <3>1. program' = <<Z("register"), I("work")>> /\ registered'[c] = {"int"}
      <4>1. program' = <<Z("register"), I("work")>>
        BY <1>3, <2>3
      <4>2. Head(program).on = "int"
        BY <2>3 DEF I, Op
      <4>. QED BY <2>1, <2>3, <4>1, <4>2
    <3>. QED BY <1>3, <2>2, <2>3, <3>1 DEF Registering
  <2>4. CASE Paired /\ program = <<Z("register"), I("work")>>
             /\ registered[c] = {"int"}
    <3>1. program' = <<I("work")>> /\ registered'[c] = {"int", "zeta"}
      BY <1>3, <2>1, <2>4 DEF Z, Op
    <3>. QED BY <1>3, <2>2, <2>4, <3>1, StreamTypes DEF AtWork
  <2>5. CASE ~Paired /\ program = <<I("register"), I("work")>>
             /\ registered[c] = {}
    <3>1. program' = <<I("work")>> /\ registered'[c] = {"int"}
      BY <1>3, <2>1, <2>5 DEF I, Op
    <3>. QED BY <1>3, <2>2, <2>5, <3>1, StreamTypes DEF AtWork
  <2>. QED BY <1>1, <2>3, <2>4, <2>5 DEF Registering
<1>5. Stage'
  BY <1>1, <1>3, <1>4 DEF Stage
<1>6. TypeOK'
  <2>1. OnWriter \in Streams
    BY <1>1, StreamTypes DEF Registering, OnWriter, I, Z, Op
  <2>2. program' \in Seq(Operation)
    BY <1>1, <1>3, HeadTailProperties DEF Registering, IInv, TypeOK
  <2>3. registered' \in [Runs -> SUBSET Streams]
    BY <1>3, <2>1 DEF IInv, TypeOK
  <2>. QED BY <1>3, <2>2, <2>3 DEF IInv, TypeOK, writerVars, slaveVars
<1>7. OnDisk'
  <2>1. ~Seedable(c)
    BY <1>1, <1>2, NotASeed, StreamTypes DEF Registering, Fresh, IInv
  <2>2. OnlyGroup(c)
    BY <1>2, <1>3 DEF OnlyGroup, IInv, TypeOK
  <2>3. \A s \in Streams : ~Committed(c, s)'
    BY <1>1, <1>3 DEF Registering, Fresh, Committed
  <2>4. Paired /\ "zeta" \in registered'[c] => "int" \in registered'[c]
    BY <1>4, <1>3, StreamTypes DEF Registering, AtWork
  <2>5. Unused(c)' /\ Sound(c)'
    BY <1>2, <1>3, <2>3 DEF Unused, Sound
  <2>6. Matched(c)'
    <3>1. Paired => ~Committed(c, "int")' /\ ~Committed(c, "zeta")'
      BY <2>3, StreamTypes
    <3>. QED BY <2>4, <3>1 DEF Matched
  <2>7. Seeded(c)'
    BY <1>2, <1>3, <2>1, <2>2, SeededStays DEF IInv, OnDisk, Seeded
  <2>. QED BY <1>2, <2>1, <2>2, <2>5, <2>6, <2>7, OnDiskByGroup DEF IInv
<1>8. Slaving'
  <2>1. ~AtWork /\ program # <<>>
    <3>1. Head(program).op = "register"
      BY DEF RegisterWriter, Doing
    <3>2. AtWork => Head(program).op = "work"
      BY DEF AtWork, I, Op
    <3>. QED BY <3>1, <3>2 DEF RegisterWriter, Doing, Idle
  <2>. QED BY <1>3, <1>4, <2>1, Resting DEF IInv, Slaving, slaveVars, writerVars
<1>. QED BY <1>5, <1>6, <1>7, <1>8 DEF IInv

\* Aggregate keeps the invariant: the container only grows.
LEMMA AggregateStep ==
  ASSUME IInv, Aggregate
  PROVE  IInv'
<1>1. AtWork /\ current \in 1 .. runs
  BY StageTells DEF IInv, Aggregate, Working, Doing
<1>. PICK c \in Runs : c = current
  BY <1>1, CurrentRun DEF IInv
<1>2. c \in 1 .. runs /\ ~(c > runs)
  BY <1>1, CurrentRun DEF IInv
<1>3. UNCHANGED <<runs, registered, record, seed, program, current, failed, missing, todo, slaveVars>>
  BY DEF Aggregate
<1>4. /\ Head(aggregations) \in [to : Streams, rows : SUBSET AllRows]
      /\ aggregations' \in Containers
  BY HeadTailProperties DEF IInv, TypeOK, Aggregate, Containers
<1>. PICK k \in [to : Streams, rows : SUBSET AllRows] : k = Head(aggregations)
  BY <1>4
<1>5. /\ container' \in [Runs -> [Streams -> SUBSET AllRows]]
      /\ fail' \in [Streams -> BOOLEAN]
      /\ \A r \in Runs \ {c} : container'[r] = container[r]
      /\ \A s \in Streams : container[c][s] \subseteq container'[c][s]
  <2>1. CASE container' = [container EXCEPT ![c][k.to] = @ \cup k.rows] /\ fail' = fail
    <3>1. k.to \in Streams /\ k.rows \subseteq AllRows
      OBVIOUS
    <3>. DEFINE to == k.to
                rows == k.rows
    <3>2. container' = [container EXCEPT ![c][to] = @ \cup rows]
      BY <2>1
    <3>3. container \in [Runs -> [Streams -> SUBSET AllRows]]
      BY DEF IInv, TypeOK
    <3>. HIDE DEF to, rows
    <3>4. /\ container' \in [Runs -> [Streams -> SUBSET AllRows]]
          /\ \A r \in Runs \ {c} : container'[r] = container[r]
          /\ \A s \in Streams : container[c][s] \subseteq container'[c][s]
      BY <3>1, <3>2, <3>3 DEF to, rows
    <3>. QED BY <2>1, <3>4 DEF IInv, TypeOK
  <2>2. CASE container' = container /\ fail' = [fail EXCEPT ![k.to] = TRUE]
    BY <2>2 DEF IInv, TypeOK
  <2>. QED BY <2>1, <2>2 DEF Aggregate
<1>6. AtWork'
  BY <1>1, <1>3 DEF AtWork, Fresh
<1>7. Stage'
  BY <1>1, <1>3, <1>6 DEF Stage
<1>8. TypeOK'
  BY <1>3, <1>4, <1>5 DEF IInv, TypeOK, Containers, slaveVars
<1>9. OnDisk'
  <2>1. ~Seedable(c)
    BY <1>1, NotASeed, StreamTypes DEF AtWork, IInv
  <2>2. OnlyGroup(c)
    BY <1>3, <1>5 DEF OnlyGroup
  <2>3. \A s \in Streams : ~Committed(c, s)'
    BY <1>1, <1>3 DEF AtWork, Fresh, Committed
  <2>4. Unused(c)' /\ Sound(c)'
    BY <1>2, <1>3, <2>3 DEF Unused, Sound
  <2>5. Matched(c)'
    <3>1. Paired => /\ ~Committed(c, "int")' /\ ~Committed(c, "zeta")'
                    /\ "int" \in registered'[c]
      BY <1>1, <1>3, <2>3, StreamTypes DEF AtWork
    <3>. QED BY <3>1 DEF Matched
  <2>6. ASSUME seed[c] # 0
        PROVE  /\ seed'[c] \in Runs /\ Seedable(seed'[c])
               /\ \A s \in Streams :
                    MissingSerials(container'[c][s], {}) \cap Held(seed'[c], s) = {}
    <3>1. /\ seed[c] \in Runs /\ Seedable(seed[c])
          /\ \A s \in Streams :
                    MissingSerials(container[c][s], {}) \cap Held(seed[c], s) = {}
      BY <2>6 DEF IInv, OnDisk, Seeded
    <3>2. \A s \in Streams : MissingSerials(container'[c][s], {})
                               \subseteq MissingSerials(container[c][s], {})
      BY <1>5, MissingAntitone
    <3>. QED BY <1>3, <3>1, <3>2
  <2>7. Seeded(c)'
    BY <1>3, <2>1, <2>2, <2>6, SeededStays DEF IInv
  <2>. QED BY <2>1, <2>2, <2>4, <2>5, <2>7, OnDiskByGroup DEF IInv
<1>10. Slaving'
  <2>1. program # <<>> /\ ~Seedable(c)
    BY <1>1, NotASeed, StreamTypes DEF AtWork, IInv, Aggregate, Working, Doing, Idle
  <2>2. ASSUME seed[c] # 0 PROVE container'[seed[c]] = container[seed[c]]
    <3>1. seed[c] \in Runs \ {c}
      BY <2>1, <2>2 DEF IInv, OnDisk, Seeded
    <3>. QED BY <1>5, <3>1
  <2>3. seed[c] # 0 => \A s \in Streams : failed[s] \cap Held(seed[c], s) = {}
    BY <2>1 DEF IInv, Slaving
  <2>. QED BY <1>3, <1>6, <2>1, <2>2, <2>3, Resting DEF slaveVars
<1>. QED BY <1>7, <1>8, <1>9, <1>10 DEF IInv

\* FinishWork keeps the invariant.
LEMMA FinishStep ==
  ASSUME IInv, FinishWork
  PROVE  IInv'
<1>1. AtWork /\ current \in 1 .. runs
  BY StageTells DEF IInv, FinishWork, Working, Doing
<1>2. /\ UNCHANGED <<diskVars, current, writerVars, todo, aggregations, slaveVars>>
      /\ program' = CloseAndCommit(Streams)
      /\ todo = {} /\ \A w \in Slaves : doing[w] = None
  BY DEF FinishWork, AtRest
<1>3. missing' = NoWriters /\ registered'[current'] = Streams
  BY <1>1, <1>2 DEF AtWork, Fresh, diskVars, writerVars
<1>4. Stage' /\ program' \in Seq(Operation)
  <2>1. CASE Paired
    <3>1. program' = <<I("check"), Z("check"), I("synchronize"), I("commit"), Z("commit")>>
      BY <1>2, <2>1, StreamTypes, Closing
    <3>2. ClosingPair'
      BY <1>3, <2>1, <3>1 DEF ClosingPair
    <3>3. /\ I("check") \in Operation /\ Z("check") \in Operation /\ I("synchronize") \in Operation
          /\ I("commit") \in Operation /\ Z("commit") \in Operation
      BY <2>1, StreamTypes, OperationTypes DEF I, Z
    <3>4. program' \in Seq(Operation)
      BY <3>1, <3>3
    <3>. QED BY <1>1, <1>2, <3>2, <3>4 DEF Stage, diskVars
  <2>2. CASE ~Paired
    <3>1. program' = <<I("check"), I("commit")>> /\ Streams = {"int"}
      BY <1>2, <2>2, StreamTypes, Closing
    <3>2. missing'["int"] = {}
      BY <1>3, StreamTypes DEF NoWriters
    <3>3. ClosingOne'
      BY <1>3, <3>1, <3>2 DEF ClosingOne, I
    <3>4. I("check") \in Operation /\ I("commit") \in Operation
      BY StreamTypes, OperationTypes DEF I
    <3>5. program' \in Seq(Operation)
      BY <3>1, <3>4
    <3>. QED BY <1>1, <1>2, <3>3, <3>5 DEF Stage, diskVars
  <2>. QED BY <2>1, <2>2
<1>5. TypeOK'
  BY <1>2, <1>4 DEF IInv, TypeOK, diskVars, writerVars, slaveVars
<1>6. OnDisk'
  BY <1>2, DiskStays DEF IInv
<1>7. Slaving'
  <2>1. program # <<>>
    BY DEF FinishWork, Working, Doing, Idle
  <2>2. UNCHANGED <<todo, seed, current, container, failed, doing>>
    BY <1>2 DEF diskVars, writerVars, slaveVars
  <2>3. seed[current] # 0 => \A s \in Streams : failed[s] \cap Held(seed[current], s) = {}
    BY <2>1 DEF IInv, Slaving
  <2>. QED BY <1>2, <2>1, <2>2, <2>3, Resting
<1>. QED BY <1>4, <1>5, <1>6, <1>7 DEF IInv

-----------------------------------------------------------------------------
(* The end of a task, and the job's                                        *)

EmptyJob ==
  /\ todo = {} /\ aggregations = <<>>
  /\ doing = [w \in Slaves |-> None] /\ pushed = [w \in Slaves |-> 0]
  /\ level = [w \in Slaves |-> 0] /\ cache = [w \in Slaves |-> NoWriters]

\* A job with nothing in hand is well typed.
LEMMA EmptyTypes ==
  ASSUME EmptyJob'
  PROVE  /\ todo' \in SUBSET Configs
         /\ aggregations' \in Seq([to : Streams, rows : SUBSET AllRows])
         /\ doing' \in [Slaves -> Configs \cup {None}]
         /\ pushed' \in [Slaves -> 0 .. Samples]
         /\ level' \in [Slaves -> 0 .. MaxRefinements + 1]
         /\ cache' \in [Slaves -> [Streams -> SUBSET AllRows]]
<1>1. NoWriters \in [Streams -> SUBSET AllRows]
  BY DEF NoWriters
<1>2. 0 \in 0 .. Samples /\ 0 \in 0 .. MaxRefinements + 1
  BY BoundsAssumption
<1>. QED BY <1>1, <1>2 DEF EmptyJob

\* So are new writers.
LEMMA BlankTypes ==
  /\ NoWriters \in [Streams -> SUBSET Configs] /\ NotFailed \in [Streams -> BOOLEAN]
  /\ <<>> \in Seq(Operation) /\ 0 \in 0 .. MaxRuns
BY BoundsAssumption DEF NoWriters, NotFailed

\* Crash keeps the invariant: nothing on disk changes.
LEMMA CrashStep ==
  ASSUME IInv, Crash
  PROVE  IInv'
<1>1. UNCHANGED diskVars /\ Forget
  BY DEF Crash
<1>2. EmptyJob'
  BY <1>1 DEF Forget, EmptyJob
<1>3. /\ program' = <<>> /\ current' = 0
      /\ failed' = NoWriters /\ missing' = NoWriters /\ fail' = NotFailed
  BY <1>1 DEF Forget
<1>4. TypeOK'
  <2>1. /\ todo' \in SUBSET Configs
        /\ aggregations' \in Seq([to : Streams, rows : SUBSET AllRows])
        /\ doing' \in [Slaves -> Configs \cup {None}]
        /\ pushed' \in [Slaves -> 0 .. Samples]
        /\ level' \in [Slaves -> 0 .. MaxRefinements + 1]
        /\ cache' \in [Slaves -> [Streams -> SUBSET AllRows]]
    BY <1>2, EmptyTypes
  <2>. QED BY <1>1, <1>3, <2>1, BlankTypes DEF IInv, TypeOK, diskVars
<1>5. OnDisk'
  BY <1>1, DiskStays DEF IInv
<1>6. Stage' /\ Slaving'
  BY <1>2, <1>3 DEF Stage, Slaving, EmptyJob
<1>. QED BY <1>4, <1>5, <1>6 DEF IInv

\* TaskThrows keeps the invariant.
LEMMA ThrowStep ==
  ASSUME IInv, TaskThrows
  PROVE  IInv'
<1>1. AtWork /\ current \in 1 .. runs
  BY StageTells DEF IInv, TaskThrows, Working, Doing
<1>2. UNCHANGED <<diskVars, current, writerVars>> /\ program' = InOrder("abort", Streams)
  BY DEF TaskThrows
<1>3. EmptyJob'
  BY DEF TaskThrows, EmptyJob
<1>4. program' = IF Paired THEN <<I("abort"), Z("abort")>> ELSE <<I("abort")>>
  BY <1>2, Ordered, StreamTypes
<1>5. Stage'
  <2>1. Aborting'
    BY <1>1, <1>2, <1>4 DEF AtWork, Fresh, Aborting, diskVars, writerVars
  <2>. QED BY <1>1, <1>2, <2>1 DEF Stage, diskVars
<1>6. TypeOK'
  <2>1. /\ todo' \in SUBSET Configs
        /\ aggregations' \in Seq([to : Streams, rows : SUBSET AllRows])
        /\ doing' \in [Slaves -> Configs \cup {None}]
        /\ pushed' \in [Slaves -> 0 .. Samples]
        /\ level' \in [Slaves -> 0 .. MaxRefinements + 1]
        /\ cache' \in [Slaves -> [Streams -> SUBSET AllRows]]
    BY <1>3, EmptyTypes
  <2>2. program' \in Seq(Operation)
    <3>1. I("abort") \in Operation /\ (Paired => Z("abort") \in Operation)
      BY StreamTypes, OperationTypes DEF I, Z
    <3>. QED BY <1>4, <3>1
  <2>. QED BY <1>2, <2>1, <2>2 DEF IInv, TypeOK, diskVars, writerVars
<1>7. OnDisk'
  BY <1>2, DiskStays DEF IInv
<1>8. Slaving'
  <2>1. program # <<>>
    BY DEF TaskThrows, Working, Doing, Idle
  <2>2. /\ \A w \in Slaves : doing'[w] = None
        /\ todo' = {} /\ UNCHANGED <<seed, current, container, failed>>
    BY <1>2, <1>3 DEF EmptyJob, diskVars, writerVars
  <2>3. seed[current] # 0 => \A s \in Streams : failed[s] \cap Held(seed[current], s) = {}
    BY <2>1 DEF IInv, Slaving
  <2>4. seed[current] # 0 => None \notin Held(seed[current], "int")
    <3>. SUFFICES ASSUME seed[current] # 0 PROVE None \notin Held(seed[current], "int")
      OBVIOUS
    <3>1. seed[current] \in Runs
      BY <1>1 DEF IInv, OnDisk, Seeded, TypeOK, Runs
    <3>2. container[seed[current]]["int"] \subseteq AllRows
      BY <3>1, StreamTypes DEF IInv, TypeOK
    <3>. QED BY <3>2, PresentTypes, ConfigsAssumption DEF Held
  <2>. QED BY <2>1, <2>2, <2>3, <2>4 DEF Slaving, Held
<1>. QED BY <1>5, <1>6, <1>7, <1>8 DEF IInv

\* Rejecting one of the two records.
LEMMA RejectStep ==
  ASSUME IInv, Doing("abort"), Rejected, OnWriter \in Streams,
         registered' \in {registered, [registered EXCEPT ![current] = @ \ {OnWriter}]},
         UNCHANGED <<runs, container, seed>>,
         "int" \in registered'[current] => OnWriter = "int"
  PROVE  /\ OnDisk'
         /\ record' \in [Runs -> [Streams -> Record]]
         /\ registered' \in [Runs -> SUBSET Streams]
         /\ record'[current][OnWriter].state = "rejected"
         /\ \A s \in Streams \ {OnWriter} : record'[current][s] = record[current][s]
<1>1. Aborting /\ current \in 1 .. runs
  BY StageTells DEF IInv, Doing
<1>. PICK c \in Runs, o \in Streams : c = current /\ o = OnWriter
  BY <1>1, CurrentRun DEF IInv
<1>2. c \in 1 .. runs /\ ~(c > runs)
  BY <1>1, CurrentRun DEF IInv
<1>3. record' = [record EXCEPT ![c][o].state = "rejected"]
  BY DEF Rejected
<1>4. record \in [Runs -> [Streams -> Record]] /\ registered \in [Runs -> SUBSET Streams]
  BY DEF IInv, TypeOK
<1>5. record' \in [Runs -> [Streams -> Record]]
  <2>1. [record[c][o] EXCEPT !.state = "rejected"] \in Record
    <3>. PICK old \in Record : old = record[c][o]
      BY <1>4
    <3>. QED BY DEF Record
  <2>. QED BY <1>3, <1>4, <2>1
<1>6. registered' \in [Runs -> SUBSET Streams]
  BY <1>4
<1>7. /\ record'[c][o].state = "rejected"
      /\ \A s \in Streams \ {o} : record'[c][s] = record[c][s]
      /\ \A r \in Runs \ {c} : record'[r] = record[r] /\ registered'[r] = registered[r]
  BY <1>3, <1>4 DEF Record
<1>8. ~Seedable(c) /\ OnlyGroup(c)
  <2>1. \E s \in Streams : record[c][s].state # "committed"
    BY <1>1, StreamTypes DEF Aborting, Fresh
  <2>. QED BY <1>7, <2>1, NotASeed DEF IInv, OnlyGroup
<1>9. \A s \in Streams : ~Committed(c, s)'
  <2>1. \A s \in Streams \ {o} : record[c][s].state # "committed"
    BY <1>1, StreamTypes DEF Aborting, Fresh
  <2>. QED BY <1>7, <2>1 DEF Committed
<1>10. Unused(c)' /\ Sound(c)'
  BY <1>2, <1>9 DEF Unused, Sound
<1>11. Seeded(c)'
  BY <1>8, SeededStays DEF IInv, OnDisk, Seeded
<1>12. Matched(c)'
  <2>. SUFFICES ASSUME Paired, "zeta" \in registered'[c], "int" \notin registered'[c]
                PROVE  record'[c]["int"].state = "rejected"
    BY <1>9, StreamTypes DEF Matched
  <2>1. CASE o = "int"
    BY <1>7, <2>1
  <2>2. CASE o # "int"
    BY <1>1, <1>7, <2>2, StreamTypes DEF Aborting, OnWriter, I, Op
  <2>. QED BY <2>1, <2>2
<1>13. OnDisk'
  BY <1>8, <1>10, <1>11, <1>12, OnDiskByGroup DEF IInv
<1>. QED BY <1>5, <1>6, <1>7, <1>13

\* AbortIntegration keeps the invariant.
LEMMA AbortIntegrationStep ==
  ASSUME IInv, AbortIntegration
  PROVE  IInv'
<1>1. Aborting /\ current \in 1 .. runs /\ current \in Runs
  BY StageTells, CurrentRun DEF IInv, AbortIntegration, Doing
<1>2. /\ UNCHANGED <<runs, container, seed, current, writerVars, todo, aggregations, slaveVars>>
      /\ program' = Tail(program) /\ OnWriter = "int"
      /\ registered' = [registered EXCEPT ![current] = @ \ {"int"}]
  BY DEF AbortIntegration
<1>8. program' = Tail(program)
  BY <1>2
<1>3. registered'[current] = registered[current] \ {"int"}
  BY <1>1, <1>2 DEF IInv, TypeOK
<1>4. /\ OnDisk'
      /\ record' \in [Runs -> [Streams -> Record]]
      /\ registered' \in [Runs -> SUBSET Streams]
      /\ record'[current]["int"].state = "rejected"
      /\ Paired => record'[current]["zeta"] = record[current]["zeta"]
  BY <1>2, RejectStep, StreamTypes DEF AbortIntegration
<1>5. Stage' /\ program' \in Seq(Operation)
  <2>1. /\ Paired => program = <<I("abort"), Z("abort")>>
        /\ ~Paired => program = <<I("abort")>>
        /\ Fresh /\ registered[current] = Streams
    <3>1. program # <<Z("abort")>>
      BY <1>2 DEF OnWriter, Z, Op
    <3>2. Aborting
      BY <1>1
    <3>3. CASE Paired
      BY <3>1, <3>2, <3>3 DEF Aborting
    <3>4. CASE ~Paired
      BY <3>1, <3>2, <3>4 DEF Aborting
    <3>. QED BY <3>3, <3>4
  <2>2. CASE Paired
    <3>1. program' = <<Z("abort")>>
      <4>1. program = <<I("abort"), Z("abort")>>
        BY <2>1, <2>2
      <4>. QED BY <1>8, <4>1
    <3>2. Aborting'
      <4>1. registered'[current] = {"zeta"}
        BY <1>3, <2>1, <2>2, StreamTypes
      <4>2. record'[current]["zeta"].state = "open"
        BY <1>4, <2>1, <2>2, StreamTypes DEF Fresh
      <4>. QED BY <1>2, <1>4, <2>2, <3>1, <4>1, <4>2 DEF Aborting
    <3>3. Z("abort") \in Operation
      BY <2>2, StreamTypes, OperationTypes DEF Z
    <3>4. program' \in Seq(Operation)
      BY <3>1, <3>3
    <3>5. Stage'
      BY <1>1, <1>2, <3>2 DEF Stage
    <3>. QED BY <3>4, <3>5
  <2>3. CASE ~Paired
    <3>1. program' = <<>>
      <4>1. program = <<I("abort")>>
        BY <2>1, <2>3
      <4>. QED BY <1>8, <4>1
    <3>. QED BY <3>1 DEF Stage
  <2>. QED BY <2>2, <2>3
<1>6. TypeOK'
  BY <1>2, <1>4, <1>5 DEF IInv, TypeOK, writerVars, slaveVars
<1>7. Slaving'
  <2>1. ~AtWork /\ ~Registering /\ program # <<>>
    <3>1. Head(program).op = "abort" /\ program # <<>>
      BY DEF AbortIntegration, Doing, Idle
    <3>2. AtWork => Head(program).op = "work"
      BY DEF AtWork, I, Op
    <3>3. Registering => Head(program).op = "register"
      BY DEF Registering, I, Z, Op
    <3>. QED BY <3>1, <3>2, <3>3
  <2>. QED BY <1>2, <2>1, Resting DEF IInv, Slaving, slaveVars, writerVars
<1>. QED BY <1>4, <1>5, <1>6, <1>7 DEF IInv

\* AbortPostintegration keeps the invariant, although the zeta writer stays
\* registered.
LEMMA AbortPostintegrationStep ==
  ASSUME IInv, AbortPostintegration
  PROVE  IInv'
<1>1. Aborting /\ current \in 1 .. runs /\ current \in Runs
  BY StageTells, CurrentRun DEF IInv, AbortPostintegration, Doing
<1>2. UNCHANGED <<runs, container, registered, seed>> /\ Forget /\ OnWriter = "zeta"
  BY DEF AbortPostintegration
<1>3. Paired /\ registered[current] = {"zeta"}
  BY <1>1, <1>2 DEF Aborting, OnWriter, I, Op
<1>4. OnDisk' /\ record' \in [Runs -> [Streams -> Record]]
  BY <1>2, <1>3, RejectStep, StreamTypes DEF AbortPostintegration
<1>5. EmptyJob'
  BY <1>2 DEF Forget, EmptyJob
<1>6. /\ program' = <<>> /\ current' = 0
      /\ failed' = NoWriters /\ missing' = NoWriters /\ fail' = NotFailed
  BY <1>2 DEF Forget
<1>7. TypeOK'
  <2>1. /\ todo' \in SUBSET Configs
        /\ aggregations' \in Seq([to : Streams, rows : SUBSET AllRows])
        /\ doing' \in [Slaves -> Configs \cup {None}]
        /\ pushed' \in [Slaves -> 0 .. Samples]
        /\ level' \in [Slaves -> 0 .. MaxRefinements + 1]
        /\ cache' \in [Slaves -> [Streams -> SUBSET AllRows]]
    BY <1>5, EmptyTypes
  <2>. QED BY <1>2, <1>4, <1>6, <2>1, BlankTypes DEF IInv, TypeOK
<1>8. Stage' /\ Slaving'
  BY <1>5, <1>6 DEF Stage, Slaving, EmptyJob
<1>. QED BY <1>4, <1>7, <1>8 DEF IInv

\* Recover keeps the invariant: whatever is registered starts a closing stage.
LEMMA RecoverStep ==
  ASSUME IInv, NEW r \in 1 .. runs, Recover(r)
  PROVE  IInv'
<1>1. program = <<>> /\ r \in Runs /\ registered[r] # {} /\ registered[r] \subseteq Streams
  BY BoundsAssumption DEF Recover, Idle, IInv, TypeOK, Runs
<1>2. /\ UNCHANGED <<diskVars, todo, aggregations, slaveVars>>
      /\ current' = r /\ failed' = NoWriters /\ missing' = NoWriters /\ fail' = NotFailed
      /\ program' = CloseAndCommit(registered[r])
  BY DEF Recover
<1>3. registered'[current'] = registered[r] /\ current' \in 1 .. runs'
  BY <1>2 DEF diskVars
<1>4. \A s \in Streams : missing'[s] = {} /\ failed'[s] = {}
  BY <1>2 DEF NoWriters
<1>5. Stage' /\ program' \in Seq(Operation)
  <2>1. ASSUME NEW s \in Streams, registered[r] = {s}
        PROVE  Stage' /\ program' \in Seq(Operation)
    <3>1. program' = <<Op("check", s), Op("commit", s)>>
      BY <1>2, <2>1, StreamTypes, Closing DEF I, Z
    <3>2. ClosingOne'
      BY <1>3, <1>4, <2>1, <3>1 DEF ClosingOne
    <3>3. Op("check", s) \in Operation /\ Op("commit", s) \in Operation
      BY OperationTypes
    <3>4. program' \in Seq(Operation)
      BY <3>1, <3>3
    <3>. QED BY <1>3, <3>2, <3>4 DEF Stage
  <2>2. CASE Paired /\ registered[r] = {"int", "zeta"}
    <3>1. program' = <<I("check"), Z("check"), I("synchronize"), I("commit"), Z("commit")>>
      BY <1>2, <2>2, Closing
    <3>2. ClosingPair'
      BY <1>2, <1>3, <2>2, <3>1, StreamTypes DEF ClosingPair
    <3>3. /\ I("check") \in Operation /\ Z("check") \in Operation /\ I("synchronize") \in Operation
          /\ I("commit") \in Operation /\ Z("commit") \in Operation
      BY <2>2, StreamTypes, OperationTypes DEF I, Z
    <3>4. program' \in Seq(Operation)
      BY <3>1, <3>3
    <3>. QED BY <1>3, <3>2, <3>4 DEF Stage
  <2>3. \/ \E s \in Streams : registered[r] = {s}
        \/ Paired /\ registered[r] = {"int", "zeta"}
    BY <1>1, StreamTypes
  <2>. QED BY <2>1, <2>2, <2>3
<1>6. TypeOK'
  <2>1. r \in 0 .. MaxRuns
    BY <1>1, BoundsAssumption DEF Runs
  <2>. QED BY <1>2, <1>5, <2>1, BlankTypes DEF IInv, TypeOK, diskVars, slaveVars
<1>7. OnDisk'
  BY <1>2, DiskStays DEF IInv
<1>8. Slaving'
  <2>1. ~AtWork /\ ~Registering
    BY <1>1 DEF AtWork, Registering
  <2>2. todo' = {} /\ \A w \in Slaves : doing'[w] = None
    BY <1>2, <2>1 DEF IInv, Slaving, slaveVars
  <2>3. seed'[current'] = seed[r] /\ container' = container
    BY <1>2 DEF diskVars
  <2>4. ASSUME seed[r] # 0 PROVE None \notin Held(seed[r], "int")
    <3>1. seed[r] \in Runs
      BY <1>1, <2>4 DEF IInv, OnDisk, Seeded
    <3>2. container[seed[r]]["int"] \subseteq AllRows
      BY <3>1, StreamTypes DEF IInv, TypeOK
    <3>. QED BY <3>2, PresentTypes, ConfigsAssumption DEF Held
  <2>. QED BY <1>4, <2>2, <2>3, <2>4 DEF Slaving, Held
<1>. QED BY <1>5, <1>6, <1>7, <1>8 DEF IInv

-----------------------------------------------------------------------------
(* The start of a task                                                     *)

\* An empty repository satisfies the invariant.
LEMMA InitInvariant == Init => IInv
<1>. SUFFICES ASSUME Init PROVE IInv
  OBVIOUS
<1>1. TypeOK
  <2>1. NoWriters \in [Streams -> SUBSET AllRows] /\ Blank \in Record
    BY DEF NoWriters, Blank, Record
  <2>2. 0 \in 0 .. Samples /\ 0 \in 0 .. MaxRefinements + 1
    BY BoundsAssumption
  <2>. QED BY <2>1, <2>2, BlankTypes DEF Init, TypeOK
<1>2. OnDisk
  <2>1. \A r \in Runs, s \in Streams : ~Committed(r, s) /\ record[r][s].state = "none"
    BY DEF Init, Blank, Committed
  <2>. SUFFICES ASSUME NEW r \in Runs PROVE Unused(r) /\ Sound(r) /\ Matched(r) /\ Seeded(r)
    BY DEF OnDisk
  <2>2. registered[r] = {} /\ seed[r] = 0
    BY DEF Init
  <2>3. Unused(r) /\ Sound(r) /\ Seeded(r)
    BY <2>1, <2>2 DEF Unused, Sound, Seeded
  <2>4. Matched(r)
    BY <2>1, <2>2, StreamTypes DEF Matched
  <2>. QED BY <2>3, <2>4
<1>3. Stage /\ Slaving
  BY DEF Init, Stage, Slaving
<1>. QED BY <1>1, <1>2, <1>3 DEF IInv

\* Begin keeps the invariant: a seed is complete but for what it records.
LEMMA BeginStep ==
  ASSUME IInv, NEW q \in 0 .. runs, Begin(q)
  PROVE  IInv'
<1>. PICK c \in Runs : c = runs + 1
  BY BoundsAssumption DEF Begin, IInv, TypeOK, Runs
<1>1. c > runs /\ c # 0 /\ c \in 1 .. runs'
  BY BoundsAssumption DEF Begin, IInv, TypeOK, Runs
<1>2. /\ runs' = c /\ current' = c
      /\ container' = [container EXCEPT ![c] = [s \in Streams |-> SeedRows(q, s)]]
      /\ record' = [record EXCEPT ![c] =
                       [s \in Streams |-> [Blank EXCEPT !.state = "open"]]]
      /\ seed' = [seed EXCEPT ![c] = q]
      /\ todo' = WorkQueue(q)
      /\ failed' = NoWriters /\ missing' = NoWriters /\ fail' = NotFailed
      /\ program' = InOrder("register", Streams) \o <<I("work")>>
      /\ UNCHANGED <<registered, aggregations, slaveVars>>
  BY DEF Begin, I
<1>3. program = <<>> /\ (q # 0 => Seedable(q))
  BY DEF Begin, Idle
<1>4. q # 0 => q \in Runs /\ q # c
  BY <1>1, BoundsAssumption DEF IInv, TypeOK, Runs
<1>5. registered[c] = {} /\ ~Seedable(c)
  BY <1>1, NotASeed DEF IInv, OnDisk, Unused
<1>6. /\ container' \in [Runs -> [Streams -> SUBSET AllRows]]
      /\ \A s \in Streams : container'[c][s] = SeedRows(q, s)
      /\ \A r \in Runs \ {c} : container'[r] = container[r]
  <2>1. \A s \in Streams : SeedRows(q, s) \subseteq AllRows
    BY <1>4 DEF SeedRows, IInv, TypeOK
  <2>. QED BY <1>2, <2>1 DEF IInv, TypeOK
<1>7. /\ record' \in [Runs -> [Streams -> Record]]
      /\ \A s \in Streams : record'[c][s].state = "open"
      /\ \A r \in Runs \ {c} : record'[r] = record[r]
  <2>1. [Blank EXCEPT !.state = "open"] \in Record
        /\ [Blank EXCEPT !.state = "open"].state = "open"
    BY DEF Blank, Record
  <2>. QED BY <1>2, <2>1 DEF IInv, TypeOK
<1>8. /\ seed' \in [Runs -> 0 .. MaxRuns] /\ seed'[c] = q
      /\ \A r \in Runs \ {c} : seed'[r] = seed[r]
  BY <1>2, BoundsAssumption DEF IInv, TypeOK
<1>9. ASSUME q # 0, NEW s \in Streams
      PROVE  /\ MissingSerials(container[q][s], {}) \cap Held(q, s) = {}
             /\ WorkQueue(q) \cap Held(q, s) = {} /\ WorkQueue(q) \subseteq Configs
  <2>1. Committed(q, s) /\ Sound(q)
    BY <1>3, <1>4, <1>9 DEF Seedable, Committed, IInv, OnDisk
  <2>2. MissingSerials(container[q][s], {}) = Configs \ Held(q, s)
    BY <2>1 DEF Sound, Fixed, Held
  <2>3. record[q]["int"].missing = Configs \ Held(q, "int") /\ Held(q, "int") = Held(q, s)
    BY <1>3, <1>4, <1>9, SeedHeld, StreamTypes DEF IInv
  <2>. QED BY <1>9, <2>2, <2>3 DEF WorkQueue
<1>10. Registering' /\ program' \in Seq(Operation)
  <2>1. Fresh' /\ registered'[c] = {}
    BY <1>2, <1>5, <1>7 DEF Fresh
  <2>2. CASE Paired
    <3>1. program' = <<I("register"), Z("register"), I("work")>>
      <4>1. InOrder("register", Streams) = <<I("register"), Z("register")>>
        BY <2>2, StreamTypes, Ordered
      <4>. QED BY <1>2, <4>1, Joined
    <3>2. Registering'
      BY <1>2, <2>1, <2>2, <3>1 DEF Registering
    <3>3. I("register") \in Operation /\ Z("register") \in Operation /\ I("work") \in Operation
      BY <2>2, StreamTypes, OperationTypes DEF I, Z
    <3>4. program' \in Seq(Operation)
      BY <3>1, <3>3
    <3>. QED BY <3>2, <3>4
  <2>3. CASE ~Paired
    <3>1. program' = <<I("register"), I("work")>>
      <4>1. InOrder("register", Streams) = <<I("register")>>
        BY <2>3, StreamTypes, Ordered
      <4>. QED BY <1>2, <4>1, Joined
    <3>2. Registering'
      BY <1>2, <2>1, <2>3, <3>1 DEF Registering
    <3>3. I("register") \in Operation /\ I("work") \in Operation
      BY StreamTypes, OperationTypes DEF I
    <3>4. program' \in Seq(Operation)
      BY <3>1, <3>3
    <3>. QED BY <3>2, <3>4
  <2>. QED BY <2>2, <2>3
<1>11. Stage'
  BY <1>1, <1>2, <1>10 DEF Stage
<1>12. TypeOK'
  <2>1. todo' \in SUBSET Configs
    BY <1>2, <1>9, StreamTypes DEF WorkQueue
  <2>2. runs' \in 0 .. MaxRuns /\ current' \in 0 .. MaxRuns
    BY <1>2, BoundsAssumption DEF Runs
  <2>. QED BY <1>2, <1>6, <1>7, <1>8, <1>10, <2>1, <2>2, BlankTypes
       DEF IInv, TypeOK, slaveVars
<1>13. OnDisk'
  <2>1. OnlyGroup(c)
    BY <1>2, <1>6, <1>7, <1>8 DEF OnlyGroup
  <2>2. \A s \in Streams : ~Committed(c, s)'
    BY <1>7 DEF Committed
  <2>3. Unused(c)' /\ Sound(c)'
    BY <1>1, <1>2, <2>2 DEF Unused, Sound, Runs
  <2>4. Matched(c)'
    BY <1>2, <1>5, <2>2, StreamTypes DEF Matched
  <2>5. Seeded(c)'
    <3>1. q # 0 => \A s \in Streams :
                     MissingSerials(container'[c][s], {}) \cap Held(q, s) = {}
      BY <1>6, <1>9 DEF SeedRows
    <3>. QED BY <1>3, <1>4, <1>5, <1>8, <2>1, <3>1, SeededStays DEF IInv
  <2>. QED BY <1>5, <2>1, <2>3, <2>4, <2>5, OnDiskByGroup DEF IInv
<1>14. Slaving'
  <2>1. \A w \in Slaves : doing'[w] = None
    BY <1>2, <1>3 DEF IInv, Slaving, AtWork, slaveVars
  <2>. SUFFICES ASSUME q # 0
                PROVE  /\ todo' \cap Held(q, "int")' = {}
                       /\ None \notin Held(q, "int")'
    BY <1>2, <1>8, <1>10, <2>1 DEF Slaving, NoWriters, Held
  <2>2. Held(q, "int")' = Held(q, "int")
    BY <1>4, <1>6 DEF Held
  <2>3. todo' \cap Held(q, "int") = {}
    BY <1>2, <1>9, StreamTypes
  <2>4. Held(q, "int") \subseteq Configs
    BY <1>3, <1>4, SeedHeld, StreamTypes DEF IInv
  <2>. QED BY <2>2, <2>3, <2>4, ConfigsAssumption
<1>. QED BY <1>11, <1>12, <1>13, <1>14 DEF IInv

-----------------------------------------------------------------------------
(* Closing                                                                 *)

\* What a check does to the writer and the container of s.
Effects(c, s, F, total) ==
  /\ container' \in [Runs -> [Streams -> SUBSET AllRows]]
  /\ failed' \in [Streams -> SUBSET Configs]
  /\ missing' \in [Streams -> SUBSET Configs]
  /\ fail' \in [Streams -> BOOLEAN]
  /\ missing'[s] = total /\ failed'[s] = failed[s] \cup F /\ Checked(s)'
  /\ MissingSerials(container'[c][s], {}) = total
  /\ \A t \in Streams \ {s} :
       /\ missing'[t] = missing[t] /\ failed'[t] = failed[t] /\ fail'[t] = fail[t]
       /\ container'[c][t] = container[c][t]
  /\ \A r \in Runs \ {c} : container'[r] = container[r]

\* The check of the container of s, told of F, finds total missing.
LEMMA CheckEffect ==
  ASSUME IInv, NEW c \in Runs, c = current, current' = current,
         NEW s \in Streams, NEW F \in SUBSET Configs,
         NEW total, total = MissingSerials(container[c][s], failed[s] \cup F),
         total = {} => missing[s] = {},
         CheckIntegrity(s, F)
  PROVE  Effects(c, s, F, total)
<1>1. /\ container \in [Runs -> [Streams -> SUBSET AllRows]]
      /\ failed \in [Streams -> SUBSET Configs]
      /\ missing \in [Streams -> SUBSET Configs]
      /\ fail \in [Streams -> BOOLEAN]
  BY DEF IInv, TypeOK
<1>2. container[c][s] \subseteq AllRows /\ failed[s] \cup F \in SUBSET Configs
  BY <1>1
<1>3. /\ Fixed(Dropped(container[c][s], total), total) /\ failed[s] \cup F \subseteq total
      /\ Dropped(container[c][s], total) \subseteq AllRows
      /\ total \in SUBSET Configs
  BY <1>2, CheckedIsFixed, DroppedRows, MissingTypes
<1>4. /\ failed' = [failed EXCEPT ![s] = @ \cup F]
      /\ missing' = IF total = {} THEN missing ELSE [missing EXCEPT ![s] = total]
      /\ fail' = [fail EXCEPT ![s] = FailFlag(s, total)]
      /\ container' = [container EXCEPT ![c][s] = Dropped(@, total)]
  BY DEF CheckIntegrity
<1>5. /\ failed' \in [Streams -> SUBSET Configs] /\ failed'[s] = failed[s] \cup F
      /\ \A t \in Streams \ {s} : failed'[t] = failed[t]
  BY <1>1, <1>4
<1>6. /\ missing' \in [Streams -> SUBSET Configs] /\ missing'[s] = total
      /\ \A t \in Streams \ {s} : missing'[t] = missing[t]
  BY <1>1, <1>3, <1>4
<1>7. /\ fail' \in [Streams -> BOOLEAN] /\ fail'[s] = FailFlag(s, total)
      /\ \A t \in Streams \ {s} : fail'[t] = fail[t]
  BY <1>1, <1>4 DEF FailFlag
<1>8. /\ container' \in [Runs -> [Streams -> SUBSET AllRows]]
      /\ container'[c][s] = Dropped(container[c][s], total)
      /\ \A t \in Streams \ {s} : container'[c][t] = container[c][t]
      /\ \A r \in Runs \ {c} : container'[r] = container[r]
  BY <1>1, <1>3, <1>4
<1>9. Checked(s)'
  <2>1. Fixed(container'[c][s], missing'[s])
    BY <1>3, <1>6, <1>8
  <2>2. failed'[s] \subseteq missing'[s]
    BY <1>3, <1>5, <1>6
  <2>3. missing'[s] # {} => fail'[s]
    BY <1>6, <1>7 DEF FailFlag
  <2>. QED BY <2>1, <2>2, <2>3 DEF Checked
<1>10. MissingSerials(container'[c][s], {}) = total
  BY <1>3, <1>8 DEF Fixed
<1>. QED BY <1>5, <1>6, <1>7, <1>8, <1>9, <1>10 DEF Effects

\* What a check keeps, if it is told of no serial that a seed holds, nor, when
\* the integration is committed already, of anything that is not missing.
LEMMA CheckKeeps ==
  ASSUME IInv, NEW c \in Runs, c = current, c \in 1 .. runs,
         NEW s \in Streams, NEW F \in SUBSET Configs,
         NEW total, total = MissingSerials(container[c][s], failed[s] \cup F),
         total = {} => missing[s] = {},
         CheckIntegrity(s, F),
         UNCHANGED <<runs, registered, record, seed, current, todo, aggregations, slaveVars>>,
         program # <<>>, ~AtWork, ~Registering,
         s \in registered[c],
         seed[c] # 0 => F \cap Held(seed[c], s) = {},
         s = "zeta" /\ "int" \notin registered[c] => failed[s] \cup F = {}
  PROVE  OnDisk' /\ Slaving'
<1>1. /\ failed'[s] = failed[s] \cup F
      /\ MissingSerials(container'[c][s], {}) = total
      /\ \A t \in Streams \ {s} : failed'[t] = failed[t] /\ container'[c][t] = container[c][t]
      /\ \A r \in Runs \ {c} : container'[r] = container[r]
  <2>1. current' = current
    OBVIOUS
  <2>2. Effects(c, s, F, total)
    BY <2>1, CheckEffect
  <2>. QED BY <2>2 DEF Effects
<1>2. total = MissingSerials(container[c][s], {}) \cup failed[s] \cup F
  BY MissingReported
<1>3. ~Seedable(c) /\ OnlyGroup(c)
  BY <1>1, NotASeed DEF IInv, OnlyGroup
<1>4. Unused(c)'
  BY DEF Unused, IInv, TypeOK, Runs
<1>5. Sound(c)'
  <2>. SUFFICES ASSUME NEW t \in Streams, Committed(c, t)'
                PROVE  (/\ t \notin registered[c]
                        /\ Fixed(container[c][t], record[c][t].missing)
                        /\ record[c][t].missing # {} => record[c][t].fail)'
    BY DEF Sound
  <2>1. Committed(c, t) /\ Sound(c)
    BY DEF Committed, IInv, OnDisk
  <2>2. t # s
    BY <2>1 DEF Sound
  <2>3. container'[c][t] = container[c][t]
    BY <1>1, <2>2
  <2>. QED BY <2>1, <2>3 DEF Sound
<1>6. Matched(c)'
  <2>. SUFFICES ASSUME Paired PROVE Matched(c)'
    BY DEF Matched
  <2>1. Matched(c)
    BY DEF IInv, OnDisk
  <2>2. CASE "int" \in registered[c]
    BY <2>1, <2>2 DEF Matched, Committed
  <2>3. CASE "int" \notin registered[c]
    <3>1. s = "zeta" /\ total = MissingSerials(container[c]["zeta"], {})
      BY <1>2, <2>3, StreamTypes
    <3>2. MissingSerials(container'[c]["zeta"], {}) = MissingSerials(container[c]["zeta"], {})
      BY <1>1, <3>1
    <3>. QED BY <2>1, <2>3, <3>2 DEF Matched, Committed
  <2>. QED BY <2>2, <2>3
<1>7. ASSUME seed[c] # 0
      PROVE  /\ seed[c] \in Runs /\ Seedable(seed[c]) /\ seed[c] # c
             /\ \A t \in Streams : MissingSerials(container[c][t], {}) \cap Held(seed[c], t) = {}
             /\ \A t \in Streams : failed[t] \cap Held(seed[c], t) = {}
  BY <1>3, <1>7 DEF IInv, OnDisk, Seeded, Slaving
<1>8. Seeded(c)'
  <2>1. ASSUME seed[c] # 0, NEW t \in Streams
        PROVE  MissingSerials(container'[c][t], {}) \cap Held(seed[c], t) = {}
    <3>1. CASE t = s
      BY <1>1, <1>2, <1>7, <2>1, <3>1
    <3>2. CASE t # s
      BY <1>1, <1>7, <2>1, <3>2
    <3>. QED BY <3>1, <3>2
  <2>. QED BY <1>3, <1>7, <2>1, SeededStays DEF IInv
<1>9. OnDisk'
  BY <1>3, <1>4, <1>5, <1>6, <1>8, OnDiskByGroup DEF IInv
<1>10. Slaving'
  <2>1. ASSUME seed[c] # 0, NEW t \in Streams PROVE failed'[t] \cap Held(seed[c], t) = {}
    BY <1>1, <1>7, <2>1
  <2>2. seed[c] # 0 => container'[seed[c]] = container[seed[c]]
    BY <1>1, <1>7
  <2>3. todo' = {} /\ \A w \in Slaves : doing'[w] = None
    BY DEF IInv, Slaving, slaveVars
  <2>. QED BY <2>1, <2>2, <2>3, Resting DEF slaveVars
<1>. QED BY <1>9, <1>10

\* A step of closing keeps types if its check does.
LEMMA CloseTypes ==
  ASSUME TypeOK, program # <<>>, program' = Tail(program),
         UNCHANGED <<runs, registered, record, seed, current, todo, aggregations, slaveVars>>,
         container' \in [Runs -> [Streams -> SUBSET AllRows]],
         failed' \in [Streams -> SUBSET Configs],
         missing' \in [Streams -> SUBSET Configs],
         fail' \in [Streams -> BOOLEAN]
  PROVE  TypeOK'
<1>1. program' \in Seq(Operation)
  BY HeadTailProperties DEF TypeOK
<1>. QED BY <1>1 DEF TypeOK, slaveVars

\* CheckWriter keeps the invariant.
LEMMA CheckStep ==
  ASSUME IInv, CheckWriter
  PROVE  IInv'
<1>1. (ClosingPair \/ ClosingOne) /\ current \in 1 .. runs
  BY StageTells DEF IInv, CheckWriter, Doing
<1>. PICK c \in Runs : c = current
  BY <1>1, CurrentRun DEF IInv
<1>2. /\ program # <<>> /\ Head(program).op = "check" /\ program' = Tail(program)
      /\ UNCHANGED <<runs, registered, record, seed, current, todo, aggregations, slaveVars>>
      /\ CheckIntegrity(OnWriter, {})
  BY DEF CheckWriter, Doing, Idle
<1>3. ~AtWork /\ ~Registering
  BY <1>2 DEF AtWork, Registering, I, Z, Op
\* The writer in hand, s, and what is known of it.
<1>. DEFINE Rest(s, next) ==
       /\ s \in Streams /\ s \in registered[c] /\ OnWriter = s /\ missing[s] = {}
       /\ s = "zeta" /\ "int" \notin registered[c] => failed[s] = {}
       /\ program' = next
<1>4. ASSUME NEW s, NEW next, Rest(s, next)
      PROVE  /\ TypeOK' /\ OnDisk' /\ Slaving'
             /\ Checked(s)'
             /\ \A t \in Streams \ {s} : missing'[t] = missing[t] /\ (Checked(t) => Checked(t)')
  <2>. DEFINE total == MissingSerials(container[c][s], failed[s] \cup {})
  <2>1. s \in Streams /\ CheckIntegrity(s, {}) /\ missing[s] = {} /\ current' = current
    BY <1>2, <1>4
  <2>2. /\ container' \in [Runs -> [Streams -> SUBSET AllRows]]
        /\ failed' \in [Streams -> SUBSET Configs]
        /\ missing' \in [Streams -> SUBSET Configs]
        /\ fail' \in [Streams -> BOOLEAN]
        /\ Checked(s)'
        /\ \A t \in Streams \ {s} :
              /\ missing'[t] = missing[t] /\ failed'[t] = failed[t] /\ fail'[t] = fail[t]
              /\ container'[c][t] = container[c][t]
    <3>1. Effects(c, s, {}, total)
      BY <2>1, CheckEffect
    <3>. QED BY <3>1 DEF Effects
  <2>3. OnDisk' /\ Slaving'
    BY <1>1, <1>2, <1>3, <1>4, <2>1, CheckKeeps
  <2>4. TypeOK'
    BY <1>2, <2>2, CloseTypes DEF IInv
  <2>5. ASSUME NEW t \in Streams \ {s}, Checked(t) PROVE Checked(t)'
    BY <2>1, <2>2, <2>5 DEF Checked
  <2>. QED BY <2>2, <2>3, <2>4, <2>5
<1>5. CASE ClosingPair
  <2>1. Paired /\ registered[c] = Streams /\ Streams = {"int", "zeta"}
    BY <1>5, StreamTypes DEF ClosingPair
  <2>2. \/ /\ program = <<I("check"), Z("check"), I("synchronize"), I("commit"), Z("commit")>>
           /\ missing = NoWriters
        \/ /\ program = <<Z("check"), I("synchronize"), I("commit"), Z("commit")>>
           /\ Checked("int") /\ missing["zeta"] = {}
    BY <1>2, <1>5 DEF ClosingPair, I, Z, Op, Recheck
  <2>3. CASE /\ program = <<I("check"), Z("check"), I("synchronize"), I("commit"), Z("commit")>>
             /\ missing = NoWriters
    <3>1. program' = <<Z("check"), I("synchronize"), I("commit"), Z("commit")>>
      BY <1>2, <2>3
    <3>2. OnWriter = "int"
      BY <2>3 DEF OnWriter, I, Op
    <3>3. missing["int"] = {} /\ missing["zeta"] = {}
      BY <2>1, <2>3 DEF NoWriters
    <3>4. Rest("int", program')
      BY <2>1, <3>2, <3>3
    <3>5. /\ TypeOK' /\ OnDisk' /\ Slaving' /\ Checked("int")'
          /\ missing'["zeta"] = {}
      BY ONLY <1>4, <2>1, <3>3, <3>4
    <3>6. ClosingPair'
      BY <1>2, <2>1, <3>1, <3>5 DEF ClosingPair
    <3>. QED BY <1>1, <1>2, <3>5, <3>6 DEF IInv, Stage
  <2>4. CASE /\ program = <<Z("check"), I("synchronize"), I("commit"), Z("commit")>>
             /\ Checked("int") /\ missing["zeta"] = {}
    <3>1. program' = <<I("synchronize"), I("commit"), Z("commit")>>
      BY <1>2, <2>4
    <3>2. OnWriter = "zeta"
      BY <2>4 DEF OnWriter, Z, Op
    <3>4. Rest("zeta", program')
      BY <2>1, <2>4, <3>2
    <3>5. TypeOK' /\ OnDisk' /\ Slaving' /\ Checked("zeta")' /\ Checked("int")'
      BY ONLY <1>4, <2>1, <2>4, <3>4
    <3>6. ClosingPair'
      BY <1>2, <2>1, <3>1, <3>5 DEF ClosingPair
    <3>. QED BY <1>1, <1>2, <3>5, <3>6 DEF IInv, Stage
  <2>. QED BY <2>2, <2>3, <2>4
<1>6. CASE ClosingOne
  <2>1. PICK s \in Streams :
          /\ registered[c] = {s} /\ program = <<Op("check", s), Op("commit", s)>>
          /\ missing[s] = {} /\ (s = "zeta" => failed[s] = {})
    BY <1>2, <1>6 DEF ClosingOne, Op
  <2>2. program' = <<Op("commit", s)>>
    BY <1>2, <2>1
  <2>3. OnWriter = s
    BY <2>1 DEF OnWriter, Op
  <2>4. Rest(s, program')
    BY <2>1, <2>3
  <2>5. TypeOK' /\ OnDisk' /\ Slaving' /\ Checked(s)'
    BY ONLY <1>4, <2>4
  <2>6. ClosingOne'
    BY <1>2, <2>1, <2>2, <2>5 DEF ClosingOne
  <2>. QED BY <1>1, <1>2, <2>5, <2>6 DEF IInv, Stage
<1>. QED BY <1>1, <1>5, <1>6

\* Nothing, twice, before a pair.
LEMMA EmptyEmpty ==
  ASSUME NEW a, NEW b
  PROVE  (<<>> \o <<>>) \o <<a, b>> = <<a, b>>
<1>. DEFINE S == {a, b}
<1>1. <<a, b>> \in Seq(S) /\ <<>> \in Seq(S)
  OBVIOUS
<1>. QED BY <1>1, ConcatEmptySeq

\* Nothing before or after one operation.
LEMMA OneEmpty ==
  ASSUME NEW a
  PROVE  <<a>> \o <<>> = <<a>> /\ <<>> \o <<a>> = <<a>>
OBVIOUS

\* One operation, on either writer, and the two commits.
LEMMA JoinedThree ==
  ASSUME NEW a, NEW b, NEW c
  PROVE  /\ (<<a>> \o <<>>) \o <<b, c>> = <<a, b, c>>
         /\ (<<>> \o <<a>>) \o <<b, c>> = <<a, b, c>>
<1>1. <<a>> \o <<>> = <<a>> /\ <<>> \o <<a>> = <<a>>
  BY OneEmpty
<1>2. <<a>> \o <<b, c>> = <<a, b, c>>
  BY ONLY Joined, Zenon
<1>. QED BY ONLY <1>1, <1>2, Zenon

\* What a writer lacks are configurations.
LEMMA LackingTypes ==
  ASSUME TypeOK, Paired, NEW s \in Streams
  PROVE  Lacking(s) \in SUBSET Configs
BY StreamTypes DEF TypeOK, Lacking

\* What is left to do after it: each writer is rechecked with what it lacks,
\* if anything, and then both commit.
Resynchronized ==
  \/ program' = <<Recheck("int", Lacking("int")), Recheck("zeta", Lacking("zeta")),
                  I("commit"), Z("commit")>>
  \/ /\ program' = <<Recheck("int", Lacking("int")), I("commit"), Z("commit")>>
     /\ Lacking("zeta") = {}
  \/ /\ program' = <<Recheck("zeta", Lacking("zeta")), I("commit"), Z("commit")>>
     /\ Lacking("int") = {}
  \/ /\ program' = <<I("commit"), Z("commit")>>
     /\ missing["int"] = missing["zeta"]

LEMMA SynchronizeDoes ==
  ASSUME IInv, SynchronizeMissingSerials
  PROVE  /\ Paired /\ registered[current] = Streams /\ Checked("int") /\ Checked("zeta")
         /\ ~AtWork /\ ~Registering /\ program # <<>> /\ current \in 1 .. runs
         /\ Resynchronized
<1>1. (ClosingPair \/ ClosingOne) /\ current \in 1 .. runs
  BY StageTells DEF IInv, SynchronizeMissingSerials, Doing
<1>2. /\ program # <<>> /\ Head(program).op = "synchronize"
      /\ UNCHANGED <<diskVars, current, writerVars, todo, aggregations, slaveVars>>
  BY DEF SynchronizeMissingSerials, Doing, Idle
<1>3. ~ClosingOne /\ ~AtWork /\ ~Registering
  BY <1>2 DEF ClosingOne, AtWork, Registering, I, Z, Op
<1>4. /\ Paired /\ registered[current] = Streams /\ Checked("int") /\ Checked("zeta")
      /\ program = <<I("synchronize"), I("commit"), Z("commit")>>
      /\ "int" \in Streams /\ "zeta" \in Streams
  BY <1>1, <1>2, <1>3, StreamTypes DEF ClosingPair, I, Z, Op, Recheck
<1>5. Tail(program) = <<I("commit"), Z("commit")>>
  BY <1>4
<1>. DEFINE again(s) == IF Lacking(s) = {} THEN <<>> ELSE <<Recheck(s, Lacking(s))>>
<1>7. program' = again("int") \o again("zeta") \o Tail(program)
  BY DEF SynchronizeMissingSerials, Lacking, Recheck
<1>8. Resynchronized
  <2>. DEFINE i == Recheck("int", Lacking("int"))
              z == Recheck("zeta", Lacking("zeta"))
              x == I("commit")
              y == Z("commit")
  <2>1. CASE Lacking("int") = {} /\ Lacking("zeta") = {}
    <3>1. program' = (<<>> \o <<>>) \o <<x, y>>
      BY <1>5, <1>7, <2>1
    <3>2. program' = <<x, y>>
      <4>. HIDE DEF x, y
      <4>1. (<<>> \o <<>>) \o <<x, y>> = <<x, y>>
        BY EmptyEmpty
      <4>. QED BY <3>1, <4>1
    <3>3. missing["int"] = missing["zeta"]
      BY <2>1 DEF Lacking
    <3>. QED BY <3>2, <3>3 DEF Resynchronized
  <2>2. CASE Lacking("int") # {} /\ Lacking("zeta") = {}
    <3>1. program' = (<<i>> \o <<>>) \o <<x, y>>
      BY <1>5, <1>7, <2>2
    <3>2. program' = <<i, x, y>>
      <4>. HIDE DEF i, x, y
      <4>1. (<<i>> \o <<>>) \o <<x, y>> = <<i, x, y>>
        BY ONLY JoinedThree, Zenon
      <4>. QED BY <3>1, <4>1
    <3>. QED BY <2>2, <3>2 DEF Resynchronized
  <2>3. CASE Lacking("int") = {} /\ Lacking("zeta") # {}
    <3>1. program' = (<<>> \o <<z>>) \o <<x, y>>
      BY <1>5, <1>7, <2>3
    <3>2. program' = <<z, x, y>>
      <4>. HIDE DEF z, x, y
      <4>1. (<<>> \o <<z>>) \o <<x, y>> = <<z, x, y>>
        BY ONLY JoinedThree, Zenon
      <4>. QED BY <3>1, <4>1
    <3>. QED BY <2>3, <3>2 DEF Resynchronized
  <2>4. CASE Lacking("int") # {} /\ Lacking("zeta") # {}
    <3>1. program' = (<<i>> \o <<z>>) \o <<x, y>>
      BY <1>5, <1>7, <2>4
    <3>2. program' = <<i, z, x, y>>
      <4>. HIDE DEF i, z, x, y
      <4>1. (<<i>> \o <<z>>) \o <<x, y>> = <<i, z, x, y>>
        BY ONLY JoinedFour, Zenon
      <4>. QED BY <3>1, <4>1
    <3>. QED BY <3>2 DEF Resynchronized
  <2>. QED BY <2>1, <2>2, <2>3, <2>4
<1>. QED BY <1>1, <1>2, <1>3, <1>4, <1>8

\* SynchronizeMissingSerials keeps the invariant: each writer is rechecked with
\* what it lacks, if anything.
LEMMA SynchronizeStep ==
  ASSUME IInv, SynchronizeMissingSerials
  PROVE  IInv'
<1>2. UNCHANGED <<diskVars, current, writerVars, todo, aggregations, slaveVars>>
  BY DEF SynchronizeMissingSerials
<1>4. /\ Paired /\ registered[current] = Streams /\ Checked("int") /\ Checked("zeta")
      /\ ~AtWork /\ ~Registering /\ program # <<>> /\ current \in 1 .. runs
      /\ Resynchronized /\ "int" \in Streams /\ "zeta" \in Streams
  BY SynchronizeDoes, StreamTypes
<1>6. Lacking("int") \in SUBSET Configs /\ Lacking("zeta") \in SUBSET Configs
  BY <1>4, LackingTypes DEF IInv
<1>9. program' \in Seq(Operation)
  <2>. DEFINE i == Recheck("int", Lacking("int"))
              z == Recheck("zeta", Lacking("zeta"))
              x == I("commit")
              y == Z("commit")
  <2>1. i \in Operation /\ z \in Operation /\ x \in Operation /\ y \in Operation
    BY <1>4, <1>6, OperationTypes DEF I, Z
  <2>2. \/ program' = <<i, z, x, y>> \/ program' = <<i, x, y>>
        \/ program' = <<z, x, y>> \/ program' = <<x, y>>
    BY <1>4 DEF Resynchronized
  <2>. HIDE DEF i, z, x, y
  <2>3. /\ <<i, z, x, y>> \in Seq(Operation) /\ <<i, x, y>> \in Seq(Operation)
        /\ <<z, x, y>> \in Seq(Operation) /\ <<x, y>> \in Seq(Operation)
    BY ONLY <2>1
  <2>. QED BY ONLY <2>2, <2>3
<1>10. UNCHANGED <<runs, registered, container, failed, missing, fail, current>>
  BY <1>2 DEF diskVars, writerVars
<1>11. Stage'
  <2>1. /\ Checked("int")' /\ Checked("zeta")' /\ registered'[current'] = Streams
        /\ Lacking("int")' = Lacking("int") /\ Lacking("zeta")' = Lacking("zeta")
        /\ current' \in 1 .. runs'
    BY <1>4, <1>10 DEF Checked, Lacking
  <2>2. ClosingPair'
    BY <1>4, <1>10, <2>1 DEF ClosingPair, Resynchronized
  <2>. QED BY <2>1, <2>2 DEF Stage
<1>12. TypeOK'
  BY <1>2, <1>9 DEF IInv, TypeOK, diskVars, writerVars, slaveVars
<1>13. OnDisk'
  BY <1>2, DiskStays DEF IInv
<1>14. Slaving'
  <2>1. UNCHANGED <<todo, seed, current, container, failed, doing>>
    BY <1>2 DEF diskVars, writerVars, slaveVars
  <2>2. todo' = {} /\ \A w \in Slaves : doing'[w] = None
    BY <1>4, <2>1 DEF IInv, Slaving
  <2>3. seed[current] # 0 => \A s \in Streams : failed[s] \cap Held(seed[current], s) = {}
    BY <1>4 DEF IInv, Slaving
  <2>. QED BY <1>4, <2>1, <2>2, <2>3, Resting
<1>. QED BY <1>11, <1>12, <1>13, <1>14 DEF IInv

\* RecheckWriter keeps the invariant.
LEMMA RecheckStep ==
  ASSUME IInv, RecheckWriter
  PROVE  IInv'
<1>1. (ClosingPair \/ ClosingOne) /\ current \in 1 .. runs
  BY StageTells DEF IInv, RecheckWriter, Doing
<1>. PICK c \in Runs : c = current
  BY <1>1, CurrentRun DEF IInv
<1>2. /\ program # <<>> /\ Head(program).op = "recheck" /\ program' = Tail(program)
      /\ UNCHANGED <<runs, registered, record, seed, current, todo, aggregations, slaveVars>>
      /\ CheckIntegrity(OnWriter, Head(program).serials)
  BY DEF RecheckWriter, Doing, Idle
<1>3. ~AtWork /\ ~Registering /\ ~ClosingOne
  BY <1>2 DEF AtWork, Registering, ClosingOne, I, Z, Op
<1>4. /\ Paired /\ registered[c] = Streams /\ Checked("int") /\ Checked("zeta")
      /\ \/ program = <<Recheck("int", Lacking("int")), Recheck("zeta", Lacking("zeta")),
                        I("commit"), Z("commit")>>
         \/ /\ program = <<Recheck("int", Lacking("int")), I("commit"), Z("commit")>>
            /\ Lacking("zeta") = {}
         \/ /\ program = <<Recheck("zeta", Lacking("zeta")), I("commit"), Z("commit")>>
            /\ Lacking("int") = {}
  BY <1>1, <1>2, <1>3 DEF ClosingPair, I, Z, Op
<1>5. Streams = {"int", "zeta"}
  BY <1>4, StreamTypes
<1>. DEFINE all == missing["int"] \cup missing["zeta"]
\* A second check of s makes its missing serials those of both.
<1>6. ASSUME NEW s \in Streams, OnWriter = s, Head(program).serials = Lacking(s)
      PROVE  /\ TypeOK' /\ OnDisk' /\ Slaving'
             /\ Checked("int")' /\ Checked("zeta")'
             /\ missing'[s] = all
             /\ \A t \in Streams \ {s} : missing'[t] = missing[t]
  <2>. DEFINE F == Lacking(s)
              total == MissingSerials(container[c][s], failed[s] \cup F)
  <2>1. F \in SUBSET Configs
    BY <1>4, LackingTypes DEF IInv
  <2>2. CheckIntegrity(s, F) /\ current' = current /\ Checked(s)
    BY <1>2, <1>4, <1>5, <1>6
  <2>3. total = all
    <3>1. total = MissingSerials(container[c][s], {}) \cup (failed[s] \cup F)
      BY MissingReported
    <3>2. MissingSerials(container[c][s], {}) = missing[s] /\ failed[s] \subseteq missing[s]
      BY <2>2 DEF Checked, Fixed
    <3>. QED BY <1>5, <3>1, <3>2 DEF Lacking
  <2>4. total = {} => missing[s] = {}
    BY <1>5, <2>3
  <2>5. Effects(c, s, F, total)
    <3>. HIDE DEF F
    <3>. QED BY <2>1, <2>2, <2>4, CheckEffect
  <2>6. seed[c] # 0 => F \cap Held(seed[c], s) = {}
    <3>. SUFFICES ASSUME seed[c] # 0 PROVE F \cap Held(seed[c], s) = {}
      OBVIOUS
    <3>1. /\ seed[c] \in Runs /\ Seedable(seed[c])
          /\ \A t \in Streams : MissingSerials(container[c][t], {}) \cap Held(seed[c], t) = {}
      BY DEF IInv, OnDisk, Seeded
    <3>2. \A t \in Streams : missing[t] = MissingSerials(container[c][t], {})
      BY <1>4, <1>5 DEF Checked, Fixed
    <3>3. \A t \in Streams : Held(seed[c], t) = Held(seed[c], s)
      BY <3>1, SeedHeld DEF IInv
    <3>4. \A t \in Streams : missing[t] \cap Held(seed[c], s) = {}
      BY <3>1, <3>2, <3>3
    <3>. QED BY <1>5, <3>4 DEF Lacking
  <2>7. OnDisk' /\ Slaving'
    <3>1. "int" \in registered[c] /\ s \in registered[c] /\ c \in 1 .. runs
      BY <1>1, <1>4, <1>5
    <3>. HIDE DEF F
    <3>. QED BY <1>2, <1>3, <2>1, <2>2, <2>4, <2>6, <3>1, CheckKeeps
  <2>. HIDE DEF F, total
  <2>8. /\ container' \in [Runs -> [Streams -> SUBSET AllRows]]
        /\ failed' \in [Streams -> SUBSET Configs]
        /\ missing' \in [Streams -> SUBSET Configs]
        /\ fail' \in [Streams -> BOOLEAN]
        /\ Checked(s)' /\ missing'[s] = total
        /\ \A t \in Streams \ {s} :
              /\ missing'[t] = missing[t] /\ failed'[t] = failed[t] /\ fail'[t] = fail[t]
              /\ container'[c][t] = container[c][t]
    BY <2>5 DEF Effects
  <2>9. TypeOK'
    BY <1>2, <2>8, CloseTypes DEF IInv
  <2>10. ASSUME NEW t \in Streams \ {s} PROVE Checked(t)'
    <3>1. Checked(t)
      BY <1>4, <1>5
    <3>. QED BY <2>2, <2>8, <3>1 DEF Checked
  <2>11. Checked("int")' /\ Checked("zeta")'
    BY <1>5, <2>8, <2>10
  <2>. QED BY <2>3, <2>7, <2>8, <2>9, <2>11
<1>7. current' \in 1 .. runs' /\ registered'[current'] = Streams
  BY <1>1, <1>2, <1>4
<1>8. CASE program = <<Recheck("int", Lacking("int")), Recheck("zeta", Lacking("zeta")),
                        I("commit"), Z("commit")>>
  <2>1. OnWriter = "int" /\ Head(program).serials = Lacking("int")
    BY <1>8 DEF OnWriter, Recheck, Op
  <2>2. /\ TypeOK' /\ OnDisk' /\ Slaving' /\ Checked("int")' /\ Checked("zeta")'
        /\ missing'["int"] = all /\ missing'["zeta"] = missing["zeta"]
    BY <1>5, <1>6, <2>1
  <2>3. Lacking("zeta")' = Lacking("zeta")
    BY <2>2 DEF Lacking
  <2>4. program' = <<Recheck("zeta", Lacking("zeta")), I("commit"), Z("commit")>>
    BY <1>2, <1>8
  <2>5. Lacking("int")' = {}
    BY <2>2 DEF Lacking
  <2>6. ClosingPair'
    BY <1>4, <1>7, <2>2, <2>3, <2>4, <2>5 DEF ClosingPair
  <2>. QED BY <1>7, <2>2, <2>6 DEF IInv, Stage
<1>9. CASE /\ program = <<Recheck("int", Lacking("int")), I("commit"), Z("commit")>>
           /\ Lacking("zeta") = {}
  <2>1. OnWriter = "int" /\ Head(program).serials = Lacking("int")
    BY <1>9 DEF OnWriter, Recheck, Op
  <2>2. /\ TypeOK' /\ OnDisk' /\ Slaving' /\ Checked("int")' /\ Checked("zeta")'
        /\ missing'["int"] = all /\ missing'["zeta"] = missing["zeta"]
    BY <1>5, <1>6, <2>1
  <2>3. missing'["int"] = missing'["zeta"]
    BY <1>9, <2>2 DEF Lacking
  <2>4. program' = <<I("commit"), Z("commit")>>
    BY <1>2, <1>9
  <2>5. ClosingPair'
    BY <1>4, <1>7, <2>2, <2>3, <2>4 DEF ClosingPair
  <2>. QED BY <1>7, <2>2, <2>5 DEF IInv, Stage
<1>10. CASE /\ program = <<Recheck("zeta", Lacking("zeta")), I("commit"), Z("commit")>>
            /\ Lacking("int") = {}
  <2>1. OnWriter = "zeta" /\ Head(program).serials = Lacking("zeta")
    BY <1>10 DEF OnWriter, Recheck, Op
  <2>2. /\ TypeOK' /\ OnDisk' /\ Slaving' /\ Checked("int")' /\ Checked("zeta")'
        /\ missing'["zeta"] = all /\ missing'["int"] = missing["int"]
    BY <1>5, <1>6, <2>1
  <2>3. missing'["int"] = missing'["zeta"]
    BY <1>10, <2>2 DEF Lacking
  <2>4. program' = <<I("commit"), Z("commit")>>
    BY <1>2, <1>10
  <2>5. ClosingPair'
    BY <1>4, <1>7, <2>2, <2>3, <2>4 DEF ClosingPair
  <2>. QED BY <1>7, <2>2, <2>5 DEF IInv, Stage
<1>. QED BY <1>4, <1>8, <1>9, <1>10

\* One writer commits; if both have still to, the integration is the first.
LEMMA CommitKeeps ==
  ASSUME IInv, NEW c \in Runs, c = current, c \in 1 .. runs,
         NEW s \in Streams, s = OnWriter, s \in registered[c], Checked(s),
         CommitWriter,
         s = "int" /\ "zeta" \in registered[c] =>
           Checked("zeta") /\ missing["int"] = missing["zeta"],
         s = "zeta" => "int" \notin registered[c]
  PROVE  /\ OnDisk' /\ TypeOK' /\ Slaving'
         /\ registered'[c] = registered[c] \ {s}
<1>1. /\ UNCHANGED <<runs, container, seed, current, writerVars, todo, aggregations, slaveVars>>
      /\ program # <<>> /\ Head(program).op = "commit" /\ program' = Tail(program)
      /\ record' = [record EXCEPT ![c][s] =
           [state |-> "committed", missing |-> missing[s], fail |-> fail[s]]]
      /\ registered' = [registered EXCEPT ![c] = @ \ {s}]
  BY DEF CommitWriter, Doing, Idle
<1>2. /\ record \in [Runs -> [Streams -> Record]] /\ registered \in [Runs -> SUBSET Streams]
      /\ missing[s] \in SUBSET Configs /\ fail[s] \in BOOLEAN
  BY DEF IInv, TypeOK
<1>. PICK new \in Record :
       new = [state |-> "committed", missing |-> missing[s], fail |-> fail[s]]
  BY <1>2 DEF Record
<1>3. new.state = "committed" /\ new.missing = missing[s] /\ new.fail = fail[s]
  OBVIOUS
<1>4. /\ record' \in [Runs -> [Streams -> Record]] /\ record'[c][s] = new
      /\ \A t \in Streams \ {s} : record'[c][t] = record[c][t]
      /\ \A r \in Runs \ {c} : record'[r] = record[r]
  <2>1. record' = [record EXCEPT ![c][s] = new]
    BY <1>1
  <2>. QED BY <1>2, <2>1
<1>5. /\ registered' \in [Runs -> SUBSET Streams] /\ registered'[c] = registered[c] \ {s}
      /\ \A r \in Runs \ {c} : registered'[r] = registered[r]
  BY <1>1, <1>2
<1>6. TypeOK'
  <2>1. program' \in Seq(Operation)
    BY <1>1, HeadTailProperties DEF IInv, TypeOK
  <2>. QED BY <1>1, <1>4, <1>5, <2>1 DEF IInv, TypeOK, writerVars, slaveVars
<1>7. ~Seedable(c) /\ OnlyGroup(c)
  BY <1>1, <1>4, <1>5, NotASeed DEF IInv, OnlyGroup
<1>8. Unused(c)'
  BY <1>1 DEF Unused, IInv, TypeOK, Runs
<1>9. Sound(c) /\ Matched(c) /\ Seeded(c)
  BY DEF IInv, OnDisk
<1>10. Fixed(container[c][s], missing[s]) /\ (missing[s] # {} => fail[s])
  BY DEF Checked
<1>11. Sound(c)'
  <2>. SUFFICES ASSUME NEW t \in Streams, Committed(c, t)'
                PROVE  (/\ t \notin registered[c]
                        /\ Fixed(container[c][t], record[c][t].missing)
                        /\ record[c][t].missing # {} => record[c][t].fail)'
    BY DEF Sound
  <2>1. CASE t = s
    BY <1>1, <1>3, <1>4, <1>5, <1>10, <2>1
  <2>2. CASE t # s
    <3>1. record'[c][t] = record[c][t] /\ Committed(c, t)
      BY <1>4, <2>2 DEF Committed
    <3>. QED BY <1>1, <1>5, <1>9, <3>1 DEF Sound
  <2>. QED BY <2>1, <2>2
<1>12. Matched(c)'
  <2>. SUFFICES ASSUME Paired PROVE Matched(c)'
    BY DEF Matched
  <2>0. Streams = {"int", "zeta"}
    BY StreamTypes
  <2>1. CASE s = "int"
    <3>1. /\ record'[c]["int"] = new /\ record'[c]["zeta"] = record[c]["zeta"]
          /\ registered'[c] = registered[c] \ {"int"}
      BY <1>4, <1>5, <2>0, <2>1
    <3>2. ~Committed(c, "zeta")'
      BY <1>9, <2>1, <3>1 DEF Matched, Committed
    <3>3. ASSUME "zeta" \in registered'[c]
          PROVE  /\ Committed(c, "int")'
                 /\ MissingSerials(container'[c]["zeta"], {}) = record'[c]["int"].missing
      <4>1. MissingSerials(container[c]["zeta"], {}) = missing["zeta"]
            /\ missing["int"] = missing["zeta"]
        BY <2>1, <3>1, <3>3 DEF Checked, Fixed
      <4>. QED BY <1>1, <1>3, <2>1, <3>1, <4>1 DEF Committed
    <3>. QED BY <3>1, <3>2, <3>3 DEF Matched
  <2>2. CASE s = "zeta"
    <3>1. /\ record'[c]["zeta"] = new /\ record'[c]["int"] = record[c]["int"]
          /\ registered'[c] = registered[c] \ {"zeta"}
      BY <1>4, <1>5, <2>0, <2>2
    <3>2. "int" \notin registered'[c] /\ "zeta" \notin registered'[c]
      BY <2>2, <3>1
    <3>3. ASSUME Committed(c, "int")' PROVE record'[c]["int"].missing = missing["zeta"]
      <4>1. Committed(c, "int") /\ record[c]["int"].state # "rejected"
        BY <3>1, <3>3 DEF Committed
      <4>2. MissingSerials(container[c]["zeta"], {}) = record[c]["int"].missing
        BY <1>9, <2>2, <4>1 DEF Matched
      <4>. QED BY <1>10, <2>2, <3>1, <4>2 DEF Fixed
    <3>. QED BY <1>3, <2>2, <3>1, <3>2, <3>3 DEF Matched
  <2>. QED BY <2>1, <2>2, StreamTypes
<1>13. Seeded(c)'
  BY <1>1, <1>7, <1>9, SeededStays DEF IInv, Seeded
<1>14. OnDisk'
  BY <1>7, <1>8, <1>11, <1>12, <1>13, OnDiskByGroup DEF IInv
<1>15. Slaving'
  <2>1. ~AtWork /\ ~Registering
    BY <1>1 DEF AtWork, Registering, I, Z, Op
  <2>2. UNCHANGED <<todo, seed, current, container, failed, doing>>
    BY <1>1 DEF writerVars, slaveVars
  <2>3. todo' = {} /\ \A w \in Slaves : doing'[w] = None
    BY <2>1, <2>2 DEF IInv, Slaving
  <2>4. seed[current] # 0 => \A t \in Streams : failed[t] \cap Held(seed[current], t) = {}
    BY <1>1 DEF IInv, Slaving
  <2>. QED BY <1>1, <2>2, <2>3, <2>4, Resting
<1>. QED BY <1>5, <1>6, <1>14, <1>15

\* CommitWriter keeps the invariant.
LEMMA CommitStep ==
  ASSUME IInv, CommitWriter
  PROVE  IInv'
<1>1. (ClosingPair \/ ClosingOne) /\ current \in 1 .. runs
  BY StageTells DEF IInv, CommitWriter, Doing
<1>. PICK c \in Runs : c = current
  BY <1>1, CurrentRun DEF IInv
<1>2. /\ Head(program).op = "commit" /\ program' = Tail(program)
      /\ UNCHANGED <<runs, container, current, writerVars>>
  BY DEF CommitWriter, Doing
<1>3. c \in 1 .. runs /\ current' \in 1 .. runs'
  BY <1>1, <1>2
<1>4. CASE ClosingPair
  <2>1. /\ Paired /\ registered[c] = {"int", "zeta"} /\ Checked("int") /\ Checked("zeta")
        /\ program = <<I("commit"), Z("commit")>> /\ missing["int"] = missing["zeta"]
        /\ "int" \in Streams /\ "zeta" \in Streams
    BY <1>2, <1>4, StreamTypes DEF ClosingPair, I, Z, Op, Recheck
  <2>2. OnWriter = "int"
    BY <2>1 DEF OnWriter, I, Op
  <2>3. OnDisk' /\ TypeOK' /\ Slaving' /\ registered'[c] = {"zeta"}
    <3>1. "int" \in registered[c] /\ registered[c] \ {"int"} = {"zeta"}
      BY <2>1
    <3>. QED BY <1>3, <2>1, <2>2, <3>1, CommitKeeps
  <2>4. program' = <<Op("commit", "zeta")>>
    BY <1>2, <2>1 DEF Z
  <2>5. Checked("zeta")'
    BY <1>2, <2>1 DEF Checked, writerVars
  <2>6. ClosingOne'
    BY <1>2, <2>1, <2>3, <2>4, <2>5 DEF ClosingOne
  <2>. QED BY <1>3, <2>3, <2>6 DEF IInv, Stage
<1>5. CASE ClosingOne
  <2>1. PICK s \in Streams :
          registered[c] = {s} /\ program = <<Op("commit", s)>> /\ Checked(s)
    BY <1>2, <1>5 DEF ClosingOne, Op
  <2>2. OnWriter = s
    BY <2>1 DEF OnWriter, Op
  <2>3. program' = <<>>
    BY <1>2, <2>1
  <2>4. OnDisk' /\ TypeOK' /\ Slaving'
    BY <1>3, <2>1, <2>2, CommitKeeps
  <2>. QED BY <2>3, <2>4 DEF IInv, Stage
<1>. QED BY <1>1, <1>4, <1>5

-----------------------------------------------------------------------------
(* The theorems                                                            *)

\* Every step keeps the invariant.
LEMMA StepInvariant == IInv /\ [Next]_vars => IInv'
<1>. SUFFICES ASSUME IInv, [Next]_vars PROVE IInv'
  OBVIOUS
<1>1. CASE UNCHANGED vars
  <2>1. UNCHANGED <<diskVars, program, current, writerVars, todo, aggregations, slaveVars>>
    BY <1>1 DEF vars
  <2>2. OnDisk'
    BY <2>1, DiskStays DEF IInv
  <2>3. TypeOK'
    BY <2>1 DEF IInv, TypeOK, diskVars, writerVars, slaveVars
  <2>4. AtWork' = AtWork /\ Registering' = Registering
    BY <2>1 DEF AtWork, Registering, Fresh, diskVars, writerVars
  <2>5. ClosingPair' = ClosingPair /\ ClosingOne' = ClosingOne /\ Aborting' = Aborting
    BY <2>1 DEF ClosingPair, ClosingOne, Aborting, Fresh, Checked, Lacking, diskVars, writerVars
  <2>6. Stage'
    BY <2>1, <2>4, <2>5 DEF IInv, Stage, diskVars
  <2>7. Slaving'
    BY <2>1, <2>4 DEF IInv, Slaving, Held, diskVars, writerVars, slaveVars
  <2>. QED BY <2>2, <2>3, <2>6, <2>7 DEF IInv
<1>2. CASE MasterNext
  BY <1>2, BeginStep, RegisterStep, AggregateStep, FinishStep, CheckStep, SynchronizeStep,
     RecheckStep, CommitStep, ThrowStep, AbortIntegrationStep, AbortPostintegrationStep,
     RecoverStep DEF MasterNext
<1>3. CASE \E w \in Slaves : SlaveNext(w)
  BY <1>3, StartStep, RefineStep, CloseStep, PushStep, SucceedStep, FailStep DEF SlaveNext
<1>4. CASE Crash
  BY <1>4, CrashStep
<1>. QED BY <1>1, <1>2, <1>3, <1>4 DEF Next, Finished

\* The stages of a task, what is on disk and what the slaves may do: the
\* invariant holds in every reachable state, crashes and recoveries included.
THEOREM ContentInvariant == Spec => []IInv
BY InitInvariant, StepInvariant, PTL DEF Spec

\* Every variable keeps to its type: the master's program, in particular, is
\* always made of the operations of task and recovery, on writers there are.
THEOREM ContentTypes == Spec => []TypeOK
<1>1. IInv => TypeOK
  BY DEF IInv
<1>. QED BY <1>1, ContentInvariant, PTL

\* The missing serials a committed group records (integrity check, commit)
\* are those its container has no rows for, whatever failed on the way.
THEOREM ContentMissing == Spec => []MissingExact
<1>1. IInv => MissingExact
  BY DEF IInv, OnDisk, Sound, Fixed, MissingExact, Held
<1>. QED BY <1>1, ContentInvariant, PTL

\* The groups of a pair miss the same serials (synchronize_missing_serials()
\* and recovery of pairs and of one group of a pair).
THEOREM ContentPairs == Spec => []PairAgrees
<1>1. IInv => PairAgrees
  <2>. SUFFICES ASSUME IInv, NEW r \in Runs, NEW s \in Streams, NEW t \in Streams,
                       Committed(r, s), Committed(r, t)
                PROVE  record[r][s].missing = record[r][t].missing
    BY DEF PairAgrees
  <2>1. Matched(r)
    BY DEF IInv, OnDisk
  <2>. QED BY <2>1, StreamTypes DEF Matched
<1>. QED BY <1>1, ContentInvariant, PTL

\* A committed group whose record does not say that it failed is complete
\* (the writer's fail flag as the integrity check leaves it).
THEOREM ContentUnfailed == Spec => []UnfailedHasAll
<1>1. IInv => UnfailedHasAll
  <2>. SUFFICES ASSUME IInv, NEW r \in Runs, NEW s \in Streams,
                       Committed(r, s), ~record[r][s].fail
                PROVE  Held(r, s) = Configs
    BY DEF UnfailedHasAll
  <2>1. Sound(r) /\ container[r][s] \subseteq AllRows
    BY DEF IInv, OnDisk, TypeOK
  <2>2. {} = Configs \ Held(r, s)
    BY <2>1 DEF Sound, Fixed, Held
  <2>3. Held(r, s) \subseteq Configs
    BY <2>1, PresentTypes DEF Held
  <2>. QED BY <2>2, <2>3
<1>. QED BY <1>1, ContentInvariant, PTL

\* A seeded group loses nothing of what its seed holds (seed_writer() and the
\* shortened work queue), in any number of runs seeded one from the other.
THEOREM ContentSeeds == Spec => []SeedPreserved
<1>1. IInv => SeedPreserved
  <2>. SUFFICES ASSUME IInv, NEW r \in Runs, NEW s \in Streams,
                       Committed(r, s), seed[r] # 0
                PROVE  Held(seed[r], s) \subseteq Held(r, s)
    BY DEF SeedPreserved
  <2>1. Sound(r) /\ Seeded(r)
    BY DEF IInv, OnDisk
  <2>2. seed[r] \in Runs /\ Seedable(seed[r])
    BY <2>1 DEF Seeded
  <2>3. MissingSerials(container[r][s], {}) \cap Held(seed[r], s) = {}
    BY <2>1 DEF Seeded
  <2>4. MissingSerials(container[r][s], {}) = Configs \ Held(r, s)
    BY <2>1 DEF Sound, Fixed, Held
  <2>5. Held(seed[r], s) \subseteq Configs
    BY <2>2, SeedHeld DEF IInv
  <2>. QED BY <2>3, <2>4, <2>5
<1>. QED BY <1>1, ContentInvariant, PTL
=============================================================================
