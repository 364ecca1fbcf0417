------------------------- MODULE ContentRowsProofs -------------------------
(***************************************************************************)
(* Proofs about the rows themselves: that no row is ever in two places, or *)
(* produced twice, whatever fails, crashes or is recovered, and that what  *)
(* a group stores of a configuration is whole unless an aborted or killed  *)
(* task is recovered.                                                      *)
(*                                                                         *)
(* The argument.  A configuration that waits in the queue has no row       *)
(* anywhere (Waiting), also in a group that is seeded: what a check finds  *)
(* missing it clears of every row (Tidy).  While a slave has it, its rows  *)
(* are in that slave's batchers and nowhere else, and are the samples      *)
(* pushed so far (InHand).  When it is done they are all together, in one  *)
(* batcher or one container, and travel together from then on, unless it   *)
(* failed (BatchesWhole); a failure is known to the integration writer,    *)
(* and the check or the synchronization of the pair drops what is left.    *)
(*                                                                         *)
(* What is committed is then whole because the closing writers still know  *)
(* of every failure (WholeInv).  A recovery does not, so the last theorem  *)
(* is about jobs that are not killed and pairs that are not aborted.       *)
(***************************************************************************)
EXTENDS ContentGroupProofs

-----------------------------------------------------------------------------
(* The invariant                                                           *)

\* Nothing is left of the configurations cs; and of every other all rows
\* are there, or none.
Cleared(rows, cs) == \A c \in cs : Rows(c) \cap rows = {}
WholeBut(rows, cs) ==
  \A c \in Configs \ cs : Rows(c) \subseteq rows \/ Rows(c) \cap rows = {}

\* The main container of the task in hand.
Main(s) == IF program = <<>> THEN {} ELSE container[current][s]

\* The rows of its configuration a slave has pushed.
PushedRows(w) == UNION {RowsAt(doing[w], j) : j \in 1 .. pushed[w]}

\* No row of c is stored or on its way to the main container; none is with w.
Unstored(c) ==
  \A s \in Streams :
    /\ Rows(c) \cap Main(s) = {}
    /\ \A k \in DOMAIN aggregations : Rows(c) \cap Queued(k, s) = {}
Unheld(c, w) == \A s \in Streams : Rows(c) \cap cache[w][s] = {}

\* Rows are under way only while the task is at work.
NothingHeld == aggregations = <<>> /\ \A w \in Slaves : cache[w] = NoWriters
Quiet == AtWork \/ NothingHeld

\* Batchers, containers on their way and the main container share no row.
Apart ==
  \A s \in Streams :
    /\ \A w \in Slaves : cache[w][s] \cap Main(s) = {}
    /\ \A v, w \in Slaves : v # w => cache[v][s] \cap cache[w][s] = {}
    /\ \A k \in DOMAIN aggregations :
         /\ Queued(k, s) \cap Main(s) = {}
         /\ \A w \in Slaves : Queued(k, s) \cap cache[w][s] = {}
         /\ \A l \in DOMAIN aggregations : k # l => Queued(k, s) \cap Queued(l, s) = {}

\* A configuration in the queue has no rows yet.
Waiting == \A c \in todo : Unstored(c) /\ \A w \in Slaves : Unheld(c, w)

\* A configuration in hand is with one slave, and so are its rows.
InHand ==
  \A w \in Slaves, c \in Configs : doing[w] = c =>
    /\ c \notin todo /\ Unstored(c)
    /\ \A v \in Slaves \ {w} : doing[v] # c /\ Unheld(c, v)
    /\ \A s \in Streams : cache[w][s] \cap Rows(c) = PushedRows(w)

\* What has been done and has not failed travels whole.
BatchesWhole ==
  /\ \A w \in Slaves, s \in Streams :
       WholeBut(cache[w][s], failed["int"] \cup {doing[w]})
  /\ \A k \in DOMAIN aggregations : WholeBut(aggregations[k].rows, failed["int"])

\* What is recorded as missing, or will be, has left no rows behind.
Tidy ==
  /\ \A r \in Runs, s \in Streams :
       Committed(r, s) => Cleared(container[r][s], record[r][s].missing)
  /\ \A s \in Streams : Cleared(Main(s), missing[s])

RowsInv == Quiet /\ Apart /\ Waiting /\ InHand /\ BatchesWhole /\ Tidy

-----------------------------------------------------------------------------
(* Rows of different configurations and samples                            *)

\* A row belongs to one configuration and one sample.
LEMMA OneRow ==
  ASSUME NEW c \in Configs, NEW d \in Configs, NEW i, NEW j,
         NEW q, q \in RowsAt(c, i), q \in RowsAt(d, j)
  PROVE  c = d /\ i = j
<1>1. q = <<"npf", c, i>> \/ \E k \in Stored(c) : q = <<"twopf", k, i>>
  BY DEF RowsAt
<1>2. q = <<"npf", d, j>> \/ \E k \in Stored(d) : q = <<"twopf", k, j>>
  BY DEF RowsAt
<1>3. q[3] = i /\ q[3] = j
  BY <1>1, <1>2
<1>4. CASE q = <<"npf", c, i>>
  <2>1. q[1] = "npf" /\ q[2] = c
    BY <1>4
  <2>2. \A k : q # <<"twopf", k, j>>
    <3>. SUFFICES ASSUME NEW k, q = <<"twopf", k, j>> PROVE FALSE
      OBVIOUS
    <3>1. q[1] = "twopf"
      OBVIOUS
    <3>. QED BY <2>1, <3>1
  <2>3. q[2] = d
    BY <1>2, <2>2
  <2>. QED BY <1>3, <2>1, <2>3
<1>5. ASSUME NEW k \in Stored(c), q = <<"twopf", k, i>> PROVE c = d
  <2>1. q[1] = "twopf" /\ q[2] = k
    BY <1>5
  <2>2. q # <<"npf", d, j>>
    <3>. SUFFICES ASSUME q = <<"npf", d, j>> PROVE FALSE
      OBVIOUS
    <3>1. q[1] = "npf"
      OBVIOUS
    <3>. QED BY <2>1, <3>1
  <2>3. PICK l \in Stored(d) : q = <<"twopf", l, j>>
    BY <1>2, <2>2
  <2>4. q[2] = l
    BY <2>3
  <2>. QED BY <2>1, <2>4, OneOwner
<1>. QED BY <1>1, <1>3, <1>4, <1>5

\* So configurations share no rows.
LEMMA RowsDiffer ==
  ASSUME NEW c \in Configs, NEW d \in Configs, c # d
  PROVE  Rows(c) \cap Rows(d) = {}
BY OneRow DEF Rows

\* A configuration has a row, so having none of its rows is not having all.
LEMMA HasARow ==
  ASSUME NEW c \in Configs
  PROVE  1 \in 1 .. Samples /\ <<"npf", c, 1>> \in Rows(c)
BY BoundsAssumption DEF Rows, RowsAt

\* A configuration found in a container is one with rows there.
LEMMA PresentHasRows ==
  ASSUME NEW c \in Configs, NEW rows, rows \subseteq AllRows, c \in Present(rows)
  PROVE  Rows(c) \cap rows # {}
<1>1. PICK q \in rows : q[1] = "npf" /\ q[2] = c
  BY DEF Present, SerialsIn
<1>2. PICK d \in Configs, j \in 1 .. Samples : q \in RowsAt(d, j)
  BY DEF AllRows, Rows
<1>3. q = <<"npf", d, j>>
  <2>1. ASSUME NEW k, q = <<"twopf", k, j>> PROVE FALSE
    <3>1. q[1] = "twopf"
      BY <2>1
    <3>. QED BY <1>1, <3>1
  <2>. QED BY <1>2, <2>1 DEF RowsAt
<1>4. d = c
  BY <1>1, <1>3
<1>. QED BY <1>2, <1>4, RowTypes

\* The samples pushed are all of them at the end, and none at the start.
LEMMA RowsPushed ==
  ASSUME NEW w \in Slaves, doing[w] \in Configs, pushed[w] \in 0 .. Samples
  PROVE  /\ PushedRows(w) \subseteq Rows(doing[w])
         /\ pushed[w] = Samples => PushedRows(w) = Rows(doing[w])
         /\ pushed[w] = 0 => PushedRows(w) = {}
         /\ ToCome(w) \subseteq Rows(doing[w])
         /\ ToCome(w) \cap PushedRows(w) = {}
<1>1. /\ 1 .. pushed[w] \subseteq 1 .. Samples
      /\ pushed[w] + 1 .. Samples \subseteq 1 .. Samples
      /\ \A i \in 1 .. pushed[w], j \in pushed[w] + 1 .. Samples : i # j
      /\ pushed[w] = 0 => 1 .. pushed[w] = {}
  BY BoundsAssumption
<1>2. PushedRows(w) \subseteq Rows(doing[w]) /\ ToCome(w) \subseteq Rows(doing[w])
  BY <1>1 DEF PushedRows, ToCome, Rows
<1>3. pushed[w] = Samples => PushedRows(w) = Rows(doing[w])
  BY DEF PushedRows, Rows
<1>4. pushed[w] = 0 => PushedRows(w) = {}
  BY <1>1 DEF PushedRows
<1>5. ToCome(w) \cap PushedRows(w) = {}
  <2>. SUFFICES ASSUME NEW q \in ToCome(w), q \in PushedRows(w) PROVE FALSE
    OBVIOUS
  <2>1. PICK i \in 1 .. pushed[w] : q \in RowsAt(doing[w], i)
    BY DEF PushedRows
  <2>2. PICK j \in pushed[w] + 1 .. Samples : q \in RowsAt(doing[w], j)
    BY DEF ToCome
  <2>. QED BY <1>1, <2>1, <2>2, OneRow
<1>. QED BY <1>2, <1>3, <1>4, <1>5

\* Dropping serials clears them of every row, and leaves the others alone.
LEMMA DroppedWhole ==
  ASSUME NEW rows, NEW cs \in SUBSET Configs
  PROVE  /\ Cleared(Dropped(rows, cs), cs)
         /\ \A c \in Configs \ cs : Rows(c) \cap Dropped(rows, cs) = Rows(c) \cap rows
<1>1. Cleared(Dropped(rows, cs), cs)
  <2>. SUFFICES ASSUME NEW c \in cs, NEW q \in Rows(c), q \in Dropped(rows, cs) PROVE FALSE
    BY DEF Cleared
  <2>1. PICK j \in 1 .. Samples : q \in RowsAt(c, j)
    BY DEF Rows
  <2>2. q # <<"npf", c, j>>
    BY DEF Dropped
  <2>3. PICK k \in Stored(c) : q = <<"twopf", k, j>>
    BY <2>1, <2>2 DEF RowsAt
  <2>4. q[1] = "twopf" /\ q[2] = k /\ k \in TwopfDropList(cs)
    BY <2>3 DEF TwopfDropList
  <2>. QED BY <2>4 DEF Dropped
<1>2. ASSUME NEW c \in Configs \ cs, NEW q \in Rows(c), q \in rows
      PROVE  q \in Dropped(rows, cs)
  <2>1. PICK j \in 1 .. Samples : q \in RowsAt(c, j)
    BY <1>2 DEF Rows
  <2>2. CASE q = <<"npf", c, j>>
    <3>1. q[1] = "npf" /\ q[2] = c /\ c \notin cs
      BY <2>2
    <3>. QED BY <1>2, <3>1 DEF Dropped
  <2>3. ASSUME NEW k \in Stored(c), q = <<"twopf", k, j>>
        PROVE  q \in Dropped(rows, cs)
    <3>1. q[1] = "twopf" /\ q[2] = k
      BY <2>3
    <3>2. k \notin TwopfDropList(cs)
      <4>. SUFFICES ASSUME NEW d \in cs, k \in Stored(d) PROVE FALSE
        BY DEF TwopfDropList
      <4>. QED BY OneOwner
    <3>. QED BY <1>2, <3>1, <3>2 DEF Dropped
  <2>. QED BY <2>1, <2>2, <2>3 DEF RowsAt
<1>3. Dropped(rows, cs) \subseteq rows
  BY DroppedRows
<1>. QED BY <1>1, <1>2, <1>3

\* How WholeBut fares: no rows, fewer promises, two parts joined, one
\* configuration added or withdrawn, serials dropped.
LEMMA WholeParts ==
  ASSUME NEW rows, NEW more, NEW cs, NEW ds
  PROVE  /\ WholeBut({}, cs)
         /\ WholeBut(rows, cs) /\ cs \subseteq ds => WholeBut(rows, ds)
         /\ WholeBut(rows, cs) /\ WholeBut(more, cs) => WholeBut(rows \cup more, cs)
BY DEF WholeBut

\* A configuration that is excused may come and go, in part too.
LEMMA WholeWithin ==
  ASSUME NEW c \in Configs, NEW rows, NEW some, some \subseteq Rows(c), NEW cs,
         WholeBut(rows, cs \cup {c})
  PROVE  WholeBut(rows \cup some, cs \cup {c}) /\ WholeBut(rows \ some, cs \cup {c})
<1>. SUFFICES ASSUME NEW d \in Configs \ (cs \cup {c})
              PROVE  /\ Rows(d) \subseteq rows \cup some \/ Rows(d) \cap (rows \cup some) = {}
                     /\ Rows(d) \subseteq rows \ some \/ Rows(d) \cap (rows \ some) = {}
  BY DEF WholeBut
<1>1. Rows(d) \cap some = {}
  BY RowsDiffer
<1>. QED BY <1>1 DEF WholeBut

\* Dropping serials from the tables takes each of them out entirely.
LEMMA WholeDropped ==
  ASSUME NEW rows, NEW total \in SUBSET Configs, NEW cs, WholeBut(rows, cs)
  PROVE  WholeBut(Dropped(rows, total), cs)
<1>. SUFFICES ASSUME NEW c \in Configs \ cs
              PROVE  \/ Rows(c) \subseteq Dropped(rows, total)
                     \/ Rows(c) \cap Dropped(rows, total) = {}
  BY DEF WholeBut
<1>1. CASE c \in total
  BY <1>1, DroppedWhole DEF Cleared
<1>2. CASE c \notin total
  <2>1. Rows(c) \cap Dropped(rows, total) = Rows(c) \cap rows
    BY <1>2, DroppedWhole
  <2>2. Rows(c) \subseteq rows \/ Rows(c) \cap rows = {}
    BY DEF WholeBut
  <2>. QED BY <2>1, <2>2
<1>. QED BY <1>1, <1>2

-----------------------------------------------------------------------------
(* What the invariant says                                                 *)

\* What a slave still has to push is nowhere, and no other slave has it.
LEMMA StillToCome ==
  ASSUME IInv, RowsInv, NEW s \in Streams, NEW w \in Slaves
  PROVE  /\ ToCome(w) \cap Main(s) = {}
         /\ \A v \in Slaves : ToCome(w) \cap cache[v][s] = {}
         /\ \A v \in Slaves : v # w => ToCome(w) \cap ToCome(v) = {}
         /\ \A k \in DOMAIN aggregations : ToCome(w) \cap Queued(k, s) = {}
<1>1. CASE doing[w] = None
  BY <1>1 DEF ToCome
<1>2. CASE doing[w] # None
  <2>1. doing[w] \in Configs /\ pushed[w] \in 0 .. Samples
    BY <1>2 DEF IInv, TypeOK
  <2>2. ToCome(w) \subseteq Rows(doing[w]) /\ ToCome(w) \cap PushedRows(w) = {}
    BY <2>1, RowsPushed
  <2>3. /\ Unstored(doing[w]) /\ cache[w][s] \cap Rows(doing[w]) = PushedRows(w)
        /\ \A v \in Slaves \ {w} : doing[v] # doing[w] /\ Unheld(doing[w], v)
    BY <2>1 DEF RowsInv, InHand
  <2>4. ASSUME NEW v \in Slaves, v # w PROVE ToCome(w) \cap ToCome(v) = {}
    <3>1. CASE doing[v] = None
      BY <3>1 DEF ToCome
    <3>2. CASE doing[v] # None
      <4>1. doing[v] \in Configs /\ pushed[v] \in 0 .. Samples
        BY <3>2 DEF IInv, TypeOK
      <4>2. ToCome(v) \subseteq Rows(doing[v])
        BY <4>1, RowsPushed
      <4>3. Rows(doing[v]) \cap Rows(doing[w]) = {}
        BY <2>1, <2>3, <2>4, <4>1, RowsDiffer
      <4>. QED BY <2>2, <4>2, <4>3
    <3>. QED BY <3>1, <3>2
  <2>5. ASSUME NEW v \in Slaves PROVE ToCome(w) \cap cache[v][s] = {}
    <3>1. CASE v = w
      BY <2>2, <2>3, <3>1
    <3>2. CASE v # w
      BY <2>2, <2>3, <3>2 DEF Unheld
    <3>. QED BY <3>1, <3>2
  <2>. QED BY <2>2, <2>3, <2>4, <2>5 DEF Unstored
<1>. QED BY <1>1, <1>2

\* The places there are, by their kind.
LEMMA PlaceKinds ==
  ASSUME NEW s \in Streams, NEW p \in Places(s)
  PROVE  \/ p = <<"main", 0, container[current][s]>>
         \/ \E w \in Slaves : p = <<"cache", w, cache[w][s]>>
         \/ \E w \in Slaves : p = <<"next", w, ToCome(w)>>
         \/ \E k \in DOMAIN aggregations : p = <<"queue", k, Queued(k, s)>>
BY DEF Places

\* No row is in two places.
LEMMA RowsInOnePlace == IInv /\ RowsInv => NoDuplicateRows
<1>. SUFFICES ASSUME IInv, RowsInv, Working, NEW s \in Streams,
                     NEW p \in Places(s), NEW q \in Places(s), p # q
              PROVE  p[3] \cap q[3] = {}
  BY DEF NoDuplicateRows
<1>1. Main(s) = container[current][s]
  BY DEF Main, Working, Doing, Idle
<1>2. /\ \A w \in Slaves : cache[w][s] \cap Main(s) = {}
      /\ \A v, w \in Slaves : v # w => cache[v][s] \cap cache[w][s] = {}
      /\ \A k \in DOMAIN aggregations :
           /\ Queued(k, s) \cap Main(s) = {}
           /\ \A w \in Slaves : Queued(k, s) \cap cache[w][s] = {}
           /\ \A l \in DOMAIN aggregations : k # l => Queued(k, s) \cap Queued(l, s) = {}
  BY DEF RowsInv, Apart
<1>3. \A w \in Slaves :
        /\ ToCome(w) \cap Main(s) = {}
        /\ \A v \in Slaves : ToCome(w) \cap cache[v][s] = {}
        /\ \A v \in Slaves : v # w => ToCome(w) \cap ToCome(v) = {}
        /\ \A k \in DOMAIN aggregations : ToCome(w) \cap Queued(k, s) = {}
  BY StillToCome
\* A place and another, in one order: the others follow by symmetry.
<1>4. ASSUME NEW a \in Places(s), a = <<"main", 0, container[current][s]>>,
             NEW b \in Places(s), a # b
      PROVE  a[3] \cap b[3] = {}
  <2>0. a[3] = Main(s)
    BY <1>1, <1>4
  <2>1. ASSUME NEW w \in Slaves, b = <<"cache", w, cache[w][s]>> PROVE a[3] \cap b[3] = {}
    BY <1>2, <2>0, <2>1
  <2>2. ASSUME NEW w \in Slaves, b = <<"next", w, ToCome(w)>> PROVE a[3] \cap b[3] = {}
    BY <1>3, <2>0, <2>2
  <2>3. ASSUME NEW k \in DOMAIN aggregations, b = <<"queue", k, Queued(k, s)>>
        PROVE  a[3] \cap b[3] = {}
    BY <1>2, <2>0, <2>3
  <2>. QED BY <1>4, <2>1, <2>2, <2>3, PlaceKinds
<1>5. ASSUME NEW w \in Slaves, NEW a \in Places(s), a = <<"cache", w, cache[w][s]>>,
             NEW b \in Places(s), a # b
      PROVE  a[3] \cap b[3] = {}
  <2>0. a[3] = cache[w][s]
    BY <1>5
  <2>1. ASSUME NEW v \in Slaves, b = <<"cache", v, cache[v][s]>> PROVE a[3] \cap b[3] = {}
    <3>1. v # w
      BY <1>5, <2>1
    <3>. QED BY <1>2, <2>0, <2>1, <3>1
  <2>2. ASSUME NEW v \in Slaves, b = <<"next", v, ToCome(v)>> PROVE a[3] \cap b[3] = {}
    BY <1>3, <2>0, <2>2
  <2>3. ASSUME NEW k \in DOMAIN aggregations, b = <<"queue", k, Queued(k, s)>>
        PROVE  a[3] \cap b[3] = {}
    BY <1>2, <2>0, <2>3
  <2>4. b = <<"main", 0, container[current][s]>> => a[3] \cap b[3] = {}
    BY <1>4, <1>5
  <2>. QED BY <2>1, <2>2, <2>3, <2>4, PlaceKinds
<1>6. ASSUME NEW w \in Slaves, NEW a \in Places(s), a = <<"next", w, ToCome(w)>>,
             NEW b \in Places(s), a # b
      PROVE  a[3] \cap b[3] = {}
  <2>0. a[3] = ToCome(w)
    BY <1>6
  <2>1. ASSUME NEW v \in Slaves, b = <<"cache", v, cache[v][s]>> PROVE a[3] \cap b[3] = {}
    BY <1>3, <2>0, <2>1
  <2>2. ASSUME NEW v \in Slaves, b = <<"next", v, ToCome(v)>> PROVE a[3] \cap b[3] = {}
    <3>1. v # w
      BY <1>6, <2>2
    <3>. QED BY <1>3, <2>0, <2>2, <3>1
  <2>3. ASSUME NEW k \in DOMAIN aggregations, b = <<"queue", k, Queued(k, s)>>
        PROVE  a[3] \cap b[3] = {}
    BY <1>3, <2>0, <2>3
  <2>4. b = <<"main", 0, container[current][s]>> => a[3] \cap b[3] = {}
    BY <1>4, <1>6
  <2>. QED BY <2>1, <2>2, <2>3, <2>4, PlaceKinds
<1>7. ASSUME NEW k \in DOMAIN aggregations, NEW l \in DOMAIN aggregations,
             p = <<"queue", k, Queued(k, s)>>, q = <<"queue", l, Queued(l, s)>>
      PROVE  p[3] \cap q[3] = {}
  <2>1. k # l /\ p[3] = Queued(k, s) /\ q[3] = Queued(l, s)
    BY <1>7
  <2>. QED BY <1>2, <2>1
<1>8. CASE \E k \in DOMAIN aggregations : p = <<"queue", k, Queued(k, s)>>
  BY <1>4, <1>5, <1>6, <1>7, <1>8, PlaceKinds
<1>. QED BY <1>4, <1>5, <1>6, <1>8, PlaceKinds

-----------------------------------------------------------------------------
(* Nothing under way                                                       *)

\* With no rows under way, what is to be known is what is stored.
LEMMA HeldNothing ==
  ASSUME NothingHeld', \A w \in Slaves : doing'[w] = None,
         \A c \in todo', s \in Streams : Rows(c) \cap Main(s)' = {}
  PROVE  Quiet' /\ Apart' /\ Waiting' /\ InHand' /\ BatchesWhole'
<1>1. /\ \A w \in Slaves, s \in Streams : cache'[w][s] = {}
      /\ DOMAIN aggregations' = {}
  BY DEF NothingHeld, NoWriters
<1>2. Quiet' /\ Apart' /\ Waiting' /\ InHand'
  BY <1>1, ConfigsAssumption DEF Quiet, Apart, Waiting, InHand, Unstored, Unheld
<1>3. BatchesWhole'
  BY <1>1, WholeParts DEF BatchesWhole
<1>. QED BY <1>2, <1>3

\* In particular when it was so before, and the step leaves batchers and
\* containers on their way alone.
LEMMA StillNothing ==
  ASSUME RowsInv, ~AtWork, UNCHANGED <<aggregations, cache>>,
         \A w \in Slaves : doing'[w] = None,
         \A c \in todo', s \in Streams : Rows(c) \cap Main(s)' = {}
  PROVE  Quiet' /\ Apart' /\ Waiting' /\ InHand' /\ BatchesWhole'
<1>1. NothingHeld'
  BY DEF RowsInv, Quiet, NothingHeld
<1>. QED BY <1>1, HeldNothing

-----------------------------------------------------------------------------
(* Containers on their way                                                 *)

\* What a slave hands over: held goes into containers for streams, and kept
\* stays in the batchers of the others.
HandOver(w, held, kept, streams) ==
  /\ aggregations' = aggregations \o Container("int", held, streams)
                                  \o Container("zeta", held, streams)
  /\ cache' = [cache EXCEPT ![w] =
                 [s \in Streams |-> IF s \in streams THEN {} ELSE kept[s]]]

\* The containers of one stream: none, or one.
LEMMA OneContainer ==
  ASSUME NEW s, NEW held \in Batch, NEW streams \in SUBSET Streams
  PROVE  /\ Container(s, held, streams) \in Containers
         /\ Len(Container(s, held, streams)) \in {0, 1}
         /\ Len(Container(s, held, streams)) = 1 =>
              /\ s \in streams
              /\ Container(s, held, streams)[1] = [to |-> s, rows |-> held[s]]
<1>1. CASE s \in streams /\ held[s] # {}
  <2>1. [to |-> s, rows |-> held[s]] \in [to : Streams, rows : SUBSET AllRows]
    BY <1>1 DEF Batch
  <2>2. Container(s, held, streams) = <<[to |-> s, rows |-> held[s]]>>
    BY <1>1 DEF Container
  <2>. DEFINE k == [to |-> s, rows |-> held[s]]
  <2>3. <<k>> \in Containers /\ Len(<<k>>) = 1 /\ <<k>>[1] = k
    <3>. HIDE DEF k
    <3>1. k \in [to : Streams, rows : SUBSET AllRows]
      BY <2>1 DEF k
    <3>. QED BY <3>1, Single DEF Containers
  <2>. QED BY <1>1, <2>2, <2>3
<1>2. CASE ~(s \in streams /\ held[s] # {})
  <2>1. Container(s, held, streams) = <<>>
    BY <1>2 DEF Container
  <2>2. <<>> \in Containers /\ Len(<<>>) = 0
    BY DEF Containers
  <2>. QED BY <2>1, <2>2
<1>. QED BY <1>1, <1>2

\* A sequence and what one element, or two, added to it make of it.
Lengthened(old, a, b, new) ==
  /\ \A k \in DOMAIN old : k \in DOMAIN new /\ new[k] = old[k]
  /\ \A k \in DOMAIN new \ DOMAIN old :
       \/ k = Len(old) + 1 /\ Len(a) = 1 /\ new[k] = a[1]
       \/ k = Len(old) + Len(a) + 1 /\ Len(b) = 1 /\ new[k] = b[1]

\* A sequence joined to two others of one element at most.
LEMMA ShortTails ==
  ASSUME NEW S, NEW old \in Seq(S), NEW a \in Seq(S), NEW b \in Seq(S),
         Len(a) \in {0, 1}, Len(b) \in {0, 1}, NEW new, new = (old \o a) \o b
  PROVE  Lengthened(old, a, b, new)
<1>. DEFINE m == Len(old)
            x == Len(a)
            y == Len(b)
<1>1. m \in Nat /\ x \in {0, 1} /\ y \in {0, 1}
  BY LenProperties
<1>2. /\ old \o a \in Seq(S) /\ Len(old \o a) = m + x
      /\ \A i \in 1 .. m + x : (old \o a)[i] = IF i <= m THEN old[i] ELSE a[i - m]
  BY ConcatProperties
<1>3. /\ new \in Seq(S) /\ Len(new) = m + x + y
      /\ \A i \in 1 .. m + x + y :
           new[i] = IF i <= m + x THEN (old \o a)[i] ELSE b[i - (m + x)]
  BY <1>2, ConcatProperties
<1>4. DOMAIN old = 1 .. m /\ DOMAIN new = 1 .. m + x + y
  BY <1>3
<1>. HIDE DEF m, x, y
<1>5. ASSUME NEW k \in DOMAIN old PROVE k \in DOMAIN new /\ new[k] = old[k]
  <2>1. k \in 1 .. m + x /\ k \in 1 .. m + x + y /\ k <= m /\ k <= m + x
    BY ONLY <1>1, <1>4, <1>5
  <2>. QED BY <1>2, <1>3, <1>4, <2>1
<1>6. ASSUME NEW k \in DOMAIN new \ DOMAIN old
      PROVE  \/ k = m + 1 /\ x = 1 /\ new[k] = a[1]
             \/ k = m + x + 1 /\ y = 1 /\ new[k] = b[1]
  <2>1. k \in m + 1 .. m + x + y /\ k \in 1 .. m + x + y
    BY ONLY <1>1, <1>4, <1>6
  <2>2. CASE k <= m + x
    <3>1. x = 1 /\ k = m + 1 /\ k - m = 1 /\ ~(k <= m) /\ k \in 1 .. m + x
      BY ONLY <1>1, <2>1, <2>2
    <3>2. new[k] = (old \o a)[k]
      BY <1>3, <2>1, <2>2
    <3>3. (old \o a)[k] = a[k - m]
      BY <1>2, <3>1
    <3>4. new[k] = a[1]
      BY ONLY <3>1, <3>2, <3>3
    <3>. QED BY <3>1, <3>4
  <2>3. CASE ~(k <= m + x)
    <3>1. y = 1 /\ k = m + x + 1 /\ k - (m + x) = 1
      BY ONLY <1>1, <2>1, <2>3
    <3>2. new[k] = b[k - (m + x)]
      BY <1>3, <2>1, <2>3
    <3>3. new[k] = b[1]
      BY ONLY <3>1, <3>2
    <3>. QED BY <3>1, <3>3
  <2>. QED BY <2>2, <2>3
<1>. QED BY <1>5, <1>6 DEF m, x, y, Lengthened

\* The queue keeps what is in it; what is new holds what was handed over, for
\* streams, and one container for each.
Grown(held, streams) ==
  /\ \A k \in DOMAIN aggregations :
       k \in DOMAIN aggregations' /\ aggregations'[k] = aggregations[k]
  /\ \A k \in DOMAIN aggregations' \ DOMAIN aggregations :
       /\ aggregations'[k].to \in streams
       /\ aggregations'[k].rows = held[aggregations'[k].to]
       /\ \A l \in DOMAIN aggregations' \ DOMAIN aggregations :
            k # l => aggregations'[k].to # aggregations'[l].to

\* A flush puts containers at the end of the queue, one per stream at most.
LEMMA QueueGrows ==
  ASSUME aggregations \in Containers, NEW held \in Batch, NEW streams \in SUBSET Streams,
         aggregations' = aggregations \o Container("int", held, streams)
                                      \o Container("zeta", held, streams)
  PROVE  Grown(held, streams)
<1>. DEFINE a == Container("int", held, streams)
            b == Container("zeta", held, streams)
            old == aggregations
<1>1. /\ a \in Containers /\ Len(a) \in {0, 1}
      /\ Len(a) = 1 => "int" \in streams /\ a[1] = [to |-> "int", rows |-> held["int"]]
      /\ b \in Containers /\ Len(b) \in {0, 1}
      /\ Len(b) = 1 => "zeta" \in streams /\ b[1] = [to |-> "zeta", rows |-> held["zeta"]]
      /\ old \in Containers
  BY OneContainer
<1>2. aggregations' = (old \o a) \o b
  OBVIOUS
<1>. HIDE DEF a, b, old
<1>6. /\ \A k \in DOMAIN old : k \in DOMAIN aggregations' /\ aggregations'[k] = old[k]
      /\ \A k \in DOMAIN aggregations' \ DOMAIN old :
           \/ k = Len(old) + 1 /\ Len(a) = 1 /\ aggregations'[k] = a[1]
           \/ k = Len(old) + Len(a) + 1 /\ Len(b) = 1 /\ aggregations'[k] = b[1]
  <2>1. /\ old \in Containers /\ a \in Containers /\ b \in Containers
        /\ Len(a) \in {0, 1} /\ Len(b) \in {0, 1}
    BY <1>1
  <2>. DEFINE T == [to : Streams, rows : SUBSET AllRows]
  <2>2. old \in Seq(T) /\ a \in Seq(T) /\ b \in Seq(T)
    BY <2>1 DEF Containers
  <2>. HIDE DEF T
  <2>3. Lengthened(old, a, b, aggregations')
    BY <1>2, <2>1, <2>2, ShortTails
  <2>. QED BY <2>3 DEF Lengthened
<1>8. ASSUME NEW k \in DOMAIN aggregations' \ DOMAIN old
      PROVE  /\ aggregations'[k].to \in streams
             /\ aggregations'[k].rows = held[aggregations'[k].to]
             /\ aggregations'[k].to = "int" => k = Len(old) + 1 /\ Len(a) = 1
             /\ aggregations'[k].to = "zeta" => k = Len(old) + Len(a) + 1
             /\ aggregations'[k].to \in {"int", "zeta"}
  <2>1. CASE k = Len(old) + 1 /\ Len(a) = 1 /\ aggregations'[k] = a[1]
    <3>1. aggregations'[k] = [to |-> "int", rows |-> held["int"]] /\ "int" \in streams
      BY <1>1, <2>1
    <3>. QED BY <2>1, <3>1
  <2>2. CASE k = Len(old) + Len(a) + 1 /\ Len(b) = 1 /\ aggregations'[k] = b[1]
    <3>1. aggregations'[k] = [to |-> "zeta", rows |-> held["zeta"]] /\ "zeta" \in streams
      BY <1>1, <2>2
    <3>. QED BY <2>2, <3>1
  <2>. QED BY <1>6, <2>1, <2>2
<1>. QED BY <1>6, <1>8 DEF old, Grown

\* The queue when nothing is handed over.
LEMMA NothingAnnounced ==
  ASSUME aggregations \in Containers, NEW held
  PROVE  aggregations \o Container("int", held, {}) \o Container("zeta", held, {})
           = aggregations
<1>1. Container("int", held, {}) = <<>> /\ Container("zeta", held, {}) = <<>>
  BY DEF Container
<1>2. aggregations \o <<>> = aggregations
  BY ConcatEmptySeq DEF Containers
<1>. QED BY <1>1, <1>2

\* The rows of a container, by stream.
LEMMA QueuedRows ==
  ASSUME aggregations \in Containers, NEW held \in Batch, NEW streams \in SUBSET Streams,
         aggregations' = aggregations \o Container("int", held, streams)
                                      \o Container("zeta", held, streams),
         NEW s \in Streams
  PROVE  /\ \A k \in DOMAIN aggregations :
              k \in DOMAIN aggregations' /\ Queued(k, s)' = Queued(k, s)
         /\ \A k \in DOMAIN aggregations' \ DOMAIN aggregations :
              /\ Queued(k, s)' \subseteq held[s]
              /\ s \notin streams => Queued(k, s)' = {}
              /\ \A l \in DOMAIN aggregations' \ DOMAIN aggregations :
                   k # l => Queued(k, s)' = {} \/ Queued(l, s)' = {}
<1>. DEFINE old == DOMAIN aggregations
            new == DOMAIN aggregations' \ DOMAIN aggregations
<1>1. /\ \A k \in old : k \in DOMAIN aggregations' /\ aggregations'[k] = aggregations[k]
      /\ \A k \in new : /\ aggregations'[k].to \in streams
                        /\ aggregations'[k].rows = held[aggregations'[k].to]
                        /\ \A l \in new : k # l => aggregations'[k].to # aggregations'[l].to
  BY QueueGrows DEF Grown
<1>. HIDE DEF new
<1>2. \A k \in old : k \in DOMAIN aggregations' /\ Queued(k, s)' = Queued(k, s)
  BY <1>1 DEF Queued
<1>3. ASSUME NEW k \in new
      PROVE  /\ Queued(k, s)' \subseteq held[s]
             /\ s \notin streams => Queued(k, s)' = {}
             /\ \A l \in new : k # l => Queued(k, s)' = {} \/ Queued(l, s)' = {}
  <2>1. \A l : Queued(l, s)' = IF aggregations'[l].to = s THEN aggregations'[l].rows ELSE {}
    BY DEF Queued
  <2>2. Queued(k, s)' \subseteq held[s] /\ (s \notin streams => Queued(k, s)' = {})
    BY <1>1, <2>1
  <2>3. ASSUME NEW l \in new, k # l PROVE Queued(k, s)' = {} \/ Queued(l, s)' = {}
    <3>1. aggregations'[k].to # s \/ aggregations'[l].to # s
      BY ONLY <1>1, <2>3, k \in new, l \in new
    <3>. QED BY <2>1, <3>1
  <2>. QED BY <2>2, <2>3
<1>. QED BY <1>2, <1>3 DEF new

-----------------------------------------------------------------------------
(* The slaves                                                              *)

\* What is in the batchers after a hand-over.
LEMMA KeptBack ==
  ASSUME TypeOK, NEW w \in Slaves, NEW held, NEW kept, NEW streams,
         HandOver(w, held, kept, streams)
  PROVE  /\ \A s \in Streams : cache'[w][s] = IF s \in streams THEN {} ELSE kept[s]
         /\ \A v \in Slaves \ {w} : cache'[v] = cache[v]
BY DEF TypeOK, HandOver

\* Rows that are with one slave only stay apart from all others when they are
\* handed over, and no configuration is stored that was not among them.
LEMMA HandedApart ==
  ASSUME IInv, RowsInv, UNCHANGED <<program, container, current>>,
         NEW w \in Slaves, NEW held \in Batch, NEW kept \in Batch,
         NEW streams \in SUBSET Streams, HandOver(w, held, kept, streams),
         \A s \in Streams :
           /\ kept[s] \subseteq held[s]
           /\ held[s] \cap Main(s) = {}
           /\ \A v \in Slaves \ {w} : held[s] \cap cache[v][s] = {}
           /\ \A k \in DOMAIN aggregations : held[s] \cap Queued(k, s) = {}
  PROVE  /\ Apart'
         /\ \A c : Unstored(c) /\ (\A s \in streams : Rows(c) \cap held[s] = {})
                     => Unstored(c)'
<1>. DEFINE old == DOMAIN aggregations
            new == DOMAIN aggregations' \ DOMAIN aggregations
<1>1. /\ \A s \in Streams : cache'[w][s] = IF s \in streams THEN {} ELSE kept[s]
      /\ \A v \in Slaves \ {w} : cache'[v] = cache[v]
  BY KeptBack DEF IInv
<1>2. \A s \in Streams : Main(s)' = Main(s)
  BY DEF Main
<1>3. ASSUME NEW s \in Streams
      PROVE  /\ \A k \in old : k \in DOMAIN aggregations' /\ Queued(k, s)' = Queued(k, s)
             /\ \A k \in new :
                  /\ Queued(k, s)' \subseteq held[s]
                  /\ s \notin streams => Queued(k, s)' = {}
                  /\ \A l \in new : k # l => Queued(k, s)' = {} \/ Queued(l, s)' = {}
             /\ DOMAIN aggregations' = old \cup new
  <2>1. /\ aggregations \in Containers
        /\ aggregations' = aggregations \o Container("int", held, streams)
                                        \o Container("zeta", held, streams)
    BY DEF IInv, TypeOK, Containers, HandOver
  <2>2. /\ \A k \in old : k \in DOMAIN aggregations' /\ Queued(k, s)' = Queued(k, s)
        /\ \A k \in new :
             /\ Queued(k, s)' \subseteq held[s]
             /\ s \notin streams => Queued(k, s)' = {}
             /\ \A l \in new : k # l => Queued(k, s)' = {} \/ Queued(l, s)' = {}
    BY <2>1, QueuedRows
  <2>. QED BY <2>2
<1>. HIDE DEF old, new
<1>4. ASSUME NEW s \in Streams
      PROVE  /\ \A v \in Slaves : cache'[v][s] \cap Main(s)' = {}
             /\ \A u, v \in Slaves : u # v => cache'[u][s] \cap cache'[v][s] = {}
             /\ \A k \in old \cup new :
                  /\ Queued(k, s)' \cap Main(s)' = {}
                  /\ \A v \in Slaves : Queued(k, s)' \cap cache'[v][s] = {}
                  /\ \A l \in old \cup new :
                       k # l => Queued(k, s)' \cap Queued(l, s)' = {}
  <2>1. /\ \A v \in Slaves : cache[v][s] \cap Main(s) = {}
        /\ \A u, v \in Slaves : u # v => cache[u][s] \cap cache[v][s] = {}
        /\ \A k \in old :
             /\ Queued(k, s) \cap Main(s) = {}
             /\ \A v \in Slaves : Queued(k, s) \cap cache[v][s] = {}
             /\ \A l \in old : k # l => Queued(k, s) \cap Queued(l, s) = {}
    BY DEF RowsInv, Apart, old
  <2>2. /\ held[s] \cap Main(s) = {} /\ kept[s] \subseteq held[s]
        /\ \A v \in Slaves \ {w} : held[s] \cap cache[v][s] = {}
        /\ \A k \in old : held[s] \cap Queued(k, s) = {}
    BY DEF old
  <2>3. /\ cache'[w][s] \subseteq held[s]
        /\ s \in streams => cache'[w][s] = {}
        /\ \A v \in Slaves \ {w} : cache'[v][s] = cache[v][s]
    BY <1>1, <2>2
  <2>4. ASSUME NEW v \in Slaves PROVE cache'[v][s] \cap Main(s)' = {}
    <3>1. CASE v = w
      BY <1>2, <2>2, <2>3, <3>1
    <3>2. CASE v # w
      BY <1>2, <2>1, <2>3, <3>2
    <3>. QED BY <3>1, <3>2
  <2>5. ASSUME NEW u \in Slaves, NEW v \in Slaves, u # v
        PROVE  cache'[u][s] \cap cache'[v][s] = {}
    <3>1. CASE u = w
      BY <2>2, <2>3, <2>5, <3>1
    <3>2. CASE v = w
      BY <2>2, <2>3, <2>5, <3>2
    <3>3. CASE u # w /\ v # w
      BY <2>1, <2>3, <2>5, <3>3
    <3>. QED BY <3>1, <3>2, <3>3
  <2>6. ASSUME NEW k \in old \cup new
        PROVE  /\ Queued(k, s)' \cap Main(s)' = {}
               /\ \A v \in Slaves : Queued(k, s)' \cap cache'[v][s] = {}
    <3>1. CASE k \in old
      <4>1. Queued(k, s)' = Queued(k, s)
        BY <1>3, <3>1
      <4>2. ASSUME NEW v \in Slaves PROVE Queued(k, s)' \cap cache'[v][s] = {}
        <5>1. CASE v = w
          BY <2>2, <2>3, <3>1, <4>1, <5>1
        <5>2. CASE v # w
          BY <2>1, <2>3, <3>1, <4>1, <5>2
        <5>. QED BY <5>1, <5>2
      <4>. QED BY <1>2, <2>1, <3>1, <4>1, <4>2
    <3>2. CASE k \in new
      <4>1. Queued(k, s)' \subseteq held[s] /\ (s \notin streams => Queued(k, s)' = {})
        BY <1>3, <3>2
      <4>2. ASSUME NEW v \in Slaves PROVE Queued(k, s)' \cap cache'[v][s] = {}
        <5>1. CASE v = w
          BY <2>3, <4>1, <5>1
        <5>2. CASE v # w
          BY <2>2, <2>3, <4>1, <5>2
        <5>. QED BY <5>1, <5>2
      <4>. QED BY <1>2, <2>2, <4>1, <4>2
    <3>. QED BY <3>1, <3>2
  <2>7. ASSUME NEW k \in old \cup new, NEW l \in old \cup new, k # l
        PROVE  Queued(k, s)' \cap Queued(l, s)' = {}
    <3>1. CASE k \in old /\ l \in old
      BY <1>3, <2>1, <2>7, <3>1
    <3>2. CASE k \in old /\ l \in new
      <4>1. Queued(k, s)' = Queued(k, s) /\ Queued(l, s)' \subseteq held[s]
        BY <1>3, <3>2
      <4>. QED BY <2>2, <3>2, <4>1
    <3>3. CASE k \in new /\ l \in old
      <4>1. Queued(l, s)' = Queued(l, s) /\ Queued(k, s)' \subseteq held[s]
        BY <1>3, <3>3
      <4>. QED BY <2>2, <3>3, <4>1
    <3>4. CASE k \in new /\ l \in new
      BY <1>3, <2>7, <3>4
    <3>. QED BY <3>1, <3>2, <3>3, <3>4
  <2>. QED BY <2>4, <2>5, <2>6, <2>7
<1>5. Apart'
  <2>1. \A s \in Streams : DOMAIN aggregations' = old \cup new
    BY <1>3
  <2>. QED BY <1>4, <2>1 DEF Apart
<1>6. ASSUME NEW c, Unstored(c), \A s \in streams : Rows(c) \cap held[s] = {}
      PROVE  Unstored(c)'
  <2>. SUFFICES ASSUME NEW s \in Streams
                PROVE  /\ Rows(c) \cap Main(s)' = {}
                       /\ \A k \in DOMAIN aggregations' : Rows(c) \cap Queued(k, s)' = {}
    BY DEF Unstored
  <2>1. Rows(c) \cap Main(s) = {} /\ \A k \in old : Rows(c) \cap Queued(k, s) = {}
    BY <1>6 DEF Unstored, old
  <2>2. ASSUME NEW k \in old \cup new PROVE Rows(c) \cap Queued(k, s)' = {}
    <3>1. CASE k \in old
      BY <1>3, <2>1, <3>1
    <3>2. CASE k \in new
      BY <1>3, <1>6, <3>2
    <3>. QED BY <3>1, <3>2
  <2>. QED BY <1>2, <1>3, <2>1, <2>2
<1>. QED BY <1>5, <1>6

\* What is whole stays so on its way to a container.
LEMMA HandedWhole ==
  ASSUME IInv, RowsInv, NEW w \in Slaves, NEW held \in Batch, NEW kept \in Batch,
         NEW streams \in SUBSET Streams, HandOver(w, held, kept, streams),
         failed["int"] \subseteq failed'["int"],
         \A v \in Slaves \ {w} : doing'[v] = doing[v],
         \A s \in streams : WholeBut(held[s], failed'["int"]),
         \A s \in Streams : WholeBut(kept[s], failed'["int"] \cup {doing'[w]})
  PROVE  BatchesWhole'
<1>1. /\ \A s \in Streams : cache'[w][s] = IF s \in streams THEN {} ELSE kept[s]
      /\ \A v \in Slaves \ {w} : cache'[v] = cache[v]
  BY KeptBack DEF IInv
<1>2. ASSUME NEW v \in Slaves, NEW s \in Streams
      PROVE  WholeBut(cache'[v][s], failed'["int"] \cup {doing'[v]})
  <2>1. CASE v = w
    BY <1>1, <2>1, WholeParts
  <2>2. CASE v # w
    <3>1. WholeBut(cache[v][s], failed["int"] \cup {doing[v]})
      BY DEF RowsInv, BatchesWhole
    <3>2. failed["int"] \cup {doing[v]} \subseteq failed'["int"] \cup {doing'[v]}
      BY <2>2
    <3>. QED BY <1>1, <2>2, <3>1, <3>2, WholeParts
  <2>. QED BY <2>1, <2>2
<1>3. ASSUME NEW k \in DOMAIN aggregations' PROVE WholeBut(aggregations'[k].rows, failed'["int"])
  <2>1. /\ aggregations \in Containers
        /\ aggregations' = aggregations \o Container("int", held, streams)
                                        \o Container("zeta", held, streams)
    BY DEF IInv, TypeOK, Containers, HandOver
  <2>0. Grown(held, streams)
    BY <2>1, QueueGrows
  <2>2. CASE k \in DOMAIN aggregations
    <3>1. aggregations'[k] = aggregations[k]
      BY <2>0, <2>2 DEF Grown
    <3>2. WholeBut(aggregations[k].rows, failed["int"])
      BY <2>2 DEF RowsInv, BatchesWhole
    <3>. QED BY <3>1, <3>2, WholeParts
  <2>3. CASE k \notin DOMAIN aggregations
    <3>1. aggregations'[k].to \in streams /\ aggregations'[k].rows = held[aggregations'[k].to]
      BY <2>0, <2>3 DEF Grown
    <3>. QED BY <3>1
  <2>. QED BY <2>2, <2>3
<1>. QED BY <1>2, <1>3 DEF BatchesWhole

\* What is stored and recorded stays tidy when neither changes.
LEMMA TidyStays ==
  ASSUME RowsInv, UNCHANGED <<diskVars, program, current, missing>>
  PROVE  Tidy'
<1>1. /\ \A s \in Streams : Main(s)' = Main(s)
      /\ UNCHANGED <<container, record, missing>>
  BY DEF Main, diskVars
<1>. QED BY <1>1 DEF RowsInv, Tidy, Committed

\* The rows of the configuration in hand, if there is one.
Mine(w) == IF doing[w] = None THEN {} ELSE Rows(doing[w])

\* What a slave has, or is about to have, nobody else has.
LEMMA OwnRows ==
  ASSUME IInv, RowsInv, NEW w \in Slaves, NEW s \in Streams, NEW rows,
         rows \subseteq cache[w][s] \cup Mine(w)
  PROVE  /\ rows \cap Main(s) = {}
         /\ \A v \in Slaves \ {w} : rows \cap cache[v][s] = {}
         /\ \A k \in DOMAIN aggregations : rows \cap Queued(k, s) = {}
         /\ \A c \in todo : Rows(c) \cap rows = {}
         /\ \A v \in Slaves \ {w} : doing[v] # None => Rows(doing[v]) \cap rows = {}
<1>1. /\ cache[w][s] \cap Main(s) = {}
      /\ \A v \in Slaves \ {w} : cache[w][s] \cap cache[v][s] = {}
      /\ \A k \in DOMAIN aggregations : cache[w][s] \cap Queued(k, s) = {}
  BY DEF RowsInv, Apart
<1>2. \A c \in todo : Rows(c) \cap cache[w][s] = {}
  BY DEF RowsInv, Waiting, Unheld
<1>5. todo \subseteq Configs /\ \A v \in Slaves : doing[v] # None => doing[v] \in Configs
  BY DEF IInv, TypeOK
<1>3. ASSUME NEW v \in Slaves \ {w}, doing[v] # None
      PROVE  Rows(doing[v]) \cap cache[w][s] = {} /\ doing[v] # doing[w]
  BY <1>3, <1>5 DEF RowsInv, InHand, Unheld
<1>4. ASSUME doing[w] # None
      PROVE  /\ Rows(doing[w]) \cap Main(s) = {}
             /\ \A v \in Slaves \ {w} : Rows(doing[w]) \cap cache[v][s] = {}
             /\ \A k \in DOMAIN aggregations : Rows(doing[w]) \cap Queued(k, s) = {}
             /\ doing[w] \notin todo
  BY <1>4, <1>5 DEF RowsInv, InHand, Unstored, Unheld
<1>6. \A c \in todo : Rows(c) \cap Mine(w) = {}
  BY <1>4, <1>5, RowsDiffer DEF Mine
<1>7. \A v \in Slaves \ {w} : doing[v] # None => Rows(doing[v]) \cap Mine(w) = {}
  BY <1>3, <1>5, RowsDiffer DEF Mine
<1>8. /\ Mine(w) \cap Main(s) = {}
      /\ \A v \in Slaves \ {w} : Mine(w) \cap cache[v][s] = {}
      /\ \A k \in DOMAIN aggregations : Mine(w) \cap Queued(k, s) = {}
  BY <1>4 DEF Mine
<1>. QED BY <1>1, <1>2, <1>3, <1>6, <1>7, <1>8

\* A step in which slave w pushes, withdraws or hands over rows, and keeps its
\* configuration or is done with it.
LEMMA HandedOver ==
  ASSUME IInv, RowsInv, AtWork', UNCHANGED <<diskVars, program, current, missing, todo>>,
         NEW w \in Slaves, NEW held \in Batch, NEW kept \in Batch,
         NEW streams \in SUBSET Streams, HandOver(w, held, kept, streams),
         \A s \in Streams :
           kept[s] \subseteq held[s] /\ held[s] \subseteq cache[w][s] \cup Mine(w),
         \A v \in Slaves \ {w} : doing'[v] = doing[v] /\ pushed'[v] = pushed[v],
         doing'[w] # None =>
           /\ doing'[w] = doing[w] /\ streams = {}
           /\ \A s \in Streams : kept[s] \cap Rows(doing[w]) = PushedRows(w)',
         failed["int"] \subseteq failed'["int"],
         \A s \in streams : WholeBut(held[s], failed'["int"]),
         \A s \in Streams : WholeBut(kept[s], failed'["int"] \cup {doing'[w]})
  PROVE  RowsInv'
<1>1. UNCHANGED <<program, container, current, todo>>
  BY DEF diskVars
<1>2. /\ \A s \in Streams : cache'[w][s] = IF s \in streams THEN {} ELSE kept[s]
      /\ \A v \in Slaves \ {w} : cache'[v] = cache[v]
  BY KeptBack DEF IInv
<1>3. ASSUME NEW s \in Streams
      PROVE  /\ held[s] \cap Main(s) = {}
             /\ \A v \in Slaves \ {w} : held[s] \cap cache[v][s] = {}
             /\ \A k \in DOMAIN aggregations : held[s] \cap Queued(k, s) = {}
             /\ \A c \in todo : Rows(c) \cap held[s] = {}
             /\ \A v \in Slaves \ {w} : doing[v] # None => Rows(doing[v]) \cap held[s] = {}
  <2>1. held[s] \subseteq cache[w][s] \cup Mine(w)
    OBVIOUS
  <2>. QED BY ONLY IInv, RowsInv, w \in Slaves, s \in Streams, <2>1, OwnRows
<1>4. /\ Apart'
      /\ \A c : Unstored(c) /\ (\A s \in streams : Rows(c) \cap held[s] = {}) => Unstored(c)'
  <2>. HIDE DEF HandOver
  <2>. QED BY <1>1, <1>3, HandedApart
<1>5. ASSUME NEW c, \A s \in Streams : Rows(c) \cap held[s] = {}
      PROVE  /\ Unstored(c) => Unstored(c)'
             /\ Unheld(c, w)'
             /\ \A v \in Slaves \ {w} : Unheld(c, v) => Unheld(c, v)'
  <2>1. Unstored(c) => Unstored(c)'
    BY <1>4, <1>5
  <2>2. Unheld(c, w)'
    BY <1>2, <1>5 DEF Unheld
  <2>3. \A v \in Slaves \ {w} : Unheld(c, v) => Unheld(c, v)'
    BY <1>2 DEF Unheld
  <2>. QED BY <2>1, <2>2, <2>3
<1>6. Waiting'
  <2>. SUFFICES ASSUME NEW c \in todo PROVE Unstored(c)' /\ \A v \in Slaves : Unheld(c, v)'
    BY <1>1 DEF Waiting
  <2>1. Unstored(c) /\ \A v \in Slaves : Unheld(c, v)
    BY DEF RowsInv, Waiting
  <2>2. \A s \in Streams : Rows(c) \cap held[s] = {}
    BY <1>3
  <2>. QED BY <1>5, <2>1, <2>2
<1>7. InHand'
  <2>. SUFFICES ASSUME NEW u \in Slaves, NEW c \in Configs, doing'[u] = c
                PROVE  /\ c \notin todo /\ Unstored(c)'
                       /\ \A v \in Slaves \ {u} : doing'[v] # c /\ Unheld(c, v)'
                       /\ \A s \in Streams : cache'[u][s] \cap Rows(c) = PushedRows(u)'
    BY <1>1 DEF InHand
  <2>0. c # None
    BY ConfigsAssumption
  <2>1. doing[u] = c
    BY <2>0
  <2>2. /\ c \notin todo /\ Unstored(c)
        /\ \A v \in Slaves \ {u} : doing[v] # c /\ Unheld(c, v)
        /\ \A s \in Streams : cache[u][s] \cap Rows(c) = PushedRows(u)
    BY <2>1 DEF RowsInv, InHand
  <2>3. \A v \in Slaves \ {u} : doing'[v] # c
    <3>. SUFFICES ASSUME NEW v \in Slaves \ {u} PROVE doing'[v] # c
      OBVIOUS
    <3>1. doing'[v] = doing[v] \/ doing'[v] = None
      OBVIOUS
    <3>. QED BY <2>0, <2>2, <3>1
  <2>4. CASE u = w
    <3>1. streams = {} /\ \A s \in Streams : kept[s] \cap Rows(c) = PushedRows(w)'
      BY <2>0, <2>1, <2>4
    <3>2. Unstored(c)'
      BY <1>4, <2>2, <3>1
    <3>3. \A v \in Slaves \ {w} : Unheld(c, v)'
      BY <1>2, <2>2, <2>4 DEF Unheld
    <3>4. \A s \in Streams : cache'[w][s] \cap Rows(c) = PushedRows(w)'
      BY <1>2, <3>1
    <3>. QED BY <2>2, <2>3, <2>4, <3>2, <3>3, <3>4
  <2>5. CASE u # w
    <3>1. \A s \in Streams : Rows(c) \cap held[s] = {}
      BY <1>3, <2>0, <2>1, <2>5
    <3>2. Unstored(c)' /\ \A v \in Slaves \ {u} : Unheld(c, v)'
      BY <1>5, <2>2, <3>1
    <3>3. PushedRows(u)' = PushedRows(u) /\ cache'[u] = cache[u]
      BY <1>2, <2>1, <2>5 DEF PushedRows
    <3>. QED BY <2>2, <2>3, <3>2, <3>3
  <2>. QED BY <2>4, <2>5
<1>8. BatchesWhole'
  BY HandedWhole
<1>9. Quiet' /\ Tidy'
  BY TidyStays DEF Quiet
<1>. QED BY <1>4, <1>6, <1>7, <1>8, <1>9 DEF RowsInv

\* A slave takes a configuration that has no rows anywhere, so what it has
\* pushed of it, nothing, is all there is.
LEMMA StartRows ==
  ASSUME IInv, RowsInv, NEW w \in Slaves, NEW c \in Configs, StartConfiguration(w, c)
  PROVE  RowsInv'
<1>0. AtWork' /\ c \in todo /\ doing[w] = None
  <2>1. AtWork /\ current \in 1 .. runs
    BY StageTells DEF IInv, StartConfiguration, Working, Doing
  <2>. QED BY <2>1, WorkStep DEF StartConfiguration, writerVars
<1>1. /\ UNCHANGED <<diskVars, program, current, missing, aggregations, cache, failed>>
      /\ UNCHANGED container /\ todo' = todo \ {c}
      /\ doing'[w] = c /\ pushed'[w] = 0
      /\ \A v \in Slaves \ {w} : doing'[v] = doing[v] /\ pushed'[v] = pushed[v]
  BY DEF StartConfiguration, IInv, TypeOK, writerVars, diskVars
<1>2. Quiet' /\ Tidy'
  BY <1>0, <1>1, TidyStays DEF Quiet
<1>3. /\ \A s \in Streams : Main(s)' = Main(s) /\ \A k : Queued(k, s)' = Queued(k, s)
      /\ \A d : Unstored(d)' = Unstored(d)
      /\ \A d, v : Unheld(d, v)' = Unheld(d, v)
  BY <1>1 DEF Main, Queued, Unstored, Unheld
<1>4. Apart' /\ Waiting'
  BY <1>1, <1>3 DEF RowsInv, Apart, Waiting
<1>5. Unstored(c) /\ \A v \in Slaves : Unheld(c, v)
  BY <1>0 DEF RowsInv, Waiting
<1>6. InHand'
  <2>. SUFFICES ASSUME NEW u \in Slaves, NEW d \in Configs, doing'[u] = d
                PROVE  /\ d \notin todo' /\ Unstored(d)'
                       /\ \A v \in Slaves \ {u} : doing'[v] # d /\ Unheld(d, v)'
                       /\ \A s \in Streams : cache'[u][s] \cap Rows(d) = PushedRows(u)'
    BY DEF InHand
  <2>1. \A v \in Slaves : doing[v] # c
    BY <1>0 DEF RowsInv, InHand
  <2>2. CASE u = w
    <3>1. d = c
      BY <1>1, <2>2
    <3>2. PushedRows(w)' = {}
      <4>1. 1 .. pushed'[w] = {}
        BY <1>1
      <4>. QED BY <4>1 DEF PushedRows
    <3>3. \A s \in Streams : cache'[w][s] \cap Rows(c) = {}
      BY <1>1, <1>5 DEF Unheld
    <3>4. \A v \in Slaves \ {w} : doing'[v] # c /\ Unheld(c, v)'
      BY <1>1, <1>3, <1>5, <2>1
    <3>5. c \notin todo' /\ Unstored(c)'
      BY <1>1, <1>3, <1>5
    <3>. QED BY <2>2, <3>1, <3>2, <3>3, <3>4, <3>5
  <2>3. CASE u # w
    <3>1. doing[u] = d
      BY <1>1, <2>3
    <3>2. /\ d \notin todo /\ Unstored(d)
          /\ \A v \in Slaves \ {u} : doing[v] # d /\ Unheld(d, v)
          /\ \A s \in Streams : cache[u][s] \cap Rows(d) = PushedRows(u)
      BY <3>1 DEF RowsInv, InHand
    <3>3. PushedRows(u)' = PushedRows(u)
      BY <1>1, <2>3 DEF PushedRows
    <3>4. d # c
      BY <1>0, <3>2
    <3>5. \A v \in Slaves \ {u} : doing'[v] # d
      BY <1>1, <3>2, <3>4
    <3>. QED BY <1>1, <1>3, <3>2, <3>3, <3>5
  <2>. QED BY <2>2, <2>3
<1>7. BatchesWhole'
  <2>1. ASSUME NEW v \in Slaves, NEW s \in Streams
        PROVE  WholeBut(cache'[v][s], failed'["int"] \cup {doing'[v]})
    <3>1. WholeBut(cache[v][s], failed["int"] \cup {doing[v]})
      BY DEF RowsInv, BatchesWhole
    <3>2. CASE v # w
      BY <1>1, <3>1, <3>2
    <3>3. CASE v = w
      <4>1. WholeBut(cache[w][s], failed["int"])
        BY <1>0, <3>1, <3>3, ConfigsAssumption DEF WholeBut
      <4>2. WholeBut(cache[w][s], failed["int"] \cup {c})
        BY <4>1, WholeParts
      <4>. QED BY <1>1, <3>3, <4>2
    <3>. QED BY <3>2, <3>3
  <2>2. \A k \in DOMAIN aggregations' : WholeBut(aggregations'[k].rows, failed'["int"])
    BY <1>1 DEF RowsInv, BatchesWhole
  <2>. QED BY <2>1, <2>2 DEF BatchesWhole
<1>. QED BY <1>2, <1>4, <1>6, <1>7 DEF RowsInv

\* The rows of the next sample join those pushed before, in each batcher.
LEMMA PushRows ==
  ASSUME IInv, RowsInv, NEW w \in Slaves, NEW full \in SUBSET Streams, PushSample(w, full)
  PROVE  RowsInv'
<1>0. AtWork /\ current \in 1 .. runs /\ doing[w] \in Configs
  BY Busy DEF PushSample
<1>1. /\ UNCHANGED <<diskVars, program, current, missing, todo, doing, failed>>
      /\ pushed'[w] = pushed[w] + 1
      /\ \A v \in Slaves \ {w} : doing'[v] = doing[v] /\ pushed'[v] = pushed[v]
  BY DEF PushSample, IInv, TypeOK, writerVars
<1>2. AtWork'
  BY <1>0, <1>1, WorkStep
<1>. DEFINE rows == RowsAt(doing[w], pushed[w] + 1)
            held == [s \in Streams |-> cache[w][s] \cup rows]
<1>3. pushed[w] \in 0 .. Samples /\ pushed[w] + 1 \in 1 .. Samples
  BY BoundsAssumption DEF IInv, TypeOK, PushSample
<1>4. rows \subseteq AllRows /\ rows \subseteq Rows(doing[w])
  BY <1>0, <1>3, RowTypes DEF Rows
<1>5. HandOver(w, held, held, {})
  BY DEF PushSample, FlushedByPush, Flush, HandOver
<1>6. PushedRows(w)' = PushedRows(w) \cup rows
  <2>1. 1 .. pushed'[w] = 1 .. pushed[w] \cup {pushed[w] + 1}
    BY <1>1, <1>3
  <2>. QED BY <1>1, <2>1 DEF PushedRows
<1>. HIDE DEF rows
<1>7. held \in Batch
  BY <1>4 DEF IInv, TypeOK, Batch
<1>8. ASSUME NEW s \in Streams
      PROVE  /\ held[s] = cache[w][s] \cup rows
             /\ held[s] \cap Rows(doing[w]) = PushedRows(w)'
             /\ held[s] \subseteq cache[w][s] \cup Mine(w)
             /\ WholeBut(held[s], failed["int"] \cup {doing[w]})
  <2>1. cache[w][s] \cap Rows(doing[w]) = PushedRows(w)
    BY <1>0 DEF RowsInv, InHand
  <2>2. WholeBut(cache[w][s], failed["int"] \cup {doing[w]})
    BY DEF RowsInv, BatchesWhole
  <2>3. WholeBut(cache[w][s] \cup rows, failed["int"] \cup {doing[w]})
    BY ONLY <1>0, <1>4, <2>2, WholeWithin
  <2>4. held[s] \subseteq cache[w][s] \cup Mine(w)
    BY <1>0, <1>4, ConfigsAssumption DEF Mine
  <2>. QED BY <1>4, <1>6, <2>1, <2>3, <2>4
<1>. HIDE DEF held
<1>9. \A s \in Streams :
        /\ held[s] \subseteq held[s] /\ held[s] \subseteq cache[w][s] \cup Mine(w)
        /\ held[s] \cap Rows(doing[w]) = PushedRows(w)'
        /\ WholeBut(held[s], failed'["int"] \cup {doing'[w]})
  BY <1>1, <1>8
<1>10. doing'[w] # None => doing'[w] = doing[w] /\ {} = {}
  BY <1>1
<1>. QED BY <1>1, <1>2, <1>5, <1>7, <1>9, <1>10, HandedOver

\* A refined mesh withdraws the rows from every batcher, and starts again.
LEMMA RefineRows ==
  ASSUME IInv, RowsInv, NEW w \in Slaves, Refine(w)
  PROVE  RowsInv'
<1>0. AtWork /\ current \in 1 .. runs /\ doing[w] \in Configs
  BY Busy DEF Refine
<1>1. /\ UNCHANGED <<diskVars, program, current, missing, todo, doing, failed>>
      /\ UNCHANGED aggregations /\ pushed'[w] = 0
      /\ \A v \in Slaves \ {w} : doing'[v] = doing[v] /\ pushed'[v] = pushed[v]
  BY DEF Refine, IInv, TypeOK, writerVars
<1>2. AtWork'
  BY <1>0, <1>1, WorkStep
<1>. DEFINE kept == Unbatched(cache[w], doing[w])
<1>3. cache[w] \in Batch /\ kept \in Batch
  BY DEF IInv, TypeOK, Batch, Unbatched
<1>4. HandOver(w, cache[w], kept, {})
  <2>1. aggregations' = aggregations \o Container("int", cache[w], {})
                                     \o Container("zeta", cache[w], {})
    BY <1>1, NothingAnnounced DEF IInv, TypeOK, Containers
  <2>2. kept = [s \in Streams |-> IF s \in {} THEN {} ELSE kept[s]]
    BY DEF Unbatched
  <2>3. cache' = [cache EXCEPT ![w] = kept]
    BY DEF Refine, IInv, TypeOK
  <2>. QED BY <2>1, <2>2, <2>3 DEF HandOver
<1>5. PushedRows(w)' = {}
  <2>1. 1 .. pushed'[w] = {}
    BY <1>1
  <2>. QED BY <2>1 DEF PushedRows
<1>6. ASSUME NEW s \in Streams
      PROVE  /\ kept[s] \subseteq cache[w][s]
             /\ kept[s] \cap Rows(doing[w]) = PushedRows(w)'
             /\ WholeBut(kept[s], failed["int"] \cup {doing[w]})
  <2>1. kept[s] = cache[w][s] \ Rows(doing[w])
    BY DEF Unbatched
  <2>2. WholeBut(cache[w][s], failed["int"] \cup {doing[w]})
    BY DEF RowsInv, BatchesWhole
  <2>3. WholeBut(cache[w][s] \ Rows(doing[w]), failed["int"] \cup {doing[w]})
    BY ONLY <1>0, <2>2, WholeWithin
  <2>. QED BY <1>5, <2>1, <2>3
<1>. HIDE DEF kept
<1>7. \A s \in Streams :
        /\ kept[s] \subseteq cache[w][s] /\ cache[w][s] \subseteq cache[w][s] \cup Mine(w)
        /\ kept[s] \cap Rows(doing[w]) = PushedRows(w)'
        /\ WholeBut(kept[s], failed'["int"] \cup {doing'[w]})
  BY <1>1, <1>6
<1>. DEFINE held == cache[w]
<1>9. /\ held \in Batch /\ HandOver(w, held, kept, {})
      /\ \A s \in Streams :
           /\ kept[s] \subseteq held[s] /\ held[s] \subseteq cache[w][s] \cup Mine(w)
           /\ kept[s] \cap Rows(doing[w]) = PushedRows(w)'
           /\ WholeBut(kept[s], failed'["int"] \cup {doing'[w]})
      /\ doing'[w] # None => doing'[w] = doing[w] /\ {} = {}
  BY <1>1, <1>3, <1>4, <1>7
<1>. HIDE DEF held
<1>. QED BY <1>1, <1>2, <1>3, <1>9, HandedOver

\* A batcher that is flushed between two configurations holds whole ones.
LEMMA WholeWhenDone ==
  ASSUME IInv, RowsInv, NEW w \in Slaves, NEW s \in Streams,
         doing[w] # None => pushed[w] = Samples
  PROVE  WholeBut(cache[w][s], failed["int"])
<1>1. WholeBut(cache[w][s], failed["int"] \cup {doing[w]})
  BY DEF RowsInv, BatchesWhole
<1>2. ASSUME doing[w] # None
      PROVE  Rows(doing[w]) \subseteq cache[w][s]
  <2>1. doing[w] \in Configs /\ pushed[w] \in 0 .. Samples /\ pushed[w] = Samples
    BY <1>2 DEF IInv, TypeOK
  <2>2. cache[w][s] \cap Rows(doing[w]) = PushedRows(w)
    BY <2>1 DEF RowsInv, InHand
  <2>3. PushedRows(w) = Rows(doing[w])
    BY <2>1, RowsPushed
  <2>. QED BY <2>2, <2>3
<1>. QED BY <1>1, <1>2, ConfigsAssumption DEF WholeBut

\* When a configuration is done, all its rows are in the batchers.
LEMMA SucceedRows ==
  ASSUME IInv, RowsInv, NEW w \in Slaves, NEW streams \in SUBSET Streams,
         Succeed(w, streams)
  PROVE  RowsInv'
<1>0. AtWork /\ current \in 1 .. runs
  BY Busy DEF Succeed
<1>1. /\ UNCHANGED <<diskVars, program, current, missing, todo, failed>>
      /\ doing'[w] = None /\ pushed[w] = Samples
      /\ \A v \in Slaves \ {w} : doing'[v] = doing[v] /\ pushed'[v] = pushed[v]
  BY DEF Succeed, IInv, TypeOK, writerVars
<1>2. AtWork'
  BY <1>0, <1>1, WorkStep
<1>3. cache[w] \in Batch /\ HandOver(w, cache[w], cache[w], streams)
  BY DEF IInv, TypeOK, Batch, Succeed, Flush, HandOver
<1>4. \A s \in Streams :
        WholeBut(cache[w][s], failed'["int"])
        /\ WholeBut(cache[w][s], failed'["int"] \cup {doing'[w]})
  BY <1>1, WholeWhenDone, WholeParts
<1>5. \A s \in Streams :
        cache[w][s] \subseteq cache[w][s] /\ cache[w][s] \subseteq cache[w][s] \cup Mine(w)
  OBVIOUS
<1>. QED BY <1>1, <1>2, <1>3, <1>4, <1>5, HandedOver

\* A batcher that is closed holds whole configurations.
LEMMA CloseRows ==
  ASSUME IInv, RowsInv, NEW w \in Slaves, CloseBatchers(w)
  PROVE  RowsInv'
<1>0. AtWork /\ current \in 1 .. runs
  BY StageTells DEF IInv, CloseBatchers, Working, Doing
<1>1. /\ UNCHANGED <<diskVars, program, current, missing, todo, failed, doing, pushed>>
      /\ doing[w] = None
  BY DEF CloseBatchers, writerVars
<1>2. AtWork'
  BY <1>0, <1>1, WorkStep
<1>3. cache[w] \in Batch /\ HandOver(w, cache[w], cache[w], Streams)
  BY DEF IInv, TypeOK, Batch, CloseBatchers, Flush, HandOver
<1>4. \A s \in Streams :
        WholeBut(cache[w][s], failed'["int"])
        /\ WholeBut(cache[w][s], failed'["int"] \cup {doing'[w]})
  BY <1>1, WholeWhenDone, WholeParts
<1>5. \A s \in Streams :
        cache[w][s] \subseteq cache[w][s] /\ cache[w][s] \subseteq cache[w][s] \cup Mine(w)
  OBVIOUS
<1>. QED BY <1>1, <1>2, <1>3, <1>4, <1>5, HandedOver

\* A failure may be flushed with rows of the failed configuration, but is
\* then on the list; what is not flushed is withdrawn.
LEMMA FailRows ==
  ASSUME IInv, RowsInv, NEW w \in Slaves, NEW streams \in SUBSET Streams,
         Fail(w, streams)
  PROVE  RowsInv'
<1>0. AtWork /\ current \in 1 .. runs /\ doing[w] \in Configs
  BY Busy DEF Fail
<1>1. /\ UNCHANGED <<diskVars, program, current, missing, todo>>
      /\ doing'[w] = None
      /\ failed'["int"] = failed["int"] \cup {doing[w]}
      /\ \A v \in Slaves \ {w} : doing'[v] = doing[v] /\ pushed'[v] = pushed[v]
  BY StreamTypes DEF Fail, FailuresMerged, IInv, TypeOK
<1>2. AtWork'
  BY <1>0, <1>1, WorkStep
<1>. DEFINE kept == Unbatched(cache[w], doing[w])
<1>3. cache[w] \in Batch /\ kept \in Batch
  BY DEF IInv, TypeOK, Batch, Unbatched
<1>4. HandOver(w, cache[w], kept, streams)
  BY DEF Fail, HandOver
<1>5. ASSUME NEW s \in Streams
      PROVE  /\ kept[s] \subseteq cache[w][s]
             /\ WholeBut(cache[w][s], failed["int"] \cup {doing[w]})
             /\ WholeBut(kept[s], failed["int"] \cup {doing[w]})
  <2>1. kept[s] = cache[w][s] \ Rows(doing[w])
    BY DEF Unbatched
  <2>2. WholeBut(cache[w][s], failed["int"] \cup {doing[w]})
    BY DEF RowsInv, BatchesWhole
  <2>3. WholeBut(cache[w][s] \ Rows(doing[w]), failed["int"] \cup {doing[w]})
    BY ONLY <1>0, <2>2, WholeWithin
  <2>. QED BY <2>1, <2>2, <2>3
<1>. HIDE DEF kept
<1>6. \A s \in Streams :
        /\ kept[s] \subseteq cache[w][s] /\ cache[w][s] \subseteq cache[w][s] \cup Mine(w)
        /\ WholeBut(cache[w][s], failed'["int"])
        /\ WholeBut(kept[s], failed'["int"] \cup {doing'[w]})
  BY <1>1, <1>5, WholeParts
<1>. QED BY <1>1, <1>2, <1>3, <1>4, <1>6, HandedOver

-----------------------------------------------------------------------------
(* The master at work                                                      *)

\* The queue loses its head, and the others move up.
MovedUp(old, new) ==
  /\ 1 \in DOMAIN old /\ Head(old) = old[1]
  /\ \A k \in DOMAIN new : k + 1 \in DOMAIN old /\ k + 1 # 1 /\ new[k] = old[k + 1]
  /\ \A k, l \in DOMAIN new : k # l => k + 1 # l + 1

\* That is what taking the head off the queue does.
LEMMA TailMovesUp ==
  ASSUME NEW S, NEW old \in Seq(S), old # <<>>
  PROVE  MovedUp(old, Tail(old))
<1>. DEFINE n == Len(old)
            new == Tail(old)
<1>1. /\ n \in Nat \ {0} /\ DOMAIN old = 1 .. n
      /\ Head(old) = old[1]
      /\ new \in Seq(S) /\ Len(new) = n - 1
      /\ \A k \in 1 .. n - 1 : new[k] = old[k + 1]
  BY HeadTailProperties
<1>2. DOMAIN new = 1 .. n - 1
  BY <1>1
<1>. HIDE DEF n, new
<1>3. 1 \in DOMAIN old
  BY <1>1
<1>4. \A k \in DOMAIN new : k \in Int /\ k + 1 \in DOMAIN old /\ k + 1 # 1 /\ new[k] = old[k + 1]
  BY <1>1, <1>2
<1>5. \A k, l \in DOMAIN new : k # l => k + 1 # l + 1
  BY <1>4
<1>. QED BY <1>1, <1>3, <1>4, <1>5 DEF MovedUp, new

\* What aggregation makes of the main container and of the queue.
Taken ==
  /\ \A s \in Streams : Main(s)' = Main(s) \/ Main(s)' = Main(s) \cup Queued(1, s)
  /\ \A r \in Runs \ {current} : container'[r] = container[r]

\* Aggregate: the first container is attached to the main one, or lost.
LEMMA AggregateTakes ==
  ASSUME IInv, AtWork, current \in Runs, Aggregate
  PROVE  MovedUp(aggregations, aggregations') /\ Taken
<1>1. aggregations \in Containers /\ aggregations # <<>> /\ aggregations' = Tail(aggregations)
  BY DEF IInv, TypeOK, Containers, Aggregate
<1>2. MovedUp(aggregations, aggregations')
  BY <1>1, TailMovesUp DEF Containers
<1>. DEFINE k == aggregations[1]
<1>3. k = Head(aggregations) /\ k \in [to : Streams, rows : SUBSET AllRows]
  <2>1. Head(aggregations) \in [to : Streams, rows : SUBSET AllRows]
    BY <1>1, HeadTailProperties DEF Containers
  <2>. QED BY <1>2, <2>1 DEF MovedUp
<1>4. \/ container' = [container EXCEPT ![current][k.to] = @ \cup k.rows]
      \/ container' = container
  BY <1>3 DEF Aggregate
<1>5. \A s \in Streams : Main(s) = container[current][s] /\ Main(s)' = container'[current][s]
  <2>1. program # <<>> /\ program' = program /\ current' = current
    BY DEF AtWork, Aggregate
  <2>. QED BY <2>1 DEF Main
<1>6. \A s \in Streams : Queued(1, s) = IF k.to = s THEN k.rows ELSE {}
  BY DEF Queued
<1>7. k.to \in Streams
  BY <1>3
<1>. HIDE DEF k
<1>8. CASE container' = container
  BY <1>2, <1>5, <1>8 DEF Taken
<1>9. CASE container' = [container EXCEPT ![current][k.to] = @ \cup k.rows]
  <2>. DEFINE to == k.to
              rows == k.rows
  <2>1. container \in [Runs -> [Streams -> SUBSET AllRows]]
    BY DEF IInv, TypeOK
  <2>2. to \in Streams /\ container' = [container EXCEPT ![current][to] = @ \cup rows]
    BY <1>7, <1>9
  <2>3. \A s \in Streams : Queued(1, s) = IF to = s THEN rows ELSE {}
    BY <1>6
  <2>. HIDE DEF to, rows
  <2>4. /\ \A r \in Runs \ {current} : container'[r] = container[r]
        /\ container'[current][to] = container[current][to] \cup rows
        /\ \A s \in Streams \ {to} : container'[current][s] = container[current][s]
    BY ONLY <2>1, <2>2, current \in Runs
  <2>. QED BY <1>2, <1>5, <2>2, <2>3, <2>4 DEF Taken
<1>. QED BY <1>2, <1>4, <1>8, <1>9

\* A container that is aggregated, or lost, leaves the queue; its rows are
\* then in the main container, or nowhere.
LEMMA AggregateRows ==
  ASSUME IInv, RowsInv, Aggregate
  PROVE  RowsInv'
<1>1. AtWork /\ current \in 1 .. runs /\ current \in Runs
  <2>1. AtWork /\ current \in 1 .. runs
    BY StageTells DEF IInv, Aggregate, Working, Doing
  <2>. QED BY <2>1, CurrentRun DEF IInv
<1>2. UNCHANGED <<runs, registered, record, seed, program, current, failed, missing,
                  todo, doing, pushed, cache>>
  BY DEF Aggregate, slaveVars
<1>3. AtWork'
  BY <1>1, <1>2 DEF AtWork, Fresh
<1>4. MovedUp(aggregations, aggregations') /\ Taken
  BY <1>1, AggregateTakes
<1>. DEFINE old == DOMAIN aggregations
            new == DOMAIN aggregations'
<1>5. /\ 1 \in old
      /\ \A k \in new : k + 1 \in old /\ k + 1 # 1 /\ aggregations'[k] = aggregations[k + 1]
      /\ \A k, l \in new : k # l => k + 1 # l + 1
  BY <1>4 DEF MovedUp
<1>6. \A k \in new, s \in Streams : Queued(k, s)' = Queued(k + 1, s)
  BY <1>5 DEF Queued
<1>7. \A s \in Streams : Main(s)' \subseteq Main(s) \cup Queued(1, s)
  BY <1>4 DEF Taken
<1>. HIDE DEF new
<1>8. Apart'
  <2>. SUFFICES ASSUME NEW s \in Streams
                PROVE  /\ \A w \in Slaves : cache[w][s] \cap Main(s)' = {}
                       /\ \A v, w \in Slaves : v # w => cache[v][s] \cap cache[w][s] = {}
                       /\ \A k \in new :
                            /\ Queued(k, s)' \cap Main(s)' = {}
                            /\ \A w \in Slaves : Queued(k, s)' \cap cache[w][s] = {}
                            /\ \A l \in new : k # l => Queued(k, s)' \cap Queued(l, s)' = {}
    BY <1>2 DEF Apart, new
  <2>1. /\ \A w \in Slaves : cache[w][s] \cap Main(s) = {}
        /\ \A v, w \in Slaves : v # w => cache[v][s] \cap cache[w][s] = {}
        /\ \A k \in old :
             /\ Queued(k, s) \cap Main(s) = {}
             /\ \A w \in Slaves : Queued(k, s) \cap cache[w][s] = {}
             /\ \A l \in old : k # l => Queued(k, s) \cap Queued(l, s) = {}
    BY DEF RowsInv, Apart
  <2>2. \A w \in Slaves : cache[w][s] \cap Main(s)' = {}
    BY <1>5, <1>7, <2>1
  <2>3. ASSUME NEW k \in new
        PROVE  /\ Queued(k, s)' \cap Main(s)' = {}
               /\ \A w \in Slaves : Queued(k, s)' \cap cache[w][s] = {}
    <3>1. k + 1 \in old /\ k + 1 # 1 /\ Queued(k, s)' = Queued(k + 1, s)
      BY <1>5, <1>6
    <3>2. Queued(k + 1, s) \cap Main(s) = {} /\ Queued(k + 1, s) \cap Queued(1, s) = {}
      BY <1>5, <2>1, <3>1
    <3>. QED BY <1>7, <2>1, <3>1, <3>2
  <2>4. ASSUME NEW k \in new, NEW l \in new, k # l
        PROVE  Queued(k, s)' \cap Queued(l, s)' = {}
    <3>1. k + 1 \in old /\ l + 1 \in old /\ k + 1 # l + 1
      BY <1>5, <2>4
    <3>. QED BY <1>6, <2>1, <3>1
  <2>. QED BY <2>1, <2>2, <2>3, <2>4
<1>9. ASSUME NEW c, Unstored(c) PROVE Unstored(c)'
  <2>. SUFFICES ASSUME NEW s \in Streams
                PROVE  /\ Rows(c) \cap Main(s)' = {}
                       /\ \A k \in new : Rows(c) \cap Queued(k, s)' = {}
    BY DEF Unstored, new
  <2>1. Rows(c) \cap Main(s) = {} /\ \A k \in old : Rows(c) \cap Queued(k, s) = {}
    BY <1>9 DEF Unstored
  <2>. QED BY <1>5, <1>6, <1>7, <2>1
<1>10. \A c, v : Unheld(c, v)' = Unheld(c, v)
  BY <1>2 DEF Unheld
<1>11. Waiting'
  BY <1>2, <1>9, <1>10 DEF RowsInv, Waiting
<1>12. InHand'
  <2>1. \A u \in Slaves : PushedRows(u)' = PushedRows(u)
    BY <1>2 DEF PushedRows
  <2>. QED BY <1>2, <1>9, <1>10, <2>1 DEF RowsInv, InHand
<1>13. BatchesWhole'
  BY <1>2, <1>5 DEF RowsInv, BatchesWhole, new
<1>14. Tidy'
  <2>1. ASSUME NEW r \in Runs, NEW s \in Streams, Committed(r, s)'
        PROVE  Cleared(container[r][s], record[r][s].missing)' 
    <3>1. r # current /\ Committed(r, s)
      BY <1>1, <1>2, <2>1 DEF AtWork, Fresh, Committed
    <3>2. container'[r] = container[r]
      BY <1>4, <3>1 DEF Taken
    <3>. QED BY <1>2, <3>1, <3>2 DEF RowsInv, Tidy
  <2>2. \A s \in Streams : missing'[s] = {}
    BY <1>3 DEF AtWork, Fresh, NoWriters
  <2>. QED BY <2>1, <2>2 DEF Tidy, Cleared
<1>. QED BY <1>3, <1>8, <1>11, <1>12, <1>13, <1>14 DEF RowsInv, Quiet

\* The work is done: nothing is on its way any more.
LEMMA FinishRows ==
  ASSUME IInv, RowsInv, FinishWork
  PROVE  RowsInv'
<1>1. /\ UNCHANGED <<diskVars, current, missing, todo, aggregations, cache, doing>>
      /\ UNCHANGED <<container, record>>
      /\ todo = {} /\ aggregations = <<>>
      /\ \A w \in Slaves : doing[w] = None /\ cache[w] = NoWriters
      /\ program # <<>>
  BY DEF FinishWork, AtRest, Working, Doing, Idle, diskVars, writerVars, slaveVars
<1>2. Quiet' /\ Apart' /\ Waiting' /\ InHand' /\ BatchesWhole'
  <2>1. NothingHeld'
    BY <1>1 DEF NothingHeld
  <2>2. \A w \in Slaves : doing'[w] = None
    BY <1>1
  <2>3. \A c \in todo', s \in Streams : Rows(c) \cap Main(s)' = {}
    BY <1>1
  <2>. QED BY <2>1, <2>2, <2>3, HeldNothing
<1>3. Tidy'
  <2>1. ASSUME NEW s \in Streams PROVE Main(s)' \subseteq Main(s)
    BY <1>1 DEF Main
  <2>. QED BY <1>1, <2>1 DEF RowsInv, Tidy, Committed, Cleared
<1>. QED BY <1>2, <1>3 DEF RowsInv

-----------------------------------------------------------------------------
(* The start and the end of a task                                         *)

\* Only the operation of that name is the work.
LEMMA NotWorking ==
  ASSUME \/ program = <<>>
         \/ Head(program).op \in {"register", "check", "synchronize", "recheck", "commit", "abort"}
  PROVE  ~AtWork
BY DEF AtWork, I, Op

\* What is stored stays tidy when no record is committed, and writers forget
\* what they miss or keep what they write.
LEMMA TidyKept ==
  ASSUME RowsInv, UNCHANGED container,
         \A r \in Runs, s \in Streams :
           Committed(r, s)' => Committed(r, s) /\ record'[r][s] = record[r][s],
         \A s \in Streams : \/ missing'[s] = {}
                            \/ missing'[s] = missing[s] /\ Main(s)' \subseteq Main(s)
  PROVE  Tidy'
<1>1. ASSUME NEW r \in Runs, NEW s \in Streams, Committed(r, s)'
      PROVE  Cleared(container'[r][s], record'[r][s].missing)
  BY <1>1 DEF RowsInv, Tidy
<1>2. ASSUME NEW s \in Streams PROVE Cleared(Main(s)', missing'[s])
  BY DEF RowsInv, Tidy, Cleared
<1>. QED BY <1>1, <1>2 DEF Tidy, Cleared

\* The main container of the task in hand, before and after a step of it.
LEMMA MainStays ==
  ASSUME program # <<>>, UNCHANGED <<container, current>>
  PROVE  \A s \in Streams : Main(s)' \subseteq Main(s)
BY DEF Main

\* While the master is not at work no slave has anything in hand.
LEMMA SlavesRest ==
  ASSUME IInv, ~AtWork
  PROVE  /\ \A w \in Slaves : doing[w] = None
         /\ todo # {} => Registering
BY DEF IInv, Slaving

\* A step of the master that is not at work, and writes no rows.
LEMMA RestRows ==
  ASSUME IInv, RowsInv, ~AtWork, UNCHANGED <<container, todo, aggregations, slaveVars>>,
         \A r \in Runs, s \in Streams :
           Committed(r, s)' => Committed(r, s) /\ record'[r][s] = record[r][s],
         \/ program # <<>> /\ UNCHANGED <<missing, current>>
         \/ program = <<>> /\ missing' = NoWriters
  PROVE  RowsInv'
<1>1. UNCHANGED <<aggregations, cache>> /\ \A w \in Slaves : doing'[w] = None
  BY SlavesRest DEF slaveVars
<1>2. todo # {} => program # <<>>
  BY SlavesRest DEF Registering
<1>3. program # <<>> => \A s \in Streams : Main(s)' \subseteq Main(s)
  BY <1>2, MainStays
<1>4. \A c \in todo', s \in Streams : Rows(c) \cap Main(s)' = {}
  <2>1. \A c \in todo, s \in Streams : Rows(c) \cap Main(s) = {}
    BY DEF RowsInv, Waiting, Unstored
  <2>. QED BY <1>2, <1>3, <2>1
<1>5. Quiet' /\ Apart' /\ Waiting' /\ InHand' /\ BatchesWhole'
  BY <1>1, <1>4, StillNothing
<1>6. Tidy'
  BY <1>3, TidyKept DEF NoWriters
<1>. QED BY <1>5, <1>6 DEF RowsInv

\* RegisterWriter: an in-flight table is all that changes.
LEMMA RegisterRows ==
  ASSUME IInv, RowsInv, RegisterWriter
  PROVE  RowsInv'
<1>1. ~AtWork /\ program # <<>>
  BY NotWorking DEF RegisterWriter, Doing, Idle
<1>2. UNCHANGED <<container, todo, aggregations, slaveVars, missing, current, record>>
  BY DEF RegisterWriter, writerVars
<1>. QED BY <1>1, <1>2, RestRows DEF Committed

\* SynchronizeMissingSerials: what the writers of a pair know changes, no row.
LEMMA SynchronizeRows ==
  ASSUME IInv, RowsInv, SynchronizeMissingSerials
  PROVE  RowsInv'
<1>1. ~AtWork /\ program # <<>>
  BY NotWorking DEF SynchronizeMissingSerials, Doing, Idle
<1>2. UNCHANGED <<container, todo, aggregations, slaveVars, missing, current, record>>
  BY DEF SynchronizeMissingSerials, writerVars, diskVars
<1>. QED BY <1>1, <1>2, RestRows DEF Committed

\* Recover: the writers are rebuilt and know of nothing missing.
LEMMA RecoverRows ==
  ASSUME IInv, RowsInv, NEW r \in 1 .. runs, Recover(r)
  PROVE  RowsInv'
<1>1. ~AtWork /\ program = <<>>
  BY NotWorking DEF Recover, Idle
<1>2. /\ UNCHANGED <<container, todo, aggregations, slaveVars, record>>
      /\ missing' = NoWriters
  BY DEF Recover, diskVars
<1>. QED BY <1>1, <1>2, RestRows DEF Committed

\* A rejected record is no more committed than before.
LEMMA RejectedNotCommitted ==
  ASSUME TypeOK, Rejected, NEW r \in Runs, NEW s \in Streams, Committed(r, s)'
  PROVE  Committed(r, s) /\ record'[r][s] = record[r][s]
<1>1. record' = [record EXCEPT ![current][OnWriter].state = "rejected"]
  BY DEF Rejected
<1>2. r = current /\ s = OnWriter => record'[r][s].state = "rejected"
  <2>. SUFFICES ASSUME r = current, s = OnWriter PROVE record'[r][s].state = "rejected"
    OBVIOUS
  <2>1. record'[r][s] = [record[r][s] EXCEPT !.state = "rejected"]
    BY <1>1 DEF TypeOK
  <2>2. record[r][s] \in Record
    BY DEF TypeOK
  <2>. QED BY <2>1, <2>2 DEF Record
<1>3. ~(r = current /\ s = OnWriter) => record'[r][s] = record[r][s]
  BY <1>1 DEF TypeOK
<1>. QED BY <1>2, <1>3 DEF Committed

\* AbortIntegration: the record is rejected, the container stays as it is.
LEMMA AbortIntegrationRows ==
  ASSUME IInv, RowsInv, AbortIntegration
  PROVE  RowsInv'
<1>1. ~AtWork /\ program # <<>>
  BY NotWorking DEF AbortIntegration, Doing, Idle
<1>2. UNCHANGED <<container, todo, aggregations, slaveVars, missing, current>> /\ Rejected
  BY DEF AbortIntegration, writerVars
<1>3. \A r \in Runs, s \in Streams :
        Committed(r, s)' => Committed(r, s) /\ record'[r][s] = record[r][s]
  BY <1>2, RejectedNotCommitted DEF IInv
<1>. QED BY <1>1, <1>2, <1>3, RestRows

\* Nothing is under way in a job that has lost its memory.
LEMMA EmptyRows ==
  ASSUME RowsInv, EmptyJob', UNCHANGED container,
         \A r \in Runs, s \in Streams :
           Committed(r, s)' => Committed(r, s) /\ record'[r][s] = record[r][s],
         \A s \in Streams : \/ missing'[s] = {}
                            \/ missing'[s] = missing[s] /\ Main(s)' \subseteq Main(s)
  PROVE  RowsInv'
<1>1. NothingHeld' /\ todo' = {} /\ \A w \in Slaves : doing'[w] = None
  BY DEF EmptyJob, NothingHeld
<1>2. Quiet' /\ Apart' /\ Waiting' /\ InHand' /\ BatchesWhole'
  BY <1>1, HeldNothing
<1>3. Tidy'
  BY TidyKept
<1>. QED BY <1>2, <1>3 DEF RowsInv

\* Crash: what the processes held is lost, the disk stays as it is.
LEMMA CrashRows ==
  ASSUME IInv, RowsInv, Crash
  PROVE  RowsInv'
<1>1. EmptyJob' /\ missing' = NoWriters /\ UNCHANGED <<container, record>>
  BY DEF Crash, Forget, EmptyJob, diskVars
<1>. QED BY <1>1, EmptyRows DEF Committed, NoWriters

\* TaskThrows: the work in hand is abandoned, the disk stays as it is.
LEMMA ThrowRows ==
  ASSUME IInv, RowsInv, TaskThrows
  PROVE  RowsInv'
<1>1. EmptyJob' /\ UNCHANGED <<container, record, missing, current>> /\ program # <<>>
  BY DEF TaskThrows, EmptyJob, diskVars, writerVars, Working, Doing, Idle
<1>2. \A s \in Streams : Main(s)' \subseteq Main(s)
  BY <1>1, MainStays
<1>. QED BY <1>1, <1>2, EmptyRows DEF Committed

\* AbortPostintegration: the job ends with one of its records rejected.
LEMMA AbortPostintegrationRows ==
  ASSUME IInv, RowsInv, AbortPostintegration
  PROVE  RowsInv'
<1>1. EmptyJob' /\ missing' = NoWriters /\ UNCHANGED container /\ Rejected
  BY DEF AbortPostintegration, Forget, EmptyJob
<1>2. \A r \in Runs, s \in Streams :
        Committed(r, s)' => Committed(r, s) /\ record'[r][s] = record[r][s]
  BY <1>1, RejectedNotCommitted DEF IInv
<1>3. \A s \in Streams : missing'[s] = {}
  BY <1>1 DEF NoWriters
<1>. QED BY <1>1, <1>2, <1>3, EmptyRows

\* The work queue of a seeded task is what the check of its seed found
\* missing, and cleared of every row.
LEMMA BeginRows ==
  ASSUME IInv, RowsInv, NEW q \in 0 .. runs, Begin(q)
  PROVE  RowsInv'
<1>. PICK c \in Runs : c = runs + 1
  BY BoundsAssumption DEF Begin, IInv, TypeOK, Runs
<1>1. /\ container' = [container EXCEPT ![c] = [s \in Streams |-> SeedRows(q, s)]]
      /\ record' = [record EXCEPT ![c] =
                       [s \in Streams |-> [Blank EXCEPT !.state = "open"]]]
      /\ current' = c /\ todo' = WorkQueue(q) /\ missing' = NoWriters
      /\ UNCHANGED <<aggregations, cache, doing>>
      /\ program = <<>> /\ (q # 0 => q \in Runs /\ Seedable(q))
  BY BoundsAssumption DEF Begin, Idle, IInv, TypeOK, Runs, slaveVars
<1>2. /\ \A s \in Streams : container'[c][s] = SeedRows(q, s)
      /\ \A r \in Runs \ {c} : container'[r] = container[r] /\ record'[r] = record[r]
      /\ \A s \in Streams : record'[c][s].state = "open"
  <2>1. [Blank EXCEPT !.state = "open"].state = "open"
    BY DEF Blank
  <2>. QED BY <1>1, <2>1 DEF IInv, TypeOK
<1>3. ASSUME NEW d \in todo', NEW s \in Streams
      PROVE  Rows(d) \cap SeedRows(q, s) = {}
  <2>1. CASE q = 0
    BY <2>1 DEF SeedRows
  <2>2. CASE q # 0
    <3>1. Committed(q, s) /\ record[q][s].missing = record[q]["int"].missing
      BY <1>1, <2>2, StreamTypes DEF Seedable, Committed
    <3>2. Cleared(container[q][s], record[q]["int"].missing)
      BY <1>1, <2>2, <3>1 DEF RowsInv, Tidy
    <3>. QED BY <1>1, <2>2, <3>2 DEF Cleared, WorkQueue, SeedRows
  <2>. QED BY <2>1, <2>2
<1>4. ~AtWork
  BY <1>1, NotWorking
<1>5. \A d \in todo', s \in Streams : Rows(d) \cap Main(s)' = {}
  BY <1>1, <1>2, <1>3 DEF Main
<1>6. \A w \in Slaves : doing'[w] = None
  BY <1>1, <1>4, SlavesRest
<1>7. Quiet' /\ Apart' /\ Waiting' /\ InHand' /\ BatchesWhole'
  BY <1>1, <1>4, <1>5, <1>6, StillNothing
<1>8. Tidy'
  <2>1. ASSUME NEW r \in Runs, NEW s \in Streams, Committed(r, s)'
        PROVE  Cleared(container'[r][s], record'[r][s].missing)
    <3>1. r # c
      BY <1>2, <2>1 DEF Committed
    <3>. QED BY <1>2, <2>1, <3>1 DEF RowsInv, Tidy, Committed
  <2>2. \A s \in Streams : Cleared(Main(s)', missing'[s])
    BY <1>1 DEF Cleared, NoWriters
  <2>. QED BY <2>1, <2>2 DEF Tidy, Cleared
<1>. QED BY <1>7, <1>8 DEF RowsInv

-----------------------------------------------------------------------------
(* Closing                                                                 *)

\* The writer that is checked is registered, and so not committed.
LEMMA WriterInHand ==
  ASSUME IInv, Doing("check") \/ Doing("recheck") \/ Doing("commit")
  PROVE  /\ current \in Runs /\ OnWriter \in Streams /\ ~AtWork /\ program # <<>>
         /\ OnWriter \in registered[current] /\ ~Committed(current, OnWriter)
         /\ todo = {} /\ Head(program).serials \in SUBSET Configs
<1>1. (ClosingPair \/ ClosingOne) /\ current \in 1 .. runs /\ current \in Runs
  BY StageTells, CurrentRun DEF IInv, Doing
<1>2. program # <<>> /\ Head(program).op \in {"check", "recheck", "commit"}
  BY DEF Doing, Idle
<1>3. Head(program) \in Operation
  BY <1>2, HeadTailProperties DEF IInv, TypeOK
<1>4. OnWriter \in Streams /\ Head(program).serials \in SUBSET Configs
  BY <1>3 DEF Operation, OnWriter
<1>5. OnWriter \in registered[current]
  <2>1. CASE ClosingPair
    BY <1>4, <2>1 DEF ClosingPair
  <2>2. CASE ClosingOne
    BY <2>2 DEF ClosingOne, OnWriter, Op
  <2>. QED BY <1>1, <2>1, <2>2
<1>6. ~Committed(current, OnWriter)
  BY <1>1, <1>4, <1>5 DEF IInv, OnDisk, Sound
<1>7. ~AtWork /\ ~Registering
  <2>1. Registering => Head(program).op = "register"
    BY DEF Registering, I, Z, Op
  <2>. QED BY <1>2, <2>1, NotWorking
<1>. QED BY <1>1, <1>2, <1>4, <1>5, <1>6, <1>7, SlavesRest

\* What a check does to the container of s.
Checks(c, s, total) ==
  /\ container'[c][s] = Dropped(container[c][s], total)
  /\ missing'[s] = IF total = {} THEN missing[s] ELSE total
  /\ \A t \in Streams \ {s} :
       missing'[t] = missing[t] /\ container'[c][t] = container[c][t]
  /\ \A r \in Runs \ {c} : container'[r] = container[r]

\* CheckIntegrity drops from the container what it finds missing, and records it.
LEMMA CheckDoes ==
  ASSUME TypeOK, NEW c \in Runs, c = current, NEW s \in Streams,
         NEW F \in SUBSET Configs, CheckIntegrity(s, F)
  PROVE  LET total == MissingSerials(container[c][s], failed[s] \cup F)
         IN  total \in SUBSET Configs /\ Checks(c, s, total)
<1>. DEFINE total == MissingSerials(container[c][s], failed[s] \cup F)
<1>1. container[c][s] \subseteq AllRows /\ failed[s] \cup F \in SUBSET Configs
  BY DEF TypeOK
<1>2. total \in SUBSET Configs
  BY <1>1, MissingTypes
<1>3. /\ missing' = IF total = {} THEN missing ELSE [missing EXCEPT ![s] = total]
      /\ container' = [container EXCEPT ![c][s] = Dropped(@, total)]
  BY DEF CheckIntegrity
<1>. HIDE DEF total
<1>4. Checks(c, s, total)
  BY <1>3 DEF TypeOK, Checks
<1>. QED BY <1>2, <1>4 DEF total

\* A check leaves no row of what it finds missing.
LEMMA CheckRows ==
  ASSUME IInv, RowsInv, Doing("check") \/ Doing("recheck"), NEW F \in SUBSET Configs,
         CheckIntegrity(OnWriter, F),
         UNCHANGED <<record, current, todo, aggregations, slaveVars>>
  PROVE  RowsInv'
<1>. PICK c \in Runs, s \in Streams : c = current /\ s = OnWriter
  BY WriterInHand
<1>1. ~Committed(c, s) /\ todo = {} /\ ~AtWork /\ program # <<>>
  BY WriterInHand
<1>. PICK total \in SUBSET Configs : Checks(c, s, total)
  BY CheckDoes DEF IInv
<1>2. /\ container'[c][s] = Dropped(container[c][s], total)
      /\ missing'[s] = IF total = {} THEN missing[s] ELSE total
      /\ \A t \in Streams \ {s} :
           missing'[t] = missing[t] /\ container'[c][t] = container[c][t]
      /\ \A r \in Runs \ {c} : container'[r] = container[r]
  BY DEF Checks
<1>3. Quiet' /\ Apart' /\ Waiting' /\ InHand' /\ BatchesWhole'
  <2>1. UNCHANGED <<aggregations, cache>> /\ \A w \in Slaves : doing'[w] = None
    BY <1>1, SlavesRest DEF slaveVars
  <2>2. \A d \in todo', t \in Streams : Rows(d) \cap Main(t)' = {}
    BY <1>1
  <2>. QED BY <1>1, <2>1, <2>2, StillNothing
<1>4. ASSUME NEW r \in Runs, NEW t \in Streams, Committed(r, t)'
      PROVE  Cleared(container'[r][t], record'[r][t].missing)
  <2>1. Committed(r, t) /\ (r # c \/ t # s)
    BY <1>1, <1>4 DEF Committed
  <2>2. container'[r][t] = container[r][t]
    BY <1>2, <2>1
  <2>. QED BY <2>1, <2>2 DEF RowsInv, Tidy
<1>5. ASSUME NEW t \in Streams PROVE Cleared(Main(t)', missing'[t])
  <2>1. Main(t) = container[c][t] /\ Main(t)' \subseteq container'[c][t]
    BY <1>1 DEF Main
  <2>2. Cleared(container[c][t], missing[t])
    BY <2>1 DEF RowsInv, Tidy
  <2>3. CASE t # s
    BY <1>2, <2>1, <2>2, <2>3 DEF Cleared
  <2>4. CASE t = s
    <3>1. Cleared(container'[c][s], total) /\ container'[c][s] \subseteq container[c][s]
      BY <1>2, DroppedWhole, DroppedRows
    <3>2. Cleared(container'[c][s], missing'[s])
      BY <1>2, <2>2, <2>4, <3>1 DEF Cleared
    <3>. QED BY <2>1, <2>4, <3>2 DEF Cleared
  <2>. QED BY <2>3, <2>4
<1>6. Tidy'
  BY <1>4, <1>5 DEF Tidy, Cleared
<1>. QED BY <1>3, <1>6 DEF RowsInv

\* A commit records what the check has cleared.
LEMMA CommitRows ==
  ASSUME IInv, RowsInv, CommitWriter
  PROVE  RowsInv'
<1>. PICK c \in Runs, s \in Streams : c = current /\ s = OnWriter
  BY WriterInHand DEF CommitWriter
<1>1. todo = {} /\ ~AtWork /\ program # <<>>
  BY WriterInHand DEF CommitWriter
<1>2. /\ UNCHANGED <<container, missing, current, todo, aggregations, slaveVars>>
      /\ record' = [record EXCEPT ![c][s] =
           [state |-> "committed", missing |-> missing[s], fail |-> fail[s]]]
  BY DEF CommitWriter, writerVars
<1>3. Quiet' /\ Apart' /\ Waiting' /\ InHand' /\ BatchesWhole'
  <2>1. UNCHANGED <<aggregations, cache>> /\ \A w \in Slaves : doing'[w] = None
    BY <1>1, <1>2, SlavesRest DEF slaveVars
  <2>2. \A d \in todo', t \in Streams : Rows(d) \cap Main(t)' = {}
    BY <1>1, <1>2
  <2>. QED BY <1>1, <2>1, <2>2, StillNothing
<1>4. ASSUME NEW r \in Runs, NEW t \in Streams, Committed(r, t)'
      PROVE  Cleared(container'[r][t], record'[r][t].missing)
  <2>1. CASE r = c /\ t = s
    <3>1. record'[c][s].missing = missing[s]
      BY <1>2 DEF IInv, TypeOK
    <3>2. Cleared(container[c][s], missing[s])
      BY <1>1 DEF RowsInv, Tidy, Main
    <3>. QED BY <1>2, <2>1, <3>1, <3>2
  <2>2. CASE ~(r = c /\ t = s)
    <3>1. record'[r][t] = record[r][t]
      BY <1>2, <2>2 DEF IInv, TypeOK
    <3>2. Committed(r, t)
      BY <1>4, <3>1 DEF Committed
    <3>. QED BY <1>2, <3>1, <3>2 DEF RowsInv, Tidy
  <2>. QED BY <2>1, <2>2
<1>5. \A t \in Streams : Cleared(Main(t)', missing'[t])
  <2>1. \A t \in Streams : Main(t)' \subseteq Main(t)
    BY <1>1, <1>2, MainStays
  <2>. QED BY <1>2, <2>1 DEF RowsInv, Tidy, Cleared
<1>6. Tidy'
  BY <1>4, <1>5 DEF Tidy, Cleared
<1>. QED BY <1>3, <1>6 DEF RowsInv

-----------------------------------------------------------------------------
(* The theorems about rows                                                 *)

\* An empty repository has no rows.
LEMMA InitRows == Init => RowsInv
<1>. SUFFICES ASSUME Init PROVE RowsInv
  OBVIOUS
<1>1. /\ aggregations = <<>> /\ todo = {} /\ program = <<>>
      /\ \A w \in Slaves : doing[w] = None /\ cache[w] = NoWriters
      /\ \A s \in Streams : missing[s] = {}
      /\ \A r \in Runs, s \in Streams : ~Committed(r, s)
  BY DEF Init, NoWriters, Blank, Committed
<1>2. /\ \A w \in Slaves, s \in Streams : cache[w][s] = {}
      /\ DOMAIN aggregations = {}
      /\ \A s \in Streams : Main(s) = {}
  BY <1>1 DEF NoWriters, Main
<1>3. Quiet /\ Apart /\ Waiting /\ InHand
  BY <1>1, <1>2, ConfigsAssumption DEF Quiet, NothingHeld, Apart, Waiting, InHand
<1>4. BatchesWhole
  BY <1>2, WholeParts DEF BatchesWhole
<1>5. Tidy
  BY <1>1 DEF Tidy, Cleared
<1>. QED BY <1>3, <1>4, <1>5 DEF RowsInv

\* Every step keeps the invariant.
LEMMA StepRows == IInv /\ RowsInv /\ [Next]_vars => RowsInv'
<1>. SUFFICES ASSUME IInv, RowsInv, [Next]_vars PROVE RowsInv'
  OBVIOUS
<1>1. CASE UNCHANGED vars
  <2>1. UNCHANGED <<container, registered, record, program, current, failed, missing, todo,
                    aggregations, doing, pushed, cache>>
    BY <1>1 DEF vars, diskVars, writerVars, slaveVars
  <2>2. /\ \A s \in Streams : Main(s)' = Main(s) /\ \A k : Queued(k, s)' = Queued(k, s)
        /\ \A w \in Slaves : PushedRows(w)' = PushedRows(w)
        /\ \A r, s : Committed(r, s)' = Committed(r, s)
    BY <2>1 DEF Main, Queued, PushedRows, Committed
  <2>3. \A c : Unstored(c)' = Unstored(c) /\ \A w : Unheld(c, w)' = Unheld(c, w)
    BY <2>1, <2>2 DEF Unstored, Unheld
  <2>4. Quiet'
    BY <2>1 DEF RowsInv, Quiet, NothingHeld, AtWork, Fresh
  <2>5. Apart' /\ Waiting' /\ InHand'
    BY <2>1, <2>2, <2>3 DEF RowsInv, Apart, Waiting, InHand
  <2>6. BatchesWhole' /\ Tidy'
    BY <2>1, <2>2 DEF RowsInv, BatchesWhole, Tidy
  <2>. QED BY <2>4, <2>5, <2>6 DEF RowsInv
<1>2. CASE CheckWriter
  <2>1. /\ Doing("check") /\ CheckIntegrity(OnWriter, {})
        /\ UNCHANGED <<record, current, todo, aggregations, slaveVars>>
    BY <1>2 DEF CheckWriter
  <2>. QED BY <2>1, CheckRows
<1>3. CASE RecheckWriter
  <2>1. /\ Doing("recheck") /\ CheckIntegrity(OnWriter, Head(program).serials)
        /\ UNCHANGED <<record, current, todo, aggregations, slaveVars>>
    BY <1>3 DEF RecheckWriter
  <2>2. Head(program).serials \in SUBSET Configs
    BY <2>1, WriterInHand
  <2>. QED BY <2>1, <2>2, CheckRows
<1>4. CASE MasterNext
  BY <1>2, <1>3, <1>4, BeginRows, RegisterRows, AggregateRows, FinishRows, SynchronizeRows,
     CommitRows, ThrowRows, AbortIntegrationRows, AbortPostintegrationRows, RecoverRows
     DEF MasterNext
<1>5. CASE \E w \in Slaves : SlaveNext(w)
  BY <1>5, StartRows, RefineRows, CloseRows, PushRows, SucceedRows, FailRows DEF SlaveNext
<1>6. CASE Crash
  BY <1>6, CrashRows
<1>. QED BY <1>1, <1>4, <1>5, <1>6 DEF Next, Finished

\* Where the rows of each configuration are, in every reachable state: the
\* batchers of the slaves, the containers on their way and the main container.
THEOREM ContentRows == Spec => []RowsInv
<1>1. Init => IInv /\ RowsInv
  BY InitInvariant, InitRows
<1>2. (IInv /\ RowsInv) /\ [Next]_vars => (IInv /\ RowsInv)'
  BY StepInvariant, StepRows
<1>. QED BY <1>1, <1>2, PTL DEF Spec

\* No row is in two places or pushed a second time, so that aggregation
\* violates no key: after retries with a refined mesh (unbatch()), failures
\* flushed before they are withdrawn, crashes, recovery and seeding.
THEOREM ContentNoDuplicates == Spec => []NoDuplicateRows
BY RowsInOnePlace, ContentInvariant, ContentRows, PTL

-----------------------------------------------------------------------------
(* Whole configurations                                                    *)

(***************************************************************************)
(* A failed configuration may leave rows in the main container of the zeta *)
(* stream, whose writer is not told of it; the synchronization of the pair *)
(* makes its check drop them.  A recovery does not know the list of        *)
(* failures any more, so what follows is about jobs that are not killed    *)
(* and pairs that are not aborted: these leave nothing to recover.         *)
(***************************************************************************)

\* The failures reported, and what the check of the integration found.
Excused == failed["int"] \cup missing["int"]

\* The main containers are whole, but for these.
MainWhole == \A s \in Streams : WholeBut(Main(s), Excused)

\* A writer is registered only while it is in use.
NoneAbandoned == \A r \in Runs : registered[r] # {} => program # <<>> /\ r = current

\* Committed containers are whole.
CommittedWhole == \A r \in Runs, s \in Streams : Committed(r, s) => WholeBut(container[r][s], {})

\* A pair is not aborted; one writer is left alone only to commit, and what
\* it misses includes all failures.
OrderlyPair ==
  Paired /\ program # <<>> =>
    /\ ~Aborting
    /\ ClosingOne => /\ program = <<Z("commit")>>
                     /\ missing["int"] = missing["zeta"] /\ failed["int"] \subseteq missing["int"]

WholeInv == MainWhole /\ NoneAbandoned /\ CommittedWhole /\ OrderlyPair

\* What is whole but for what has been cleared is whole.
LEMMA WholeCleared ==
  ASSUME NEW rows, NEW cs, NEW ds, WholeBut(rows, cs), Cleared(rows, ds), cs \subseteq ds
  PROVE  WholeBut(rows, {})
BY DEF WholeBut, Cleared

\* The operation that each of these stages begins with.
LEMMA StageBegins ==
  /\ Aborting' => Head(program').op = "abort"
  /\ ClosingOne' => Head(program').op \in {"check", "commit"}
  /\ AtWork' => Head(program').op = "work"
BY DEF Aborting, ClosingOne, AtWork, I, Z, Op

\* A step that writes no rows, and commits nothing.
LEMMA NothingWritten ==
  ASSUME WholeInv, program # <<>>, UNCHANGED <<container, current>>,
         \A r \in Runs, s \in Streams : Committed(r, s)' => Committed(r, s),
         Excused \subseteq Excused'
  PROVE  MainWhole' /\ CommittedWhole'
<1>1. \A s \in Streams : WholeBut(Main(s), Excused)
  BY DEF WholeInv, MainWhole
<1>2. ASSUME NEW s \in Streams PROVE WholeBut(Main(s)', Excused')
  <2>1. Main(s)' = Main(s) \/ Main(s)' = {}
    BY DEF Main
  <2>2. WholeBut(Main(s), Excused')
    BY <1>1, WholeParts
  <2>. QED BY <2>1, <2>2, WholeParts
<1>3. MainWhole'
  BY <1>2 DEF MainWhole, WholeBut
<1>4. CommittedWhole'
  BY DEF WholeInv, CommittedWhole, WholeBut
<1>. QED BY <1>3, <1>4

\* Only the group in hand has writers registered.
LEMMA StillNoneAbandoned ==
  ASSUME WholeInv, UNCHANGED current,
         \A r \in Runs \ {current} : registered'[r] = registered[r],
         program' = <<>> => registered'[current] = {}
  PROVE  NoneAbandoned'
BY DEF WholeInv, NoneAbandoned

\* While the slaves work nothing is written, and failures are only added.
LEMMA SlaveWhole ==
  ASSUME IInv, WholeInv, AtWork, current \in 1 .. runs,
         UNCHANGED <<diskVars, program, current, missing>>,
         failed["int"] \subseteq failed'["int"]
  PROVE  WholeInv'
<1>1. AtWork'
  BY WorkStep
<1>2. /\ UNCHANGED <<container, current, registered, record, program>>
      /\ program # <<>> /\ Excused \subseteq Excused'
  BY DEF diskVars, AtWork, Excused
<1>3. MainWhole' /\ CommittedWhole'
  BY <1>2, NothingWritten DEF Committed
<1>4. NoneAbandoned'
  BY <1>2, StillNoneAbandoned
<1>5. OrderlyPair'
  BY <1>1, StageBegins DEF OrderlyPair
<1>. QED BY <1>3, <1>4, <1>5 DEF WholeInv

\* What a slave does leaves the containers and the records alone.
LEMMA SlaveNextWhole ==
  ASSUME IInv, WholeInv, NEW w \in Slaves, SlaveNext(w)
  PROVE  WholeInv'
<1>1. \/ \E c \in Configs : StartConfiguration(w, c)
      \/ Refine(w) \/ CloseBatchers(w)
      \/ \E streams \in SUBSET Streams :
           PushSample(w, streams) \/ Succeed(w, streams) \/ Fail(w, streams)
  BY DEF SlaveNext
<1>2. AtWork /\ current \in 1 .. runs
  <2>1. Working \/ doing[w] # None
    BY <1>1 DEF StartConfiguration, Refine, CloseBatchers, PushSample, Succeed, Fail
  <2>. QED BY <2>1, Busy, StageTells DEF IInv, Working, Doing
<1>3. UNCHANGED <<diskVars, program, current, missing>> /\ failed["int"] \subseteq failed'["int"]
  <2>1. CASE \E streams \in SUBSET Streams : Fail(w, streams)
    BY <2>1, StreamTypes DEF Fail, FailuresMerged, IInv, TypeOK
  <2>2. CASE ~\E streams \in SUBSET Streams : Fail(w, streams)
    BY <1>1, <2>2 DEF StartConfiguration, Refine, CloseBatchers, PushSample, Succeed, writerVars
  <2>. QED BY <2>1, <2>2
<1>. QED BY <1>2, <1>3, SlaveWhole

\* A container on its way is whole but for failures that have been reported.
LEMMA AggregateWhole ==
  ASSUME IInv, RowsInv, WholeInv, Aggregate
  PROVE  WholeInv'
<1>1. AtWork /\ current \in 1 .. runs /\ current \in Runs
  <2>1. AtWork /\ current \in 1 .. runs
    BY StageTells DEF IInv, Aggregate, Working, Doing
  <2>. QED BY <2>1, CurrentRun DEF IInv
<1>2. UNCHANGED <<registered, record, program, current, failed, missing>>
  BY DEF Aggregate
<1>3. AtWork'
  BY <1>1, <1>2 DEF AtWork, Fresh
<1>4. /\ \A s \in Streams : Main(s)' = Main(s) \/ Main(s)' = Main(s) \cup Queued(1, s)
      /\ \A r \in Runs \ {current} : container'[r] = container[r]
      /\ 1 \in DOMAIN aggregations
  BY <1>1, AggregateTakes DEF Taken, MovedUp
<1>5. ASSUME NEW s \in Streams PROVE WholeBut(Main(s)', Excused)
  <2>1. WholeBut(Main(s), Excused)
    BY DEF WholeInv, MainWhole
  <2>2. WholeBut(aggregations[1].rows, failed["int"])
    BY <1>4 DEF RowsInv, BatchesWhole
  <2>3. WholeBut(Queued(1, s), Excused)
    BY <2>2, WholeParts DEF Queued, Excused
  <2>. QED BY <1>4, <2>1, <2>3, WholeParts
<1>6. MainWhole'
  BY <1>2, <1>5 DEF MainWhole, Excused
<1>7. CommittedWhole'
  <2>. SUFFICES ASSUME NEW r \in Runs, NEW s \in Streams, Committed(r, s)'
                PROVE  WholeBut(container'[r][s], {})
    BY DEF CommittedWhole, WholeBut
  <2>1. r # current /\ Committed(r, s)
    BY <1>1, <1>2 DEF AtWork, Fresh, Committed
  <2>. QED BY <1>4, <2>1 DEF WholeInv, CommittedWhole
<1>8. NoneAbandoned'
  BY <1>1, <1>2, StillNoneAbandoned DEF AtWork
<1>9. OrderlyPair'
  BY <1>3, StageBegins DEF OrderlyPair
<1>. QED BY <1>6, <1>7, <1>8, <1>9 DEF WholeInv

\* What a group is seeded with is committed, and whole.
LEMMA BeginWhole ==
  ASSUME IInv, WholeInv, NEW q \in 0 .. runs, Begin(q)
  PROVE  WholeInv'
<1>. PICK c \in Runs : c = runs + 1
  BY BoundsAssumption DEF Begin, IInv, TypeOK, Runs
<1>1. /\ container' = [container EXCEPT ![c] = [s \in Streams |-> SeedRows(q, s)]]
      /\ record' = [record EXCEPT ![c] =
                       [s \in Streams |-> [Blank EXCEPT !.state = "open"]]]
      /\ current' = c /\ UNCHANGED registered
      /\ program = <<>> /\ (q # 0 => q \in Runs /\ Seedable(q))
  BY BoundsAssumption DEF Begin, Idle, IInv, TypeOK, Runs
<1>2. /\ \A s \in Streams : container'[c][s] = SeedRows(q, s)
      /\ \A r \in Runs \ {c} : container'[r] = container[r] /\ record'[r] = record[r]
      /\ \A s \in Streams : record'[c][s].state = "open"
  <2>1. [Blank EXCEPT !.state = "open"].state = "open"
    BY DEF Blank
  <2>. QED BY <1>1, <2>1 DEF IInv, TypeOK
<1>3. \A r \in Runs : registered'[r] = {}
  BY <1>1 DEF WholeInv, NoneAbandoned
<1>4. ASSUME NEW s \in Streams, NEW cs PROVE WholeBut(SeedRows(q, s), cs)
  <2>1. CASE q = 0
    BY <2>1, WholeParts DEF SeedRows
  <2>2. CASE q # 0
    <3>1. WholeBut(container[q][s], {})
      BY <1>1, <2>2 DEF WholeInv, CommittedWhole, Seedable, Committed
    <3>. QED BY <2>2, <3>1, WholeParts DEF SeedRows
  <2>. QED BY <2>1, <2>2
<1>5. MainWhole'
  <2>1. ASSUME NEW s \in Streams PROVE WholeBut(Main(s)', Excused')
    <3>1. Main(s)' = {} \/ Main(s)' = SeedRows(q, s)
      BY <1>1, <1>2 DEF Main
    <3>. QED BY <1>4, <3>1, WholeParts
  <2>. QED BY <2>1 DEF MainWhole, WholeBut
<1>6. CommittedWhole'
  <2>. SUFFICES ASSUME NEW r \in Runs, NEW s \in Streams, Committed(r, s)'
                PROVE  WholeBut(container'[r][s], {})
    BY DEF CommittedWhole, WholeBut
  <2>1. r # c
    BY <1>2 DEF Committed
  <2>. QED BY <1>2, <2>1 DEF WholeInv, CommittedWhole, Committed
<1>7. NoneAbandoned'
  BY <1>3 DEF NoneAbandoned
<1>8. OrderlyPair'
  <2>1. registered'[current'] = {}
    BY <1>1, <1>3
  <2>. QED BY <2>1, StreamTypes DEF OrderlyPair, Aborting, ClosingOne
<1>. QED BY <1>5, <1>6, <1>7, <1>8 DEF WholeInv

\* A pair whose writers are both registered is not being left by one of them.
LEMMA BothRegistered ==
  ASSUME registered'[current'] = Streams, Head(program').op # "abort"
  PROVE  OrderlyPair'
<1>. SUFFICES ASSUME Paired PROVE ~Aborting' /\ ~ClosingOne'
  BY DEF OrderlyPair
<1>1. \A s : Streams # {s}
  BY StreamTypes
<1>. QED BY <1>1, StageBegins DEF ClosingOne

\* RegisterWriter: the second registration of a pair, or the work, is next.
LEMMA RegisterWhole ==
  ASSUME IInv, WholeInv, RegisterWriter
  PROVE  WholeInv'
<1>1. Registering /\ current \in 1 .. runs
  BY StageTells DEF IInv, RegisterWriter, Doing
<1>2. /\ program # <<>> /\ UNCHANGED <<container, record, current, failed, missing>>
      /\ program' = Tail(program)
      /\ \A r \in Runs \ {current} : registered'[r] = registered[r]
  BY DEF RegisterWriter, Doing, Idle, writerVars, IInv, TypeOK
<1>3. program' # <<>> /\ Head(program').op \in {"register", "work"}
  <2>1. CASE program = <<I("register"), Z("register"), I("work")>>
    <3>1. program' = <<Z("register"), I("work")>>
      BY <1>2, <2>1
    <3>. QED BY <3>1 DEF Z, Op
  <2>2. CASE program = <<Z("register"), I("work")>> \/ program = <<I("register"), I("work")>>
    <3>1. program' = <<I("work")>>
      <4>1. program = <<Z("register"), I("work")>> => Tail(program) = <<I("work")>>
        OBVIOUS
      <4>2. program = <<I("register"), I("work")>> => Tail(program) = <<I("work")>>
        OBVIOUS
      <4>. QED BY <1>2, <2>2, <4>1, <4>2
    <3>. QED BY <3>1 DEF I, Op
  <2>. QED BY <1>1, <2>1, <2>2 DEF Registering
<1>4. MainWhole' /\ CommittedWhole'
  BY <1>2, NothingWritten DEF Committed, Excused
<1>5. NoneAbandoned'
  BY <1>2, <1>3, StillNoneAbandoned
<1>6. OrderlyPair'
  BY <1>3, StageBegins DEF OrderlyPair
<1>. QED BY <1>4, <1>5, <1>6 DEF WholeInv

\* FinishWork: both writers of a pair are still registered.
LEMMA FinishWhole ==
  ASSUME IInv, WholeInv, FinishWork
  PROVE  WholeInv'
<1>1. AtWork /\ current \in 1 .. runs
  BY StageTells DEF IInv, FinishWork, Working, Doing
<1>2. /\ program # <<>>
      /\ UNCHANGED <<container, record, registered, current, failed, missing>>
      /\ program' = CloseAndCommit(Streams)
  BY DEF FinishWork, Working, Doing, Idle, diskVars, writerVars
<1>3. program' # <<>> /\ Head(program').op = "check"
  <2>1. CASE Paired
    <3>1. program' = <<I("check"), Z("check"), I("synchronize"), I("commit"), Z("commit")>>
      BY <1>2, <2>1, StreamTypes, Closing
    <3>. QED BY <3>1 DEF I, Op
  <2>2. CASE ~Paired
    <3>1. program' = <<I("check"), I("commit")>>
      BY <1>2, <2>2, StreamTypes, Closing
    <3>. QED BY <3>1 DEF I, Op
  <2>. QED BY <2>1, <2>2
<1>4. MainWhole' /\ CommittedWhole'
  BY <1>2, NothingWritten DEF Committed, Excused
<1>5. NoneAbandoned'
  BY <1>2, <1>3, StillNoneAbandoned
<1>6. OrderlyPair'
  BY <1>1, <1>2, <1>3, BothRegistered DEF AtWork
<1>. QED BY <1>4, <1>5, <1>6 DEF WholeInv

\* SynchronizeMissingSerials: both have still to commit.
LEMMA SynchronizeWhole ==
  ASSUME IInv, WholeInv, SynchronizeMissingSerials
  PROVE  WholeInv'
<1>1. /\ program # <<>> /\ registered[current] = Streams /\ Resynchronized
  BY SynchronizeDoes
<1>2. UNCHANGED <<container, record, registered, current, failed, missing>>
  BY DEF SynchronizeMissingSerials, diskVars, writerVars
<1>3. program' # <<>> /\ Head(program').op \in {"recheck", "commit"}
  BY <1>1 DEF Resynchronized, Recheck, I, Op
<1>4. MainWhole' /\ CommittedWhole'
  BY <1>1, <1>2, NothingWritten DEF Committed, Excused
<1>5. NoneAbandoned'
  BY <1>2, <1>3, StillNoneAbandoned
<1>6. OrderlyPair'
  BY <1>1, <1>2, <1>3, BothRegistered
<1>. QED BY <1>4, <1>5, <1>6 DEF WholeInv

\* A check drops all of a configuration or nothing, and what is missing
\* before is missing after.
LEMMA CheckWhole ==
  ASSUME IInv, WholeInv, Doing("check") \/ Doing("recheck"), NEW F \in SUBSET Configs,
         CheckIntegrity(OnWriter, F), missing[OnWriter] = {} \/ Checked(OnWriter),
         UNCHANGED <<record, current>>
  PROVE  MainWhole' /\ CommittedWhole'
<1>. PICK c \in Runs, s \in Streams : c = current /\ s = OnWriter
  BY WriterInHand
<1>1. ~Committed(c, s) /\ program # <<>>
  BY WriterInHand
<1>. DEFINE total == MissingSerials(container[c][s], failed[s] \cup F)
<1>2. total \in SUBSET Configs /\ Checks(c, s, total)
  BY CheckDoes DEF IInv
<1>3. missing[s] \subseteq total
  <2>1. MissingSerials(container[c][s], {}) \subseteq total
    BY MissingReported
  <2>. QED BY <2>1 DEF Checked, Fixed
<1>. HIDE DEF total
<1>4. /\ container'[c][s] = Dropped(container[c][s], total)
      /\ \A t \in Streams \ {s} : container'[c][t] = container[c][t]
      /\ \A r \in Runs \ {c} : container'[r] = container[r]
  BY <1>2 DEF Checks
<1>5. Excused \subseteq Excused'
  <2>1. failed["int"] \subseteq failed'["int"]
    BY StreamTypes DEF CheckIntegrity, IInv, TypeOK
  <2>2. missing["int"] \subseteq missing'["int"]
    BY <1>2, <1>3, StreamTypes DEF Checks
  <2>. QED BY <2>1, <2>2 DEF Excused
<1>6. ASSUME NEW t \in Streams PROVE WholeBut(Main(t)', Excused')
  <2>1. Main(t) = container[c][t]
    BY <1>1 DEF Main
  <2>2. WholeBut(container[c][t], Excused')
    BY <1>5, <2>1, WholeParts DEF WholeInv, MainWhole
  <2>3. WholeBut(container'[c][t], Excused')
    <3>1. CASE t = s
      BY <1>2, <1>4, <2>2, <3>1, WholeDropped
    <3>2. CASE t # s
      BY <1>4, <2>2, <3>2
    <3>. QED BY <3>1, <3>2
  <2>4. Main(t)' = container'[c][t] \/ Main(t)' = {}
    BY DEF Main
  <2>. QED BY <2>3, <2>4, WholeParts
<1>7. MainWhole'
  BY <1>6 DEF MainWhole, WholeBut
<1>8. CommittedWhole'
  <2>. SUFFICES ASSUME NEW r \in Runs, NEW t \in Streams, Committed(r, t)'
                PROVE  WholeBut(container'[r][t], {})
    BY DEF CommittedWhole, WholeBut
  <2>1. Committed(r, t) /\ (r # c \/ t # s)
    BY <1>1 DEF Committed
  <2>2. container'[r][t] = container[r][t]
    BY <1>4, <2>1
  <2>. QED BY <2>1, <2>2 DEF WholeInv, CommittedWhole
<1>. QED BY <1>7, <1>8

\* CheckWriter: the first check of a writer.
LEMMA CheckWriterWhole ==
  ASSUME IInv, WholeInv, CheckWriter
  PROVE  WholeInv'
<1>1. (ClosingPair \/ ClosingOne) /\ current \in 1 .. runs
  BY StageTells DEF IInv, CheckWriter, Doing
<1>2. /\ program # <<>> /\ Head(program).op = "check" /\ program' = Tail(program)
      /\ UNCHANGED <<registered, record, current>>
      /\ Doing("check") /\ CheckIntegrity(OnWriter, {})
  BY DEF CheckWriter, Doing, Idle
<1>3. CASE ClosingPair
  <2>1. \/ /\ program = <<I("check"), Z("check"), I("synchronize"), I("commit"), Z("commit")>>
           /\ missing = NoWriters
        \/ /\ program = <<Z("check"), I("synchronize"), I("commit"), Z("commit")>>
           /\ missing["zeta"] = {}
    BY <1>2, <1>3 DEF ClosingPair, I, Z, Op, Recheck
  <2>2. missing[OnWriter] = {}
    BY <2>1, WriterInHand, <1>2 DEF OnWriter, Z, Op, NoWriters
  <2>3. program' # <<>> /\ Head(program').op \in {"check", "synchronize"}
    <3>1. \/ program' = <<Z("check"), I("synchronize"), I("commit"), Z("commit")>>
          \/ program' = <<I("synchronize"), I("commit"), Z("commit")>>
      <4>1. program = <<I("check"), Z("check"), I("synchronize"), I("commit"), Z("commit")>>
              => Tail(program) = <<Z("check"), I("synchronize"), I("commit"), Z("commit")>>
        OBVIOUS
      <4>2. program = <<Z("check"), I("synchronize"), I("commit"), Z("commit")>>
              => Tail(program) = <<I("synchronize"), I("commit"), Z("commit")>>
        OBVIOUS
      <4>. QED BY <1>2, <2>1, <4>1, <4>2
    <3>. QED BY <3>1 DEF I, Z, Op
  <2>4. MainWhole' /\ CommittedWhole'
    BY <1>2, <2>2, CheckWhole
  <2>5. NoneAbandoned'
    BY <1>2, <2>3, StillNoneAbandoned
  <2>6. OrderlyPair'
    BY <1>2, <1>3, <2>3, BothRegistered DEF ClosingPair
  <2>. QED BY <2>4, <2>5, <2>6 DEF WholeInv
<1>4. CASE ClosingOne
  <2>1. PICK s \in Streams :
          program = <<Op("check", s), Op("commit", s)>> /\ missing[s] = {}
    BY <1>2, <1>4 DEF ClosingOne, Op
  <2>2. ~Paired
    BY <1>2, <1>4 DEF WholeInv, OrderlyPair, Z, Op
  <2>3. missing[OnWriter] = {}
    BY <2>1 DEF OnWriter, Op
  <2>4. program' = <<Op("commit", s)>>
    BY <1>2, <2>1
  <2>5. MainWhole' /\ CommittedWhole'
    BY <1>2, <2>3, CheckWhole
  <2>6. NoneAbandoned'
    <3>1. program' # <<>>
      BY <2>4
    <3>. QED BY <1>2, <3>1, StillNoneAbandoned
  <2>7. OrderlyPair'
    BY <2>2 DEF OrderlyPair
  <2>. QED BY <2>5, <2>6, <2>7 DEF WholeInv
<1>. QED BY <1>1, <1>3, <1>4

\* RecheckWriter: both have still to commit.
LEMMA RecheckWhole ==
  ASSUME IInv, WholeInv, RecheckWriter
  PROVE  WholeInv'
<1>1. (ClosingPair \/ ClosingOne) /\ current \in 1 .. runs
  BY StageTells DEF IInv, RecheckWriter, Doing
<1>2. /\ program # <<>> /\ Head(program).op = "recheck" /\ program' = Tail(program)
      /\ UNCHANGED <<registered, record, current>>
      /\ Doing("recheck") /\ CheckIntegrity(OnWriter, Head(program).serials)
  BY DEF RecheckWriter, Doing, Idle
<1>3. /\ registered[current] = Streams /\ Paired /\ Checked("int") /\ Checked("zeta")
      /\ \/ program = <<Recheck("int", Lacking("int")), Recheck("zeta", Lacking("zeta")),
                        I("commit"), Z("commit")>>
         \/ program = <<Recheck("int", Lacking("int")), I("commit"), Z("commit")>>
         \/ program = <<Recheck("zeta", Lacking("zeta")), I("commit"), Z("commit")>>
  BY <1>1, <1>2 DEF ClosingPair, ClosingOne, I, Z, Op
<1>4. OnWriter \in Streams /\ Head(program).serials \in SUBSET Configs
  BY <1>2, WriterInHand
<1>5. Checked(OnWriter)
  <2>1. OnWriter = "int" \/ OnWriter = "zeta"
    BY <1>4, StreamTypes
  <2>. QED BY <1>3, <2>1
<1>6. program' # <<>> /\ Head(program').op \in {"recheck", "commit"}
  <2>1. \/ program' = <<Recheck("zeta", Lacking("zeta")), I("commit"), Z("commit")>>
        \/ program' = <<I("commit"), Z("commit")>>
    <3>1. program = <<Recheck("int", Lacking("int")), Recheck("zeta", Lacking("zeta")),
                      I("commit"), Z("commit")>>
            => Tail(program) = <<Recheck("zeta", Lacking("zeta")), I("commit"), Z("commit")>>
      OBVIOUS
    <3>2. \A a : program = <<a, I("commit"), Z("commit")>>
            => Tail(program) = <<I("commit"), Z("commit")>>
      OBVIOUS
    <3>. QED BY <1>2, <1>3, <3>1, <3>2
  <2>. QED BY <2>1 DEF Recheck, I, Op
<1>7. MainWhole' /\ CommittedWhole'
  BY <1>2, <1>4, <1>5, CheckWhole
<1>8. NoneAbandoned'
  BY <1>2, <1>6, StillNoneAbandoned
<1>9. OrderlyPair'
  BY <1>2, <1>3, <1>6, BothRegistered
<1>. QED BY <1>7, <1>8, <1>9 DEF WholeInv

\* CommitWriter: the check has cleared all that has failed, in the container
\* of the integration, and after synchronization in that of its pair.
LEMMA CommitWhole ==
  ASSUME IInv, RowsInv, WholeInv, CommitWriter
  PROVE  WholeInv'
<1>. PICK c \in Runs, s \in Streams : c = current /\ s = OnWriter
  BY WriterInHand DEF CommitWriter
<1>1. (ClosingPair \/ ClosingOne) /\ current \in 1 .. runs
  BY StageTells DEF IInv, CommitWriter, Doing
<1>2. /\ program # <<>> /\ Head(program).op = "commit" /\ program' = Tail(program)
      /\ UNCHANGED <<container, current, failed, missing>>
      /\ record' = [record EXCEPT ![c][s] =
           [state |-> "committed", missing |-> missing[s], fail |-> fail[s]]]
      /\ registered' = [registered EXCEPT ![c] = @ \ {s}]
  BY DEF CommitWriter, Doing, Idle, writerVars
<1>3. /\ registered'[c] = registered[c] \ {s}
      /\ \A r \in Runs \ {c} : registered'[r] = registered[r]
      /\ \A r \in Runs, t \in Streams : ~(r = c /\ t = s) => record'[r][t] = record[r][t]
  BY <1>2 DEF IInv, TypeOK
\* The two ways to be here.
<1>4. ASSUME ClosingPair
      PROVE  /\ s = "int" /\ Paired /\ registered[c] = {"int", "zeta"}
             /\ program' = <<Z("commit")>>
             /\ missing["int"] = missing["zeta"] /\ failed["int"] \subseteq missing["int"]
  <2>1. /\ program = <<I("commit"), Z("commit")>> /\ Paired /\ registered[c] = Streams
        /\ Checked("int") /\ missing["int"] = missing["zeta"]
    BY <1>2, <1>4 DEF ClosingPair, I, Z, Op, Recheck
  <2>2. s = "int"
    BY <2>1 DEF OnWriter, I, Op
  <2>3. program' = <<Z("commit")>>
    BY <1>2, <2>1
  <2>. QED BY <2>1, <2>2, <2>3, StreamTypes DEF Checked
<1>5. ASSUME ClosingOne
      PROVE  /\ registered[c] = {s} /\ program' = <<>>
             /\ missing["int"] = missing[s] /\ failed["int"] \subseteq missing[s]
  <2>1. PICK t \in Streams :
          registered[c] = {t} /\ program = <<Op("commit", t)>> /\ Checked(t)
    BY <1>2, <1>5 DEF ClosingOne, Op
  <2>2. s = t
    BY <2>1 DEF OnWriter, Op
  <2>3. program' = <<>>
    BY <1>2, <2>1
  <2>4. CASE Paired
    <3>1. missing["int"] = missing["zeta"] /\ failed["int"] \subseteq missing["int"]
      BY <1>2, <1>5, <2>4 DEF WholeInv, OrderlyPair
    <3>. QED BY <2>1, <2>2, <2>3, <3>1, StreamTypes
  <2>5. CASE ~Paired
    BY <2>1, <2>2, <2>3, <2>5, StreamTypes DEF Checked
  <2>. QED BY <2>4, <2>5
<1>6. WholeBut(container[c][s], {})
  <2>1. Main(s) = container[c][s]
    BY <1>2 DEF Main
  <2>2. WholeBut(Main(s), Excused) /\ Cleared(Main(s), missing[s])
    BY DEF WholeInv, MainWhole, RowsInv, Tidy
  <2>3. Excused \subseteq missing[s]
    BY <1>1, <1>4, <1>5 DEF Excused
  <2>. QED BY <2>1, <2>2, <2>3, WholeCleared
<1>7. MainWhole'
  <2>1. ASSUME NEW t \in Streams PROVE WholeBut(Main(t)', Excused')
    <3>1. Main(t)' = Main(t) \/ Main(t)' = {}
      BY <1>2 DEF Main
    <3>2. WholeBut(Main(t), Excused) /\ Excused' = Excused
      BY <1>2 DEF WholeInv, MainWhole, Excused
    <3>. QED BY <3>1, <3>2, WholeParts
  <2>. QED BY <2>1 DEF MainWhole, WholeBut
<1>8. CommittedWhole'
  <2>. SUFFICES ASSUME NEW r \in Runs, NEW t \in Streams, Committed(r, t)'
                PROVE  WholeBut(container[r][t], {})
    BY <1>2 DEF CommittedWhole, WholeBut
  <2>1. CASE r = c /\ t = s
    BY <1>6, <2>1
  <2>2. CASE ~(r = c /\ t = s)
    BY <1>3, <2>2 DEF WholeInv, CommittedWhole, Committed
  <2>. QED BY <2>1, <2>2
<1>9. NoneAbandoned'
  <2>1. program' = <<>> => registered'[current] = {}
    BY <1>1, <1>3, <1>4, <1>5
  <2>. QED BY <1>2, <1>3, <2>1, StillNoneAbandoned
<1>10. OrderlyPair'
  <2>1. CASE ClosingPair
    <3>1. ~Aborting'
      BY <1>4, <2>1, StageBegins DEF Z, Op
    <3>. QED BY <1>2, <1>4, <2>1, <3>1 DEF OrderlyPair
  <2>2. CASE ClosingOne
    BY <1>5, <2>2 DEF OrderlyPair
  <2>. QED BY <1>1, <2>1, <2>2
<1>. QED BY <1>7, <1>8, <1>9, <1>10 DEF WholeInv

-----------------------------------------------------------------------------
(* An exception in a task without a pair                                   *)

\* TaskThrows: the writers are still registered, and will abort.
LEMMA ThrowWhole ==
  ASSUME IInv, WholeInv, TaskThrows, ~Paired
  PROVE  WholeInv'
<1>1. /\ program # <<>> /\ UNCHANGED <<container, record, registered, current, failed, missing>>
      /\ program' = InOrder("abort", Streams)
  BY DEF TaskThrows, Working, Doing, Idle, diskVars, writerVars
<1>2. program' # <<>>
  <2>1. program' = <<I("abort")>>
    BY <1>1, Ordered, StreamTypes
  <2>. QED BY <2>1
<1>3. MainWhole' /\ CommittedWhole'
  BY <1>1, NothingWritten DEF Committed, Excused
<1>4. NoneAbandoned'
  BY <1>1, <1>2, StillNoneAbandoned
<1>. QED BY <1>3, <1>4 DEF WholeInv, OrderlyPair

\* AbortIntegration: the writer is taken out of the in-flight table.
LEMMA AbortWhole ==
  ASSUME IInv, WholeInv, AbortIntegration, ~Paired
  PROVE  WholeInv'
<1>1. /\ program # <<>> /\ UNCHANGED <<container, current, failed, missing>> /\ Rejected
      /\ registered' = [registered EXCEPT ![current] = @ \ {"int"}]
  BY DEF AbortIntegration, Doing, Idle, writerVars
<1>2. \A r \in Runs, s \in Streams : Committed(r, s)' => Committed(r, s)
  BY <1>1, RejectedNotCommitted DEF IInv
<1>3. MainWhole' /\ CommittedWhole'
  BY <1>1, <1>2, NothingWritten DEF Excused
<1>4. NoneAbandoned'
  <2>1. Aborting /\ current \in Runs
    BY StageTells, CurrentRun DEF IInv, AbortIntegration, Doing
  <2>2. registered'[current] = {}
    BY <1>1, <2>1, StreamTypes DEF Aborting, IInv, TypeOK
  <2>3. \A r \in Runs \ {current} : registered'[r] = registered[r]
    BY <1>1 DEF IInv, TypeOK
  <2>. QED BY <1>1, <2>2, <2>3, StillNoneAbandoned
<1>. QED BY <1>3, <1>4 DEF WholeInv, OrderlyPair

-----------------------------------------------------------------------------
(* The theorem about whole configurations                                  *)

\* Nothing is stored at first.
LEMMA InitWhole == Init => WholeInv
<1>. SUFFICES ASSUME Init PROVE WholeInv
  OBVIOUS
<1>1. /\ program = <<>> /\ \A r \in Runs : registered[r] = {}
      /\ \A r \in Runs, s \in Streams : ~Committed(r, s)
      /\ \A s \in Streams : Main(s) = {}
  BY DEF Init, Blank, Committed, Main
<1>. QED BY <1>1, WholeParts DEF WholeInv, MainWhole, NoneAbandoned, CommittedWhole, OrderlyPair

\* Every step keeps the invariant, if jobs are not killed and pairs not aborted.
LEMMA StepWhole ==
  ASSUME IInv, RowsInv, WholeInv, [Next]_vars, ~Crashes, ~(TaskFails /\ Paired)
  PROVE  WholeInv'
<1>1. CASE UNCHANGED vars
  <2>1. UNCHANGED <<container, registered, record, program, current, failed, missing>>
    BY <1>1 DEF vars, diskVars, writerVars
  <2>2. /\ \A s \in Streams : Main(s)' = Main(s)
        /\ \A r, s : Committed(r, s)' = Committed(r, s)
    BY <2>1 DEF Main, Committed
  <2>3. MainWhole' /\ CommittedWhole' /\ NoneAbandoned'
    BY <2>1, <2>2 DEF WholeInv, MainWhole, CommittedWhole, NoneAbandoned, Excused
  <2>4. Aborting' = Aborting /\ ClosingOne' = ClosingOne
    BY <2>1, <1>1 DEF Aborting, ClosingOne, Fresh, Checked, vars, writerVars
  <2>5. OrderlyPair'
    BY <2>1, <2>4 DEF WholeInv, OrderlyPair
  <2>. QED BY <2>3, <2>5 DEF WholeInv
<1>2. CASE TaskThrows \/ AbortIntegration
  <2>1. ~Paired
    <3>1. AbortIntegration => Aborting /\ program # <<>>
      BY StageTells DEF IInv, AbortIntegration, Doing, Idle
    <3>2. TaskThrows => TaskFails
      BY DEF TaskThrows
    <3>. QED BY <1>2, <3>1, <3>2 DEF WholeInv, OrderlyPair
  <2>. QED BY <1>2, <2>1, ThrowWhole, AbortWhole
<1>3. ~AbortPostintegration
  <2>1. AbortPostintegration => Aborting /\ program # <<>> /\ OnWriter = "zeta"
    BY StageTells DEF IInv, AbortPostintegration, Doing, Idle
  <2>2. AbortPostintegration => Paired
    BY <2>1 DEF Aborting, OnWriter, I, Op
  <2>. QED BY <2>1, <2>2 DEF WholeInv, OrderlyPair
<1>4. \A r \in 1 .. runs : ~Recover(r)
  BY BoundsAssumption DEF Recover, Idle, WholeInv, NoneAbandoned, IInv, TypeOK, Runs
<1>5. CASE MasterNext
  BY <1>2, <1>3, <1>4, <1>5, BeginWhole, RegisterWhole, AggregateWhole, FinishWhole,
     CheckWriterWhole, SynchronizeWhole, RecheckWhole, CommitWhole DEF MasterNext
<1>6. CASE \E w \in Slaves : SlaveNext(w)
  BY <1>6, SlaveNextWhole
<1>7. ~Crash
  BY DEF Crash
<1>. QED BY <1>1, <1>5, <1>6, <1>7 DEF Next, Finished

\* What a committed container has rows of, it has whole.
LEMMA WholeIsStored == IInv /\ WholeInv => StoredWhole
<1>. SUFFICES ASSUME IInv, WholeInv, NEW r \in Runs, NEW s \in Streams, Committed(r, s),
                     NEW c \in Held(r, s)
              PROVE  Rows(c) \subseteq container[r][s]
  BY DEF StoredWhole
<1>1. container[r][s] \subseteq AllRows
  BY DEF IInv, TypeOK
<1>2. c \in Configs
  BY <1>1, PresentTypes DEF Held
<1>3. Rows(c) \cap container[r][s] # {}
  BY <1>1, <1>2, PresentHasRows DEF Held
<1>. QED BY <1>2, <1>3 DEF WholeInv, CommittedWhole, WholeBut

\* A committed container holds a configuration with every sample and leg, or
\* not at all: failures flushed before they are withdrawn, unreadable
\* containers, the unwinding of both batchers, the check of each container and
\* the synchronization of a pair, in any number of seeded runs.  It needs that
\* the job is not killed, and a pair not aborted: recovery forgets the failures.
THEOREM ContentStoredWhole ==
  ASSUME ~Crashes, ~(TaskFails /\ Paired)
  PROVE  Spec => []StoredWhole
<1>1. Init => IInv /\ RowsInv /\ WholeInv
  BY InitInvariant, InitRows, InitWhole
<1>2. (IInv /\ RowsInv /\ WholeInv) /\ [Next]_vars => (IInv /\ RowsInv /\ WholeInv)'
  BY StepInvariant, StepRows, StepWhole
<1>3. IInv /\ WholeInv => StoredWhole
  BY WholeIsStored
<1>. QED BY <1>1, <1>2, <1>3, PTL DEF Spec

-----------------------------------------------------------------------------
(* Aggregation                                                             *)

\* Attaching a container violates no key of the main container: where errors
\* are trapped, only a container that cannot be read is lost, and its
\* configurations with it.
THEOREM ContentNoKeyViolated ==
  Spec => [](Working /\ aggregations # <<>> => ~Clashes(Head(aggregations)))
<1>1. IInv /\ RowsInv => (Working /\ aggregations # <<>> => ~Clashes(Head(aggregations)))
  <2>. SUFFICES ASSUME IInv, RowsInv, Working, aggregations # <<>>
                PROVE  ~Clashes(Head(aggregations))
    OBVIOUS
  <2>. DEFINE k == aggregations[1]
  <2>1. aggregations \in Containers
    BY DEF IInv, TypeOK, Containers
  <2>2. 1 \in DOMAIN aggregations /\ Head(aggregations) = k
    BY <2>1, TailMovesUp DEF Containers, MovedUp
  <2>3. k.to \in Streams
    <3>1. Head(aggregations) \in [to : Streams, rows : SUBSET AllRows]
      BY <2>1, HeadTailProperties DEF Containers
    <3>. QED BY <2>2, <3>1
  <2>4. Queued(1, k.to) = k.rows
    BY DEF Queued
  <2>5. Main(k.to) = container[current][k.to]
    BY DEF Main, Working, Doing, Idle
  <2>6. Queued(1, k.to) \cap Main(k.to) = {}
    BY <2>2, <2>3 DEF RowsInv, Apart
  <2>. QED BY <2>2, <2>4, <2>5, <2>6 DEF Clashes
<1>. QED BY <1>1, ContentInvariant, ContentRows, PTL
=============================================================================
