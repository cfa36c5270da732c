--------------------------- MODULE BatchJobsProofs ---------------------------
(***************************************************************************)
(* Proofs about BatchJobs, for every job and any number of requests and    *)
(* crashes.                                                                *)
(***************************************************************************)
EXTENDS BatchJobs, FiniteSetTheorems, SequenceTheorems, WellFoundedInduction, TLAPS

Status == {"Pending", "Running"} \cup Terminal

(* Where a request is when no store operation of its own is under way, and *)
(* the stacks of labels it can have.                                       *)
Label == {"idle", "check", "start", "resolve", "wave", "next", "reload", "done"}
Early == {"idle", "check", "start", "resolve"}
Stack == {<<l>> : l \in Label} \cup {<<i, l>> : i \in Inside, l \in Label}
            \cup {<<"fill", i, l>> : i \in {"write", "erase"}, l \in Label}

Bottom(s) == s[Len(s)]
Waves == InWaves(job.deps)
AllLoaded == Execs \subseteq loaded \cup panicked

TaskState == {"none", "waiting", "acting", "backoff"} \cup Ended

(* An execution that an executor has in hand is known to the store, and no *)
(* other has it.                                                           *)
OneRunner ==
    /\ OneExecutorRuns
    /\ \A c \in Calls, e \in Execs : task[c][e] \in InHand => execs[e] # "none"

(* The tasks of an executor: those of the waves before the current one     *)
(* have ended, those of the waves after it have not been spawned.          *)
InOrder(c) ==
    /\ Bottom(pc[c]) \in Early => wave[c] = 0
    /\ Bottom(pc[c]) \in {"wave", "next"} => wave[c] # 0
    /\ Bottom(pc[c]) = "next" => \A e \in Waves[wave[c]] : task[c][e] \in Ended
    /\ wave[c] # 0 => ~Circular /\ \A e \in Waves[wave[c] - 1] : task[c][e] \in Ended
    /\ \A e \in Execs : /\ task[c][e] # "none" => e \in Waves[wave[c]]
                        /\ task[c][e] = "ok" => e \in loaded
                        /\ task[c][e] = "panicked" => e \in panicked

TaskInv ==
    /\ job \in Jobs
    /\ execs \in [Execs -> {"none", "Pending", "Completed"}]
    /\ wave \in [Calls -> 0..Cardinality(Execs)]
    /\ task \in [Calls -> [Execs -> TaskState]]
    /\ OneRunner
    /\ \A c \in Calls : InOrder(c)
    /\ DependenciesFirst

(* A request that will write a status has one, and writes Completed only   *)
(* when it is true.                                                        *)
Writing(s) == \E i \in DOMAIN s : s[i] \in {"write", "put"}
WritesTruth ==
    /\ db = "Completed" => AllLoaded
    /\ \A a \in Actors : /\ Writing(pc[a]) => own[a] # NoJob
                         /\ own[a] = "Completed" => AllLoaded

(* While store operations come one after the other: what the request whose *)
(* operation is under way has read, and how far the cache may lag.         *)
Exact ==
    /\ index = {db} \ {NoJob}
    /\ \A a, b \in Actors : Head(pc[a]) \in Inside /\ Head(pc[b]) \in Inside => a = b
    /\ \A a \in Actors : /\ Head(pc[a]) \in {"fill", "write", "erase"} => got[a] = db
                         /\ Head(pc[a]) = "put" => own[a] = db
                         /\ Head(pc[a]) = "evict" => db = NoJob
    /\ cache \in {db, NoJob} \/ \E a \in Actors : Head(pc[a]) \in {"put", "evict"}

StoreInv ==
    /\ db \in Status \cup {NoJob} /\ cache \in Status \cup {NoJob}
    /\ pc \in [Actors -> Stack]
    /\ got \in [Actors -> Status \cup {NoJob}]
    /\ own \in [Actors -> Status \cup {NoJob}]
    /\ serial \in BOOLEAN
    /\ WritesTruth
    /\ serial => Exact

(* The inductive invariant.                                                *)
IInv == TaskInv /\ StoreInv

-----------------------------------------------------------------------------
(* The waves.                                                              *)

Size == Cardinality(Execs)
NextIn(deps, s) == s \cup {e \in Execs : DependenciesSatisfied(deps, e, s)}
IsWaves(deps, m, f) ==
    f = [n \in 0..m |-> IF n = 0 THEN {} ELSE NextIn(deps, f[n - 1])]

LEMMA SizeType == Size \in Nat /\ Size # 0
BY ExecsAssumption, FS_CardinalityType, FS_EmptySet DEF Size

(* The recursive definition of the waves has a solution for every length.  *)
LEMMA WavesExist == ASSUME NEW deps PROVE \A m \in Nat : \E f : IsWaves(deps, m, f)
<1> DEFINE Bad == {m \in Nat : ~ \E f : IsWaves(deps, m, f)}
           R == OpToRel(<, Nat)
<1> SUFFICES ASSUME Bad # {} PROVE FALSE
  OBVIOUS
<1>1. IsWellFoundedOn(R, Nat) /\ (\A p, q \in Nat : q < p => <<q, p>> \in R)
  BY NatLessThanWellFounded DEF OpToRel
<1> HIDE DEF R
<1>2. PICK m \in Bad : \A q \in Bad : ~(<<q, m>> \in R)
  BY <1>1, WFMin
<1>3. m # 0
  <2>1. IsWaves(deps, 0, [n \in 0..0 |-> {}])
    BY DEF IsWaves
  <2> QED  BY <2>1, <1>2
<1>4. m - 1 \in Nat /\ <<m - 1, m>> \in R
  BY <1>1, <1>2, <1>3
<1>5. PICK f : IsWaves(deps, m - 1, f)
  BY <1>2, <1>4
<1> DEFINE g == [n \in 0..m |-> IF n = m THEN NextIn(deps, f[m - 1]) ELSE f[n]]
<1>6. \A n \in 0..m : g[n] = IF n = 0 THEN {} ELSE NextIn(deps, g[n - 1])
  <2>1. \A n \in 0..(m - 1) : f[n] = IF n = 0 THEN {} ELSE NextIn(deps, f[n - 1])
    BY <1>4, <1>5 DEF IsWaves
  <2>2. SUFFICES ASSUME NEW n \in 0..m
                 PROVE  g[n] = IF n = 0 THEN {} ELSE NextIn(deps, g[n - 1])
    OBVIOUS
  <2>3. CASE n = 0
    BY <1>3, <1>4, <2>1, <2>3
  <2>4. CASE n # 0
    <3>1. n - 1 \in 0..(m - 1) /\ g[n - 1] = f[n - 1]
      BY <2>4, <1>2
    <3> QED  BY <2>1, <2>4, <3>1, <1>2
  <2> QED  BY <2>3, <2>4
<1>7. IsWaves(deps, m, g)
  BY <1>6 DEF IsWaves
<1> QED  BY <1>2, <1>7

LEMMA WavesUnfold ==
    ASSUME NEW deps
    PROVE  /\ InWaves(deps)[0] = {}
           /\ \A n \in 1..Size : InWaves(deps)[n] = NextIn(deps, InWaves(deps)[n - 1])
<1>1. \E f : IsWaves(deps, Size, f)
  BY WavesExist, SizeType
<1>2. InWaves(deps) = CHOOSE f : IsWaves(deps, Size, f)
  BY DEF InWaves, IsWaves, NextIn, Size
<1>3. IsWaves(deps, Size, InWaves(deps))
  BY <1>1, <1>2
<1>4. ASSUME NEW w, IsWaves(deps, Size, w)
      PROVE  w[0] = {} /\ \A n \in 1..Size : w[n] = NextIn(deps, w[n - 1])
  <2>1. \A n \in 0..Size : w[n] = IF n = 0 THEN {} ELSE NextIn(deps, w[n - 1])
    BY <1>4 DEF IsWaves
  <2> QED  BY <2>1, SizeType
<1> QED  BY <1>3, <1>4

LEMMA WavesInExecs ==
    ASSUME NEW deps, NEW n \in 0..Size
    PROVE  InWaves(deps)[n] \subseteq Execs
<1> DEFINE w == InWaves(deps)
           Bad == {m \in 0..Size : ~(w[m] \subseteq Execs)}
           R == OpToRel(<, Nat)
<1>0. /\ w[0] = {}
      /\ \A m \in 1..Size : w[m] = NextIn(deps, w[m - 1])
  BY WavesUnfold
<1> HIDE DEF w
<1> SUFFICES ASSUME Bad # {} PROVE FALSE
  BY DEF w
<1>1. IsWellFoundedOn(R, Nat) /\ (\A p, q \in Nat : q < p => <<q, p>> \in R)
  BY NatLessThanWellFounded DEF OpToRel
<1> HIDE DEF R
<1>2. Bad \subseteq Nat
  BY SizeType
<1>3. PICK m \in Bad : \A q \in Bad : ~(<<q, m>> \in R)
  <2> HIDE DEF Bad
  <2> QED  BY <1>1, <1>2, WFMin
<1>4. m # 0
  BY <1>0, <1>3
<1>5. m - 1 \in Nat /\ m - 1 \in 0..Size /\ <<m - 1, m>> \in R /\ m \in 1..Size
  BY <1>1, <1>3, <1>4, SizeType
<1>6. w[m - 1] \subseteq Execs
  BY <1>3, <1>5
<1> QED  BY <1>0, <1>3, <1>5, <1>6 DEF NextIn

-----------------------------------------------------------------------------
(* The stacks.                                                             *)

LEMMA Push1 == ASSUME NEW x, NEW y PROVE <<x>> \o <<y>> = <<x, y>>
<1> DEFINE c == <<x>> \o <<y>>
<1>1. <<x>> \in Seq({x, y}) /\ <<y>> \in Seq({x, y}) /\ <<x, y>> \in Seq({x, y})
  OBVIOUS
<1>2. c \in Seq({x, y}) /\ Len(c) = 2 /\ c[1] = x /\ c[2] = y
  BY <1>1, ConcatProperties
<1> HIDE DEF c
<1>3. c = <<x, y>>
  BY <1>1, <1>2, SeqEqual
<1> QED  BY <1>3 DEF c

LEMMA Push2 == ASSUME NEW x, NEW y, NEW z PROVE <<x>> \o <<y, z>> = <<x, y, z>>
<1> DEFINE c == <<x>> \o <<y, z>>
<1>1. /\ <<x>> \in Seq({x, y, z}) /\ <<y, z>> \in Seq({x, y, z})
      /\ <<x, y, z>> \in Seq({x, y, z})
  OBVIOUS
<1>2. c \in Seq({x, y, z}) /\ Len(c) = 3 /\ c[1] = x /\ c[2] = y /\ c[3] = z
  BY <1>1, ConcatProperties
<1> HIDE DEF c
<1>3. c = <<x, y, z>>
  BY <1>1, <1>2, SeqEqual
<1> QED  BY <1>3 DEF c

LEMMA Forms ==
    ASSUME NEW s \in Stack
    PROVE  /\ Head(s) \in Label \cup Inside /\ Bottom(s) \in Label
           /\ Head(s) \in Label => s = <<Head(s)>>
           /\ Head(s) \in Inside \ {"fill"} => s = <<Head(s), Bottom(s)>>
           /\ Head(s) = "fill" => \/ s = <<"fill", Bottom(s)>>
                                  \/ \E i \in {"write", "erase"} : s = <<"fill", i, Bottom(s)>>
<1>1. CASE s \in {<<l>> : l \in Label}
  <2>1. PICK l \in Label : s = <<l>>
    BY <1>1
  <2>2. Head(s) = l /\ Bottom(s) = l /\ l \notin Inside
    BY <2>1 DEF Bottom, Label, Inside
  <2> QED  BY <2>1, <2>2 DEF Inside
<1>2. CASE s \in {<<i, l>> : i \in Inside, l \in Label}
  <2>1. PICK i \in Inside, l \in Label : s = <<i, l>>
    BY <1>2
  <2>2. Head(s) = i /\ Bottom(s) = l /\ i \notin Label
    BY <2>1 DEF Bottom, Label, Inside
  <2> QED  BY <2>1, <2>2
<1>3. CASE s \in {<<"fill", i, l>> : i \in {"write", "erase"}, l \in Label}
  <2>1. PICK i \in {"write", "erase"}, l \in Label : s = <<"fill", i, l>>
    BY <1>3
  <2>2. Head(s) = "fill" /\ Bottom(s) = l
    BY <2>1 DEF Bottom
  <2>3. "fill" \notin Label /\ "fill" \in Inside
    BY DEF Label, Inside
  <2> QED  BY <2>1, <2>2, <2>3
<1> QED  BY <1>1, <1>2, <1>3 DEF Stack

LEMMA InStack ==
    ASSUME NEW l \in Label, NEW i \in Inside, NEW j \in {"write", "erase"}
    PROVE  <<l>> \in Stack /\ <<i, l>> \in Stack /\ <<"fill", j, l>> \in Stack
BY DEF Stack

LEMMA Writers1 ==
    ASSUME NEW x PROVE Writing(<<x>>) <=> x \in {"write", "put"}
BY DEF Writing

LEMMA Writers2 ==
    ASSUME NEW x, NEW y
    PROVE  Writing(<<x, y>>) <=> x \in {"write", "put"} \/ y \in {"write", "put"}
<1>1. DOMAIN <<x, y>> = {1, 2}
  OBVIOUS
<1> QED  BY <1>1 DEF Writing

LEMMA Writers3 ==
    ASSUME NEW x, NEW y, NEW z
    PROVE  Writing(<<x, y, z>>) <=> \E w \in {x, y, z} : w \in {"write", "put"}
<1>1. DOMAIN <<x, y, z>> = {1, 2, 3}
  OBVIOUS
<1> QED  BY <1>1 DEF Writing

(* Where a Get leads.                                                      *)
LEMMA Paths ==
    ASSUME NEW s \in Stack, Head(s) \in Label, NEW l \in Label,
           NEW next \in {<<l>>, <<"write", l>>, <<"erase", l>>},
           NEW path \in {next, <<"fill">> \o next}
    PROVE  /\ path \o Tail(s) = path /\ path \in Stack /\ Bottom(path) = l
           /\ Head(path) \in {"fill", l, "write", "erase"}
           /\ Writing(path) => next = <<"write", l>>
<1>1. Tail(s) = << >>
  <2>1. s = <<Head(s)>>
    BY Forms
  <2> QED  BY <2>1
<1>2. CASE next = <<l>>
  <2>1. path \in {<<l>>, <<"fill", l>>}
    <3>1. <<"fill">> \o <<l>> = <<"fill", l>>
      BY Push1
    <3> QED  BY <1>2, <3>1
  <2>2. ~Writing(<<l>>) /\ ~Writing(<<"fill", l>>)
    <3>1. l \notin {"write", "put"}
      BY DEF Label
    <3> QED  BY <3>1, Writers1, Writers2, Writers3
  <2>3. <<l>> \in Stack /\ <<"fill", l>> \in Stack
    BY DEF Stack, Inside
  <2>4. /\ <<l>> \o << >> = <<l>> /\ <<"fill", l>> \o << >> = <<"fill", l>>
        /\ Head(<<l>>) = l /\ Head(<<"fill", l>>) = "fill"
        /\ Bottom(<<l>>) = l /\ Bottom(<<"fill", l>>) = l
    BY DEF Bottom
  <2> QED  BY <1>1, <2>1, <2>2, <2>3, <2>4
<1>3. ASSUME NEW i \in {"write", "erase"}, next = <<i, l>>
      PROVE  /\ path \o Tail(s) = path /\ path \in Stack /\ Bottom(path) = l
             /\ Head(path) \in {"fill", "write", "erase"}
             /\ Writing(path) => i = "write"
  <2>1. path \in {<<i, l>>, <<"fill", i, l>>}
    <3>1. <<"fill">> \o <<i, l>> = <<"fill", i, l>>
      BY Push2
    <3> QED  BY <1>3, <3>1
  <2>2. Writing(<<i, l>>) \/ Writing(<<"fill", i, l>>) => i = "write"
    <3>1. l \notin {"write", "put"}
      BY DEF Label
    <3> QED  BY <3>1, Writers1, Writers2, Writers3
  <2>3. <<i, l>> \in Stack /\ <<"fill", i, l>> \in Stack
    BY DEF Stack, Inside
  <2>4. /\ <<i, l>> \o << >> = <<i, l>> /\ <<"fill", i, l>> \o << >> = <<"fill", i, l>>
        /\ Head(<<i, l>>) = i /\ Head(<<"fill", i, l>>) = "fill"
        /\ Bottom(<<i, l>>) = l /\ Bottom(<<"fill", i, l>>) = l
    BY DEF Bottom
  <2> QED  BY <1>1, <2>1, <2>2, <2>3, <2>4
<1> QED  BY <1>2, <1>3

-----------------------------------------------------------------------------
(* The store.                                                              *)

(* What a step does to the stack of one request.                           *)
Moves(a, s) == s \in Stack /\ pc' = [pc EXCEPT ![a] = s]

(* BatchJobStore::get, as part of an operation or not.                     *)
LEMMA GetOK ==
    ASSUME StoreInv, NEW a \in Actors, Head(pc[a]) \in Label, NEW l \in Label,
           NEW next \in {<<l>>, <<"write", l>>, <<"erase", l>>}, Get(a, next),
           NEW v, own' = [own EXCEPT ![a] = v],
           v \in Status \/ (v = own[a] /\ next # <<"write", l>>),
           v = "Completed" => AllLoaded,
           UNCHANGED <<loaded, panicked>>
    PROVE  StoreInv' /\ \E s : Moves(a, s) /\ Bottom(s) = l
<1> DEFINE path == IF cache = NoJob /\ db # NoJob THEN <<"fill">> \o next ELSE next
           g == IF cache # NoJob THEN cache ELSE db
<1>1. /\ got' = [got EXCEPT ![a] = g] /\ pc' = [pc EXCEPT ![a] = path \o Tail(pc[a])]
      /\ serial' = (serial /\ ~(Head(path) \in Inside /\ Overlaps(a)))
      /\ UNCHANGED <<db, index, cache>>
  BY DEF Get, Goto, store
<1>2. pc[a] \in Stack
  BY DEF StoreInv
<1>3. /\ path \o Tail(pc[a]) = path /\ path \in Stack /\ Bottom(path) = l
      /\ Head(path) \in {"fill", l, "write", "erase"}
      /\ Writing(path) => next = <<"write", l>>
  BY <1>2, Paths
<1>4. g \in Status \cup {NoJob} /\ (cache \in {db, NoJob} => g = db)
  BY DEF StoreInv
<1> HIDE DEF path, g
<1>5. pc' = [pc EXCEPT ![a] = path] /\ pc' \in [Actors -> Stack]
  BY <1>1, <1>3 DEF StoreInv
<1>6. got' \in [Actors -> Status \cup {NoJob}] /\ own' \in [Actors -> Status \cup {NoJob}]
  BY <1>1, <1>4 DEF StoreInv
<1>7. "none" \notin Status /\ Inside \cap Label = {}
  BY DEF Status, Terminal, Inside, Label
<1>8. WritesTruth'
  <2>1. db' = db /\ (AllLoaded' <=> AllLoaded)
    BY <1>1 DEF AllLoaded
  <2>2. \A b \in Actors : /\ Writing(pc'[b]) => own'[b] # NoJob
                          /\ own'[b] = "Completed" => AllLoaded
    BY <1>3, <1>5, <1>7 DEF StoreInv, WritesTruth, NoJob
  <2> QED  BY <2>1, <2>2 DEF StoreInv, WritesTruth
<1>9. ASSUME serial' PROVE Exact'
  <2>1. Exact /\ (Head(path) \in Inside => \A b \in Actors \ {a} : Head(pc[b]) \notin Inside)
    BY <1>1, <1>9 DEF StoreInv, Overlaps
  <2>2. Head(pc[a]) \notin Inside /\ \A b \in Actors \ {a} : pc'[b] = pc[b]
    BY <1>5, <1>7 DEF StoreInv
  <2>3. pc'[a] = path /\ got'[a] = g
    BY <1>1, <1>5 DEF StoreInv
  <2>4. Head(path) \in Inside => cache \in {db, NoJob}
    BY <2>1, <2>2 DEF Exact, Inside
  <2>5. \A b, c \in Actors : Head(pc'[b]) \in Inside /\ Head(pc'[c]) \in Inside => b = c
    BY <2>1, <2>2, <2>3 DEF Exact
  <2>6. \A b \in Actors : /\ Head(pc'[b]) \in {"fill", "write", "erase"} => got'[b] = db
                          /\ Head(pc'[b]) = "put" => own'[b] = db
                          /\ Head(pc'[b]) = "evict" => db = NoJob
    <3> SUFFICES ASSUME NEW b \in Actors
                 PROVE  /\ Head(pc'[b]) \in {"fill", "write", "erase"} => got'[b] = db
                        /\ Head(pc'[b]) = "put" => own'[b] = db
                        /\ Head(pc'[b]) = "evict" => db = NoJob
      OBVIOUS
    <3>1. CASE b = a
      BY <1>3, <1>4, <2>3, <2>4, <3>1 DEF Inside, Label
    <3>2. CASE b # a
      BY <1>1, <2>1, <2>2, <3>2 DEF Exact, StoreInv
    <3> QED  BY <3>1, <3>2
  <2>7. cache \in {db, NoJob} \/ \E b \in Actors : Head(pc'[b]) \in {"put", "evict"}
    BY <2>1, <2>2 DEF Exact, Inside
  <2> QED  BY <1>1, <2>1, <2>5, <2>6, <2>7 DEF Exact
<1>10. serial' \in BOOLEAN /\ db' \in Status \cup {NoJob} /\ cache' \in Status \cup {NoJob}
  BY <1>1 DEF StoreInv
<1> QED  BY <1>3, <1>5, <1>6, <1>8, <1>9, <1>10 DEF StoreInv, Moves

(* A request goes on, or stops, without the store.                         *)
LEMMA PlainOK ==
    ASSUME StoreInv, NEW a \in Actors, Head(pc[a]) \in Label, NEW l \in Label,
           Goto(a, <<l>>), got' \in {got, Drop(got, a)},
           UNCHANGED <<db, index, cache, own, serial, loaded, panicked>>
    PROVE  StoreInv' /\ Moves(a, <<l>>)
<1>1. Tail(pc[a]) = << >> /\ pc \in [Actors -> Stack]
  <2>1. PICK x : pc[a] = <<x>>
    BY Forms DEF StoreInv
  <2>2. Tail(<<x>>) = << >>
    OBVIOUS
  <2> QED  BY <2>1, <2>2 DEF StoreInv
<1>2. pc' = [pc EXCEPT ![a] = <<l>>] /\ pc' \in [Actors -> Stack] /\ <<l>> \in Stack
  <2>1. <<l>> \o << >> = <<l>>
    OBVIOUS
  <2>2. pc' = [pc EXCEPT ![a] = <<l>>]
    BY <1>1, <2>1 DEF Goto
  <2> QED  BY <1>1, <2>2 DEF Stack
<1>3. pc'[a] = <<l>> /\ Head(<<l>>) = l /\ ~Writing(<<l>>) /\ l \notin Inside
  BY <1>1, <1>2, Writers1 DEF Label, Inside
<1>4. /\ \A b \in Actors \ {a} : pc'[b] = pc[b] /\ got'[b] = got[b]
      /\ got' \in [Actors -> Status \cup {NoJob}]
  BY <1>1, <1>2 DEF StoreInv, Drop
<1>5. WritesTruth'
  <2>1. \A b \in Actors : /\ Writing(pc'[b]) => own[b] # NoJob
                          /\ own[b] = "Completed" => AllLoaded
    BY <1>3, <1>4 DEF StoreInv, WritesTruth
  <2>2. (db = "Completed" => AllLoaded) /\ (AllLoaded' <=> AllLoaded)
    BY DEF StoreInv, WritesTruth, AllLoaded
  <2> QED  BY <2>1, <2>2 DEF WritesTruth
<1>6. ASSUME serial PROVE Exact'
  <2>1. Exact
    BY <1>6 DEF StoreInv
  <2>2. \A b \in Actors : Head(pc'[b]) \in Inside =>
          b # a /\ Head(pc[b]) = Head(pc'[b]) /\ got'[b] = got[b]
    BY <1>3, <1>4
  <2>3. \A b, c \in Actors : Head(pc'[b]) \in Inside /\ Head(pc'[c]) \in Inside => b = c
    BY <2>1, <2>2 DEF Exact
  <2>4. \A b \in Actors : /\ Head(pc'[b]) \in {"fill", "write", "erase"} => got'[b] = db
                          /\ Head(pc'[b]) = "put" => own[b] = db
                          /\ Head(pc'[b]) = "evict" => db = NoJob
    BY <2>1, <2>2 DEF Exact, Inside
  <2>5. cache \in {db, NoJob} \/ \E b \in Actors : Head(pc'[b]) \in {"put", "evict"}
    <3>1. Head(pc[a]) \notin {"put", "evict"}
      BY DEF Label
    <3> QED  BY <1>4, <2>1, <3>1 DEF Exact
  <2> QED  BY <2>1, <2>3, <2>4, <2>5 DEF Exact
<1> QED  BY <1>2, <1>4, <1>5, <1>6 DEF StoreInv, Moves

(* The end of a store operation, or of the get before it: the top label is *)
(* taken off.                                                              *)
LEMMA Pops ==
    ASSUME StoreInv, NEW a \in Actors, Head(pc[a]) \in Inside, Goto(a, << >>)
    PROVE  \E s \in Stack :
             /\ Moves(a, s) /\ Bottom(s) = Bottom(pc[a])
             /\ Head(pc[a]) # "fill" => Head(s) \in Label /\ ~Writing(s)
             /\ Head(pc[a]) = "fill" => /\ Head(s) \in Label \cup {"write", "erase"}
                                        /\ Writing(s) => Writing(pc[a])
<1> DEFINE p == pc[a]
           m == Bottom(p)
<1>1. p \in Stack /\ m \in Label /\ pc' = [pc EXCEPT ![a] = << >> \o Tail(p)]
  BY Forms DEF StoreInv, Goto
<1>2. <<m>> \in Stack /\ Bottom(<<m>>) = m /\ Head(<<m>>) = m /\ ~Writing(<<m>>)
  <2>1. m \notin {"write", "put"}
    BY <1>1 DEF Label
  <2> QED  BY <1>1, <2>1, Writers1 DEF Stack, Bottom
<1> HIDE DEF m
<1>3. CASE \E x : p = <<x, m>>
  <2>1. << >> \o Tail(p) = <<m>>
    <3>1. PICK x : p = <<x, m>>
      BY <1>3
    <3>2. << >> \o Tail(<<x, m>>) = <<m>>
      OBVIOUS
    <3> QED  BY <3>1, <3>2
  <2>2. Moves(a, <<m>>)
    BY <1>1, <1>2, <2>1 DEF Moves
  <2> QED  BY <1>1, <1>2, <2>2 DEF m
<1>4. CASE \E i \in {"write", "erase"} : p = <<"fill", i, m>>
  <2>1. PICK i \in {"write", "erase"} : p = <<"fill", i, m>>
    BY <1>4
  <2>2. << >> \o Tail(p) = <<i, m>> /\ Head(p) = "fill"
    <3>1. << >> \o Tail(<<"fill", i, m>>) = <<i, m>> /\ Head(<<"fill", i, m>>) = "fill"
      OBVIOUS
    <3> QED  BY <2>1, <3>1
  <2>3. <<i, m>> \in Stack /\ Head(<<i, m>>) = i /\ Bottom(<<i, m>>) = m
    BY <1>1 DEF Stack, Inside, Bottom
  <2>4. Writing(<<i, m>>) => Writing(p)
    <3>1. Writing(<<i, m>>) => Writing(<<"fill", i, m>>)
      BY Writers2, Writers3
    <3> QED  BY <2>1, <3>1
  <2>5. Moves(a, <<i, m>>)
    BY <1>1, <2>2, <2>3 DEF Moves
  <2> QED  BY <1>1, <2>2, <2>3, <2>4, <2>5 DEF m
<1>5. \/ \E x : p = <<x, m>>
      \/ \E i \in {"write", "erase"} : p = <<"fill", i, m>>
  BY <1>1, Forms DEF m
<1> QED  BY <1>3, <1>4, <1>5

(* A step within a store operation: while no others overlap, the request   *)
(* is the only one whose reading could be out of date.                     *)
LEMMA InsideOK ==
    ASSUME StoreInv, NEW a \in Actors, Head(pc[a]) \in Inside, NEW s, Moves(a, s),
           NEW g \in Status \cup {NoJob}, got' = [got EXCEPT ![a] = g],
           NEW v \in Status \cup {NoJob}, own' = [own EXCEPT ![a] = v],
           db' \in Status \cup {NoJob}, cache' \in Status \cup {NoJob},
           Writing(s) => v # NoJob,
           v = "Completed" \/ db' = "Completed" => AllLoaded,
           UNCHANGED <<loaded, panicked>>,
           serial' \in BOOLEAN,
           serial' => /\ serial /\ index' = {db'} \ {NoJob}
                      /\ Head(s) \in {"fill", "write", "erase"} => g = db'
                      /\ Head(s) = "put" => v = db'
                      /\ Head(s) = "evict" => db' = NoJob
                      /\ cache' \in {db', NoJob} \/ Head(s) \in {"put", "evict"}
    PROVE  StoreInv'
<1>1. /\ pc' \in [Actors -> Stack] /\ pc'[a] = s /\ got'[a] = g /\ own'[a] = v
      /\ got' \in [Actors -> Status \cup {NoJob}] /\ own' \in [Actors -> Status \cup {NoJob}]
      /\ \A b \in Actors \ {a} : pc'[b] = pc[b] /\ got'[b] = got[b] /\ own'[b] = own[b]
  BY DEF StoreInv, Moves
<1>2. WritesTruth'
  <2>1. AllLoaded' <=> AllLoaded
    BY DEF AllLoaded
  <2>2. \A b \in Actors : /\ Writing(pc'[b]) => own'[b] # NoJob
                          /\ own'[b] = "Completed" => AllLoaded
    BY <1>1 DEF StoreInv, WritesTruth
  <2> QED  BY <2>1, <2>2 DEF WritesTruth
<1>3. ASSUME serial' PROVE Exact'
  <2>1. \A b \in Actors : Head(pc[b]) \in Inside => b = a
    BY <1>3 DEF StoreInv, Exact
  <2>2. \A b \in Actors : Head(pc'[b]) \in Inside => b = a
    BY <1>1, <2>1
  <2>3. \A b \in Actors : /\ Head(pc'[b]) \in {"fill", "write", "erase"} => got'[b] = db'
                          /\ Head(pc'[b]) = "put" => own'[b] = db'
                          /\ Head(pc'[b]) = "evict" => db' = NoJob
    BY <1>1, <1>3, <2>2 DEF Inside
  <2>4. cache' \in {db', NoJob} \/ \E b \in Actors : Head(pc'[b]) \in {"put", "evict"}
    BY <1>1, <1>3
  <2> QED  BY <1>3, <2>2, <2>3, <2>4 DEF Exact
<1> QED  BY <1>1, <1>2, <1>3 DEF StoreInv

LEMMA FillOK ==
    ASSUME StoreInv, NEW a \in Actors, Fill(a), UNCHANGED <<loaded, panicked>>
    PROVE  StoreInv' /\ \E s : Moves(a, s) /\ Bottom(s) = Bottom(pc[a])
<1>1. /\ Head(pc[a]) = "fill" /\ cache' = got[a] /\ Goto(a, << >>)
      /\ UNCHANGED <<db, index, got, own, serial>>
  BY DEF Fill, At
<1>2. PICK s \in Stack : /\ Moves(a, s) /\ Bottom(s) = Bottom(pc[a])
                         /\ Head(s) \in Label \cup {"write", "erase"}
                         /\ Writing(s) => Writing(pc[a])
  BY <1>1, Pops DEF Inside
<1>3. /\ got[a] \in Status \cup {NoJob} /\ own[a] \in Status \cup {NoJob}
      /\ got' = [got EXCEPT ![a] = got[a]] /\ own' = [own EXCEPT ![a] = own[a]]
      /\ db' \in Status \cup {NoJob} /\ serial' \in BOOLEAN
  BY <1>1 DEF StoreInv
<1>4. /\ Writing(s) => own[a] # NoJob
      /\ own[a] = "Completed" \/ db' = "Completed" => AllLoaded
  BY <1>1, <1>2 DEF StoreInv, WritesTruth
<1>5. serial' => serial /\ index' = {db'} \ {NoJob} /\ got[a] = db'
  BY <1>1 DEF StoreInv, Exact
<1>6. Head(s) \notin {"fill", "put", "evict"} /\ "fill" \in Inside
  BY <1>2 DEF Label, Inside
<1>7. StoreInv'
  BY <1>1, <1>2, <1>3, <1>4, <1>5, <1>6, InsideOK
<1> QED  BY <1>2, <1>7

LEMMA UpdateWriteOK ==
    ASSUME StoreInv, NEW a \in Actors, UpdateWrite(a), UNCHANGED <<loaded, panicked>>
    PROVE  StoreInv' /\ \E s : Moves(a, s) /\ Bottom(s) = Bottom(pc[a])
<1> DEFINE m == Bottom(pc[a])
           s == <<"put", m>>
<1>1. /\ Head(pc[a]) = "write" /\ db' = own[a] /\ index' = Reindex(got[a], own[a])
      /\ serial' = (serial /\ db # NoJob) /\ Goto(a, <<"put">>)
      /\ got' = [got EXCEPT ![a] = NoJob] /\ UNCHANGED <<cache, own>>
  BY DEF UpdateWrite, At, Drop
<1>2. pc[a] = <<"write", m>> /\ m \in Label
  BY <1>1, Forms DEF StoreInv, Inside
<1> HIDE DEF m
<1>3. /\ Moves(a, s) /\ Bottom(s) = m /\ Head(s) = "put"
  <2>1. Tail(<<"write", m>>) = <<m>>
    OBVIOUS
  <2>2. <<"put">> \o <<m>> = s
    BY Push1
  <2>3. s \in Stack /\ Bottom(s) = m /\ Head(s) = "put"
    BY <1>2 DEF Stack, Inside, Bottom
  <2>4. pc' = [pc EXCEPT ![a] = s]
    BY <1>1, <1>2, <2>1, <2>2 DEF Goto
  <2> QED  BY <2>3, <2>4 DEF Moves
<1>4. own[a] \in Status /\ (own[a] = "Completed" => AllLoaded)
  <2>1. Writing(pc[a])
    BY <1>2, Writers2
  <2> QED  BY <2>1 DEF StoreInv, WritesTruth
<1> HIDE DEF s
<1>5. /\ own' = [own EXCEPT ![a] = own[a]] /\ serial' \in BOOLEAN
      /\ db' \in Status \cup {NoJob} /\ cache' \in Status \cup {NoJob}
  BY <1>1, <1>4 DEF StoreInv
<1>6. serial' => serial /\ index' = {db'} \ {NoJob}
  <2>1. "none" \notin Status
    BY DEF Status, Terminal
  <2>2. serial' => serial /\ db # NoJob /\ got[a] = db /\ index = {db} \ {NoJob}
    BY <1>1 DEF StoreInv, Exact
  <2> QED  BY <1>1, <1>4, <2>1, <2>2 DEF Reindex, NoJob
<1>7. own[a] # NoJob /\ "write" \in Inside
  BY <1>4 DEF Status, Terminal, NoJob, Inside
<1>8. StoreInv'
  BY <1>1, <1>3, <1>4, <1>5, <1>6, <1>7, InsideOK
<1> QED  BY <1>3, <1>8 DEF m

LEMMA UpdatePutOK ==
    ASSUME StoreInv, NEW a \in Actors, UpdatePut(a), UNCHANGED <<loaded, panicked>>
    PROVE  StoreInv' /\ \E s : Moves(a, s) /\ Bottom(s) = Bottom(pc[a])
<1>1. /\ Head(pc[a]) = "put" /\ cache' = own[a] /\ Goto(a, << >>)
      /\ own' = [own EXCEPT ![a] = NoJob] /\ UNCHANGED <<db, index, got, serial>>
  BY DEF UpdatePut, At, Drop
<1>2. PICK s \in Stack : /\ Moves(a, s) /\ Bottom(s) = Bottom(pc[a])
                         /\ Head(s) \in Label /\ ~Writing(s)
  BY <1>1, Pops DEF Inside
<1>3. /\ got[a] \in Status \cup {NoJob} /\ got' = [got EXCEPT ![a] = got[a]]
      /\ db' \in Status \cup {NoJob} /\ cache' \in Status \cup {NoJob}
      /\ serial' \in BOOLEAN /\ (db' = "Completed" => AllLoaded)
  BY <1>1 DEF StoreInv, WritesTruth
<1>4. serial' => serial /\ index' = {db'} \ {NoJob} /\ cache' = db'
  BY <1>1 DEF StoreInv, Exact
<1>5. Head(s) \notin {"fill", "write", "erase", "put", "evict"} /\ "put" \in Inside
  BY <1>2 DEF Label, Inside
<1>6. StoreInv'
  BY <1>1, <1>2, <1>3, <1>4, <1>5, InsideOK DEF NoJob
<1> QED  BY <1>2, <1>6

LEMMA DeleteWriteOK ==
    ASSUME StoreInv, NEW a \in Actors, DeleteWrite(a), UNCHANGED <<loaded, panicked>>
    PROVE  StoreInv' /\ \E s : Moves(a, s) /\ Bottom(s) = Bottom(pc[a])
<1>1. /\ Head(pc[a]) = "erase" /\ "erase" \in Inside
      /\ got' = [got EXCEPT ![a] = NoJob] /\ UNCHANGED <<cache, own, serial>>
  BY DEF DeleteWrite, At, Drop, Inside
<1>2. /\ own[a] \in Status \cup {NoJob} /\ own' = [own EXCEPT ![a] = own[a]]
      /\ db \in Status \cup {NoJob} /\ cache' \in Status \cup {NoJob}
      /\ serial' \in BOOLEAN /\ (db = "Completed" \/ own[a] = "Completed" => AllLoaded)
  BY <1>1 DEF StoreInv, WritesTruth
<1>3. CASE got[a] = NoJob
  <2>1. Goto(a, << >>) /\ UNCHANGED <<db, index>>
    BY <1>3 DEF DeleteWrite
  <2>2. PICK s \in Stack : /\ Moves(a, s) /\ Bottom(s) = Bottom(pc[a])
                           /\ Head(s) \in Label /\ ~Writing(s)
    BY <1>1, <2>1, Pops
  <2>3. Head(s) \notin {"fill", "write", "erase", "put", "evict"}
    BY <2>2 DEF Label
  <2>4. serial' => serial /\ index' = {db'} \ {NoJob} /\ cache' \in {db', NoJob}
    BY <1>1, <2>1 DEF StoreInv, Exact, Inside
  <2>5. StoreInv'
    BY <1>1, <1>2, <2>1, <2>2, <2>3, <2>4, InsideOK
  <2> QED  BY <2>2, <2>5
<1>4. CASE got[a] # NoJob
  <2> DEFINE m == Bottom(pc[a])
             s == <<"evict", m>>
  <2>1. db' = NoJob /\ index' = index \ {got[a]} /\ Goto(a, <<"evict">>)
    BY <1>4 DEF DeleteWrite
  <2>2. pc[a] = <<"erase", m>> /\ m \in Label
    BY <1>1, Forms DEF StoreInv, Inside
  <2> HIDE DEF m
  <2>3. /\ Moves(a, s) /\ Bottom(s) = m /\ Head(s) = "evict" /\ ~Writing(s)
    <3>1. Tail(<<"erase", m>>) = <<m>>
      OBVIOUS
    <3>2. <<"evict">> \o <<m>> = s
      BY Push1
    <3>3. s \in Stack /\ Bottom(s) = m /\ Head(s) = "evict"
      BY <2>2 DEF Stack, Inside, Bottom
    <3>4. pc' = [pc EXCEPT ![a] = s]
      BY <2>1, <2>2, <3>1, <3>2 DEF Goto
    <3>5. ~Writing(s)
      BY <2>2, Writers2 DEF Label
    <3> QED  BY <3>3, <3>4, <3>5 DEF Moves
  <2> HIDE DEF s
  <2>4. serial' => serial /\ index' = {db'} \ {NoJob}
    BY <1>1, <2>1 DEF StoreInv, Exact
  <2>5. StoreInv'
    BY <1>1, <1>2, <2>1, <2>3, <2>4, InsideOK DEF NoJob
  <2> QED  BY <2>3, <2>5 DEF m
<1> QED  BY <1>3, <1>4

LEMMA DeleteEvictOK ==
    ASSUME StoreInv, NEW a \in Actors, DeleteEvict(a), UNCHANGED <<loaded, panicked>>
    PROVE  StoreInv' /\ \E s : Moves(a, s) /\ Bottom(s) = Bottom(pc[a])
<1>1. /\ Head(pc[a]) = "evict" /\ cache' = NoJob /\ Goto(a, << >>)
      /\ UNCHANGED <<db, index, got, own, serial>>
  BY DEF DeleteEvict, At
<1>2. PICK s \in Stack : /\ Moves(a, s) /\ Bottom(s) = Bottom(pc[a])
                         /\ Head(s) \in Label /\ ~Writing(s)
  BY <1>1, Pops DEF Inside
<1>3. /\ got[a] \in Status \cup {NoJob} /\ got' = [got EXCEPT ![a] = got[a]]
      /\ own[a] \in Status \cup {NoJob} /\ own' = [own EXCEPT ![a] = own[a]]
      /\ db' \in Status \cup {NoJob} /\ cache' \in Status \cup {NoJob}
      /\ serial' \in BOOLEAN /\ (db' = "Completed" \/ own[a] = "Completed" => AllLoaded)
  BY <1>1 DEF StoreInv, WritesTruth
<1>4. serial' => serial /\ index' = {db'} \ {NoJob}
  BY <1>1 DEF StoreInv, Exact
<1>5. Head(s) \notin {"fill", "write", "erase", "put", "evict"} /\ "evict" \in Inside
  BY <1>2 DEF Label, Inside
<1>6. StoreInv'
  BY <1>1, <1>2, <1>3, <1>4, <1>5, InsideOK
<1> QED  BY <1>2, <1>6

-----------------------------------------------------------------------------
(* The executor.                                                           *)

LEMMA SameWaves ==
    ASSUME UNCHANGED job
    PROVE  /\ Waves' = Waves /\ (Circular' <=> Circular)
           /\ \A n : Wave(n)' = Wave(n)
BY DEF Waves, Circular, Wave

(* A step that spawns nothing and ends no task.                            *)
LEMMA MoveOK ==
    ASSUME TaskInv, NEW a \in Actors, pc \in [Actors -> Stack], NEW s, Moves(a, s),
           UNCHANGED <<job, execs, wave, task, loaded, panicked>>,
           \/ Bottom(s) \in {"done", "reload", Bottom(pc[a])}
           \/ Bottom(s) \in Early /\ Bottom(pc[a]) \in Early
           \/ /\ Bottom(s) = "next" /\ Bottom(pc[a]) = "wave"
              /\ a \in Calls => \A e \in Wave(wave[a]) : task[a][e] \in Ended
    PROVE  TaskInv'
<1>1. ASSUME NEW c \in Calls PROVE InOrder(c)'
  <2>1. InOrder(c) /\ c \in Actors
    BY DEF TaskInv, Actors
  <2>2. CASE c # a
    <3>1. pc'[c] = pc[c]
      BY <2>1, <2>2 DEF Moves
    <3> QED  BY <2>1, <3>1, SameWaves DEF InOrder
  <2>3. CASE c = a
    <3>1. pc'[c] = s
      BY <2>3 DEF Moves
    <3>2. /\ Bottom(s) \in Early => wave[c] = 0
          /\ Bottom(s) \in {"wave", "next"} => wave[c] # 0
      BY <2>1, <2>3 DEF InOrder, Early
    <3>3. Bottom(s) = "next" => \A e \in Waves[wave[c]] : task[c][e] \in Ended
      <4>1. CASE Bottom(pc[a]) = "next"
        BY <2>1, <2>3, <4>1 DEF InOrder
      <4>2. CASE Bottom(s) = "next" /\ Bottom(pc[a]) = "wave"
        <5>1. \A e \in Wave(wave[c]) : task[c][e] \in Ended
          BY <2>3, <4>2 DEF Early
        <5>2. \A e \in Waves[wave[c] - 1] : task[c][e] \in Ended
          BY <2>1, <2>3, <4>2 DEF InOrder
        <5> QED  BY <5>1, <5>2 DEF Wave, Waves
      <4> QED  BY <4>1, <4>2 DEF Early
    <3> QED  BY <2>1, <3>1, <3>2, <3>3, SameWaves DEF InOrder
  <2> QED  BY <2>2, <2>3
<1>2. OneRunner' /\ DependenciesFirst'
  BY DEF TaskInv, OneRunner, OneExecutorRuns, DependenciesFirst
<1> QED  BY <1>1, <1>2 DEF TaskInv

(* A new wave: all before it has ended.                                    *)
LEMMA SpawnOK ==
    ASSUME TaskInv, NEW c \in Calls, pc \in [Actors -> Stack], NEW s, Moves(c, s),
           Bottom(s) = "wave", NEW n, n = wave[c] + 1, n \in 1..Size, ~Circular,
           \A e \in Waves[wave[c]] : task[c][e] \in Ended,
           SpawnWave(c, n), UNCHANGED <<job, execs, loaded, panicked>>
    PROVE  TaskInv'
<1> DEFINE ts == [e \in Execs |-> IF e \in Wave(n) THEN "waiting" ELSE task[c][e]]
<1>1. /\ wave' = [wave EXCEPT ![c] = n] /\ task' = [task EXCEPT ![c] = ts]
  BY DEF SpawnWave
<1>2. ts \in [Execs -> TaskState]
  BY DEF TaskInv, TaskState
<1>3. /\ wave' \in [Calls -> 0..Cardinality(Execs)] /\ wave'[c] = n
      /\ task' \in [Calls -> [Execs -> TaskState]] /\ task'[c] = ts
      /\ \A d \in Calls \ {c} : wave'[d] = wave[d] /\ task'[d] = task[d]
  BY <1>1, <1>2, SizeType DEF TaskInv, Size
<1>4. /\ n \in Nat /\ n - 1 = wave[c] /\ n # 0
      /\ Waves[n] = NextIn(job.deps, Waves[wave[c]]) /\ Wave(n) = Waves[n] \ Waves[wave[c]]
  <2>1. wave[c] \in Nat
    BY DEF TaskInv
  <2>2. n \in Nat /\ n - 1 = wave[c] /\ n # 0
    BY <2>1, SizeType
  <2> QED  BY <2>2, WavesUnfold DEF Waves, Wave
<1>5. \A e \in Waves[wave[c]] : task'[c][e] \in Ended
  <2>1. Waves[wave[c]] \subseteq Execs
    BY WavesInExecs DEF TaskInv, Waves, Size
  <2> QED  BY <1>3, <1>4, <2>1
<1>6. ASSUME NEW d \in Calls PROVE InOrder(d)'
  <2>1. InOrder(d) /\ d \in Actors
    BY DEF TaskInv, Actors
  <2>2. CASE d # c
    <3>1. pc'[d] = pc[d]
      BY <2>1, <2>2 DEF Moves
    <3> QED  BY <1>3, <2>1, <2>2, <3>1, SameWaves DEF InOrder
  <2>3. CASE d = c
    <3>1. pc'[c] = s /\ "wave" \notin Early
      BY <2>1, <2>3 DEF Moves, Early
    <3>2. \A e \in Execs : /\ task'[c][e] # "none" => e \in Waves[n]
                           /\ task'[c][e] = "ok" => e \in loaded
                           /\ task'[c][e] = "panicked" => e \in panicked
      BY <1>3, <1>4, <2>1, <2>3 DEF InOrder, NextIn
    <3> QED  BY <1>3, <1>4, <1>5, <2>3, <3>1, <3>2, SameWaves DEF InOrder
  <2> QED  BY <2>2, <2>3
<1>7. DependenciesFirst'
  <2> SUFFICES ASSUME NEW d \in Calls, NEW e \in Execs, task'[d][e] # "none",
                      NEW x \in job.deps[e]
               PROVE  task'[d][x] \in Ended
    BY DEF DependenciesFirst
  <2>1. CASE d # c
    BY <1>3, <2>1 DEF TaskInv, DependenciesFirst
  <2>2. CASE d = c /\ e \in Wave(n)
    BY <1>4, <1>5, <2>2 DEF NextIn, DependenciesSatisfied
  <2>3. CASE d = c /\ e \notin Wave(n)
    <3>1. task[c][e] # "none"
      BY <1>3, <2>3
    <3>2. e \in Waves[wave[c]]
      BY <3>1 DEF TaskInv, InOrder
    <3>3. task[c][x] \in Ended
      BY <3>1 DEF TaskInv, DependenciesFirst
    <3>4. x \in Execs
      BY JobsAssumption DEF TaskInv
    <3>5. x \in Waves[wave[c]]
      BY <3>3, <3>4 DEF TaskInv, InOrder, Ended
    <3> QED  BY <1>5, <2>3, <3>5
  <2> QED  BY <2>1, <2>2, <2>3
<1>8. OneRunner'
  <2>1. \A d \in Calls, e \in Execs : task'[d][e] \in InHand => task[d][e] \in InHand
    BY <1>3 DEF InHand
  <2> QED  BY <2>1 DEF TaskInv, OneRunner, OneExecutorRuns
<1> QED  BY <1>3, <1>6, <1>7, <1>8 DEF TaskInv

(* A task attempts, acts or ends.                                          *)
LEMMA TaskOK ==
    ASSUME IInv, NEW c \in Calls, NEW e \in Execs, TaskStep(c, e)
    PROVE  IInv'
<1>1. UNCHANGED <<job, db, index, cache, serial, pc, got, own, wave>>
  BY DEF TaskStep, store, requests, bounds
<1>2. PICK t \in {"acting", "backoff"} \cup Ended :
        /\ task' = [task EXCEPT ![c][e] = t]
        /\ task[c][e] \notin {"none"} \cup Ended
        /\ loaded \subseteq loaded' /\ panicked \subseteq panicked'
        /\ t = "ok" => e \in loaded'
        /\ t = "panicked" => e \in panicked'
  BY DEF TaskStep, Attempt, Save, ActionsSucceed, ActionsFail, Panic, AfterFailure, SetTask,
         Ended
<1>3. /\ task \in [Calls -> [Execs -> TaskState]] /\ task' \in [Calls -> [Execs -> TaskState]]
      /\ task'[c][e] = t
      /\ \A d \in Calls, x \in Execs : d # c \/ x # e => task'[d][x] = task[d][x]
  BY <1>2 DEF IInv, TaskInv, TaskState
<1>4. execs' \in [Execs -> {"none", "Pending", "Completed"}] /\ OneRunner'
  <2>0. /\ execs \in [Execs -> {"none", "Pending", "Completed"}]
        /\ OneExecutorRuns
        /\ \A d \in Calls, x \in Execs : task[d][x] \in InHand => execs[x] # "none"
    BY DEF IInv, TaskInv, OneRunner
  <2>1. CASE execs[e] = "none" /\ execs' = [execs EXCEPT ![e] = "Pending"]
    <3>1. \A d \in Calls : task[d][e] \notin InHand
      BY <2>0, <2>1
    <3>2. \A d \in Calls, x \in Execs : task'[d][x] \in InHand =>
             (d = c /\ x = e) \/ (task[d][x] \in InHand /\ x # e)
      BY <1>3, <3>1
    <3>3. OneExecutorRuns'
      BY <2>0, <3>2 DEF OneExecutorRuns
    <3>4. \A d \in Calls, x \in Execs : task'[d][x] \in InHand => execs'[x] # "none"
      BY <2>0, <2>1, <3>2
    <3>5. execs' \in [Execs -> {"none", "Pending", "Completed"}]
      BY <2>0, <2>1
    <3> QED  BY <3>3, <3>4, <3>5 DEF OneRunner
  <2>2. CASE /\ execs' = execs \/ execs' = [execs EXCEPT ![e] = "Completed"]
             /\ t \in InHand => task[c][e] \in InHand
    <3>1. \A d \in Calls, x \in Execs : task'[d][x] \in InHand => task[d][x] \in InHand
      BY <1>3, <2>2
    <3>2. /\ execs' \in [Execs -> {"none", "Pending", "Completed"}]
          /\ \A x \in Execs : execs'[x] = "none" => execs[x] = "none"
      BY <2>0, <2>2
    <3> QED  BY <2>0, <3>1, <3>2 DEF OneRunner, OneExecutorRuns
  <2>3. t \in {"err", "backoff"} => t \notin InHand
    BY DEF InHand
  <2>4. CASE Attempt(c, e)
    <3>1. CASE execs[e] = "none"
      BY <2>1, <2>4, <3>1 DEF Attempt, Save
    <3>2. CASE execs[e] # "none"
      <4>1. SetTask(c, e, AfterFailure(attempt[c][e] + 1)) /\ execs' = execs
        BY <2>4, <3>2 DEF Attempt, Save
      <4>2. AfterFailure(attempt[c][e] + 1) \in {"err", "backoff"}
        BY DEF AfterFailure
      <4>3. t \in {"err", "backoff"}
        BY <1>3, <4>1, <4>2 DEF SetTask
      <4> QED  BY <2>2, <2>3, <4>1, <4>3
    <3> QED  BY <3>1, <3>2
  <2>5. CASE ActionsSucceed(c, e) \/ ActionsFail(c, e) \/ Panic(c, e)
    <3>1. task[c][e] \in InHand
      BY <2>5 DEF ActionsSucceed, ActionsFail, Panic, InHand
    <3> QED  BY <2>2, <2>5, <3>1 DEF ActionsSucceed, ActionsFail, Panic
  <2> QED  BY <2>4, <2>5 DEF TaskStep
<1>5. \A d \in Calls, x \in Execs : task[d][x] \in Ended => task'[d][x] = task[d][x]
  BY <1>2, <1>3
<1>6. \A d \in Calls, x \in Execs : task'[d][x] # "none" => task[d][x] # "none"
  BY <1>2, <1>3
<1>7. ASSUME NEW d \in Calls PROVE InOrder(d)'
  <2>1. InOrder(d) /\ wave[d] \in 0..Size
    BY DEF IInv, TaskInv, Size
  <2>2. wave[d] # 0 => Waves[wave[d] - 1] \subseteq Execs
    BY <2>1, SizeType, WavesInExecs DEF Waves
  <2>3. Waves[wave[d]] \subseteq Execs
    BY <2>1, WavesInExecs DEF Waves
  <2>4. /\ Bottom(pc[d]) = "next" => \A x \in Waves[wave[d]] : task'[d][x] \in Ended
        /\ wave[d] # 0 => \A x \in Waves[wave[d] - 1] : task'[d][x] \in Ended
    BY <1>5, <2>1, <2>2, <2>3 DEF InOrder
  <2>5. \A x \in Execs : /\ task'[d][x] # "none" => x \in Waves[wave[d]]
                         /\ task'[d][x] = "ok" => x \in loaded'
                         /\ task'[d][x] = "panicked" => x \in panicked'
    BY <1>2, <1>3, <1>6, <2>1 DEF InOrder
  <2> QED  BY <1>1, <2>1, <2>4, <2>5, SameWaves DEF InOrder
<1>8. DependenciesFirst'
  <2>1. \A d \in Calls, x \in Execs : task'[d][x] # "none" =>
          \A y \in job.deps[x] : y \in Execs /\ task[d][y] \in Ended
    BY <1>6, JobsAssumption DEF IInv, TaskInv, DependenciesFirst
  <2> QED  BY <1>1, <1>5, <2>1 DEF DependenciesFirst
<1>9. TaskInv'
  BY <1>1, <1>3, <1>4, <1>7, <1>8 DEF IInv, TaskInv
<1>10. StoreInv'
  <2>1. AllLoaded => AllLoaded'
    BY <1>2 DEF AllLoaded
  <2>2. WritesTruth'
    BY <1>1, <2>1 DEF IInv, StoreInv, WritesTruth
  <2>3. serial => Exact'
    BY <1>1 DEF IInv, StoreInv, Exact
  <2> QED  BY <1>1, <2>2, <2>3 DEF IInv, StoreInv
<1> QED  BY <1>9, <1>10 DEF IInv

-----------------------------------------------------------------------------
(* The steps of the requests.                                              *)

LEMMA Labels ==
    ASSUME IInv, NEW a \in Actors, NEW l \in Label, At(a, l)
    PROVE  Head(pc[a]) \in Label /\ Bottom(pc[a]) = l
<1>1. Head(pc[a]) = l /\ pc[a] \in Stack
  BY DEF At, IInv, StoreInv
<1>2. pc[a] = <<l>>
  BY <1>1, Forms
<1> QED  BY <1>1, <1>2 DEF Bottom

(* The moves that MoveOK allows to a request that is not collecting a wave. *)
LEMMA StoreMoveOK ==
    ASSUME IInv, NEW a \in Actors, UNCHANGED <<tasks, wave, bounds>>, StoreInv',
           NEW l, \E s : Moves(a, s) /\ Bottom(s) = l,
           \/ l \in {"done", "reload", Bottom(pc[a])}
           \/ l \in Early /\ Bottom(pc[a]) \in Early
    PROVE  IInv'
<1>1. PICK s : Moves(a, s) /\ Bottom(s) = l
  OBVIOUS
<1>2. UNCHANGED <<job, execs, wave, task, loaded, panicked>>
  BY DEF tasks, bounds
<1>3. TaskInv /\ pc \in [Actors -> Stack]
  BY DEF IInv, StoreInv
<1> QED  BY <1>1, <1>2, <1>3, MoveOK DEF IInv

LEMMA StoreStepOK ==
    ASSUME IInv, NEW a \in Actors, StoreStep(a)
    PROVE  IInv'
<1>1. UNCHANGED <<tasks, wave, bounds>> /\ UNCHANGED <<loaded, panicked>> /\ StoreInv
  BY DEF StoreStep, tasks, IInv
<1>2. StoreInv' /\ \E s : Moves(a, s) /\ Bottom(s) = Bottom(pc[a])
  BY <1>1, FillOK, UpdateWriteOK, UpdatePutOK, DeleteWriteOK, DeleteEvictOK DEF StoreStep
<1> QED  BY <1>1, <1>2, StoreMoveOK

LEMMA GetMoveOK ==
    ASSUME IInv, NEW a \in Actors, NEW l \in Label, At(a, l), NEW m \in Label,
           UNCHANGED <<tasks, wave, bounds>>,
           NEW next \in {<<m>>, <<"erase", m>>}, Get(a, next), UNCHANGED own,
           m \in {"done", "reload"} \/ (m \in Early /\ l \in Early)
    PROVE  IInv'
<1>1. Head(pc[a]) \in Label /\ Bottom(pc[a]) = l
  BY Labels
<1>2. /\ StoreInv /\ own' = [own EXCEPT ![a] = own[a]] /\ UNCHANGED <<loaded, panicked>>
      /\ own[a] = "Completed" => AllLoaded
  BY DEF IInv, StoreInv, WritesTruth, tasks
<1>3. next # <<"write", m>>
  BY DEF Label
<1>4. StoreInv' /\ \E s : Moves(a, s) /\ Bottom(s) = m
  BY <1>1, <1>2, <1>3, GetOK
<1> QED  BY <1>1, <1>4, StoreMoveOK

LEMMA StopOK ==
    ASSUME IInv, NEW a \in Actors, NEW l \in Label, At(a, l), Stop(a),
           UNCHANGED <<tasks, wave, bounds>>
    PROVE  IInv'
<1>1. Head(pc[a]) \in Label /\ "done" \in Label
  BY Labels DEF Label
<1>2. /\ StoreInv /\ Goto(a, <<"done">>) /\ got' \in {got, Drop(got, a)}
      /\ UNCHANGED <<db, index, cache, own, serial, loaded, panicked>>
  BY DEF IInv, Stop, store, tasks
<1>3. StoreInv' /\ Moves(a, <<"done">>)
  BY <1>1, <1>2, PlainOK
<1>4. Bottom(<<"done">>) = "done"
  BY DEF Bottom
<1> QED  BY <1>3, <1>4, StoreMoveOK

LEMMA UpdateMoveOK ==
    ASSUME IInv, NEW a \in Actors, NEW l \in Label, At(a, l), NEW m \in Label,
           UNCHANGED <<tasks, wave, bounds>>, NEW v \in Status, UpdateGet(a, v, m),
           v = "Completed" => AllLoaded,
           \/ m \in {"done", "reload"} \/ (m \in Early /\ l \in Early)
           \/ /\ m = "next" /\ l = "wave"
              /\ a \in Calls => \A e \in Wave(wave[a]) : task[a][e] \in Ended
    PROVE  IInv'
<1>1. Head(pc[a]) \in Label /\ Bottom(pc[a]) = l
  BY Labels
<1>2. /\ StoreInv /\ own' = [own EXCEPT ![a] = v] /\ UNCHANGED <<loaded, panicked>>
      /\ Get(a, <<"write", m>>)
  BY DEF IInv, tasks, UpdateGet
<1>3. StoreInv' /\ \E s : Moves(a, s) /\ Bottom(s) = m
  BY <1>1, <1>2, GetOK
<1>4. PICK s : Moves(a, s) /\ Bottom(s) = m
  BY <1>3
<1>5. UNCHANGED <<job, execs, wave, task, loaded, panicked>>
  BY DEF tasks, bounds
<1>6. TaskInv /\ pc \in [Actors -> Stack]
  BY DEF IInv, StoreInv
<1>7. TaskInv'
  BY <1>1, <1>4, <1>5, <1>6, MoveOK
<1> QED  BY <1>3, <1>7 DEF IInv

LEMMA HandlerOK ==
    ASSUME IInv, NEW a \in Actors,
           \/ Request(a) \/ ExecuteBatchJob(a) \/ CancelBatchJob(a) \/ Reload(a)
           \/ DeleteBatchJob(a) \/ Refuse(a) \/ Start(a)
    PROVE  IInv'
<1>0. /\ {"idle", "check", "start", "resolve", "reload", "done"} \subseteq Label
      /\ {"idle", "check", "start", "resolve"} = Early
      /\ {"Running", "Cancelled"} \subseteq Status
  BY DEF Label, Early, Status, Terminal
<1>1. CASE Request(a)
  BY <1>0, <1>1, GetMoveOK DEF Request
<1>2. CASE ExecuteBatchJob(a)
  BY <1>0, <1>2, GetMoveOK, StopOK DEF ExecuteBatchJob
<1>3. CASE CancelBatchJob(a)
  BY <1>0, <1>3, UpdateMoveOK, StopOK DEF CancelBatchJob
<1>4. CASE Reload(a)
  BY <1>0, <1>4, GetMoveOK, StopOK DEF Reload
<1>5. CASE DeleteBatchJob(a)
  BY <1>0, <1>5, GetMoveOK, StopOK DEF DeleteBatchJob, DeleteGet
<1>6. CASE Refuse(a)
  BY <1>0, <1>6, StopOK DEF Refuse
<1>7. CASE Start(a)
  BY <1>0, <1>7, UpdateMoveOK DEF Start
<1> QED  BY <1>1, <1>2, <1>3, <1>4, <1>5, <1>6, <1>7

(* The executor goes on to a wave.                                         *)
LEMMA GoOnOK ==
    ASSUME IInv, NEW c \in Calls, NEW l \in Label, At(c, l), Goto(c, <<"wave">>),
           ~Circular, ~LastWave(wave[c]), NEW n, n = wave[c] + 1, SpawnWave(c, n),
           \A e \in Waves[wave[c]] : task[c][e] \in Ended,
           UNCHANGED <<got, own, store, serial, execs, attempt, loaded, panicked, bounds>>
    PROVE  IInv'
<1>1. c \in Actors /\ Head(pc[c]) \in Label /\ "wave" \in Label
  BY Labels DEF Actors, Label
<1>2. /\ StoreInv /\ TaskInv /\ got' \in {got, Drop(got, c)} /\ pc \in [Actors -> Stack]
      /\ UNCHANGED <<job, db, index, cache, own, serial, loaded, panicked, execs>>
  BY DEF IInv, StoreInv, store, bounds
<1>3. StoreInv' /\ Moves(c, <<"wave">>)
  BY <1>1, <1>2, PlainOK
<1>4. Bottom(<<"wave">>) = "wave"
  BY DEF Bottom
<1>5. n \in 1..Size
  <2>1. wave[c] \in 0..Size /\ wave[c] # Size
    BY <1>2 DEF TaskInv, Size, Circular, LastWave
  <2> QED  BY <2>1, SizeType
<1>6. TaskInv'
  BY <1>2, <1>3, <1>4, <1>5, SpawnOK
<1> QED  BY <1>3, <1>6 DEF IInv

LEMMA ResolveOK ==
    ASSUME IInv, NEW c \in Calls, ResolveDependencies(c)
    PROVE  IInv'
<1>0. c \in Actors /\ "resolve" \in Label /\ At(c, "resolve")
  BY DEF Actors, Label, ResolveDependencies
<1>1. CASE Circular
  <2>1. Stop(c) /\ UNCHANGED <<tasks, wave, bounds>>
    BY <1>1 DEF ResolveDependencies, tasks
  <2> QED  BY <1>0, <2>1, StopOK
<1>2. CASE ~Circular
  <2>1. /\ Goto(c, <<"wave">>) /\ SpawnWave(c, 1)
        /\ UNCHANGED <<got, own, store, serial, execs, attempt, loaded, panicked, bounds>>
    BY <1>2 DEF ResolveDependencies
  <2>2. wave[c] = 0
    <3>1. Bottom(pc[c]) = "resolve" /\ InOrder(c)
      BY <1>0, Labels DEF IInv, TaskInv
    <3> QED  BY <3>1 DEF InOrder, Early
  <2>3. Waves[wave[c]] = {} /\ ~LastWave(wave[c])
    BY <2>2, WavesUnfold, ExecsAssumption DEF Waves, LastWave
  <2> QED  BY <1>0, <1>2, <2>1, <2>2, <2>3, GoOnOK
<1> QED  BY <1>1, <1>2

LEMMA WaveEndsOK ==
    ASSUME IInv, NEW c \in Calls, WaveEnds(c)
    PROVE  IInv'
<1>1. /\ c \in Actors /\ "wave" \in Label /\ "next" \in Label /\ "done" \in Label
      /\ {"Failed", "Running"} \subseteq Status
  BY DEF Actors, Label, Status, Terminal
<1>2. /\ At(c, "wave") /\ \A e \in Wave(wave[c]) : task[c][e] \in Ended
      /\ UpdateGet(c, "Failed", "done") \/ UpdateGet(c, "Running", "next")
      /\ UNCHANGED <<tasks, wave, bounds>>
  BY DEF WaveEnds
<1> QED  BY <1>1, <1>2, UpdateMoveOK

LEMMA NextWaveOK ==
    ASSUME IInv, NEW c \in Calls, NextWave(c)
    PROVE  IInv'
<1>1. c \in Actors /\ "next" \in Label /\ "done" \in Label /\ At(c, "next") /\ InOrder(c)
  BY DEF Actors, Label, NextWave, IInv, TaskInv
<1>2. wave[c] # 0 /\ ~Circular /\ \A e \in Waves[wave[c]] : task[c][e] \in Ended
  <2>1. Bottom(pc[c]) = "next"
    BY <1>1, Labels
  <2> QED  BY <1>1, <2>1 DEF InOrder
<1>3. CASE LastWave(wave[c])
  <2>1. UpdateGet(c, FinalStatus(c), "done") /\ UNCHANGED <<tasks, wave, bounds>>
    BY <1>3 DEF NextWave, tasks
  <2>2. FinalStatus(c) \in Status
    BY DEF FinalStatus, Status, Terminal
  <2>3. FinalStatus(c) = "Completed" => AllLoaded
    <3>1. SUFFICES ASSUME TasksIn(c, "err") = {} PROVE AllLoaded
      BY DEF FinalStatus
    <3>2. \A e \in Execs : task[c][e] \in Ended /\ task[c][e] # "err"
      BY <1>2, <1>3, <3>1 DEF LastWave, Waves, TasksIn
    <3> QED  BY <1>1, <3>2 DEF InOrder, Ended, AllLoaded
  <2> QED  BY <1>1, <2>1, <2>2, <2>3, UpdateMoveOK
<1>4. CASE ~LastWave(wave[c])
  <2>1. /\ Goto(c, <<"wave">>) /\ SpawnWave(c, wave[c] + 1)
        /\ UNCHANGED <<got, own, store, serial, execs, attempt, loaded, panicked, bounds>>
    BY <1>4 DEF NextWave
  <2> QED  BY <1>1, <1>2, <1>4, <2>1, GoOnOK
<1> QED  BY <1>3, <1>4

(* The initial state, and what a crash leaves: nothing under way.          *)
Fresh ==
    /\ job \in Jobs /\ db \in Status \cup {NoJob} /\ cache \in {db, NoJob}
    /\ serial \in BOOLEAN /\ (serial => index = {db} \ {NoJob})
    /\ db = "Completed" => AllLoaded
    /\ execs = [e \in Execs |-> "none"]
    /\ pc \in [Actors -> {<<"idle">>, <<"done">>}]
    /\ got = [a \in Actors |-> NoJob] /\ own = [a \in Actors |-> NoJob]
    /\ wave = [c \in Calls |-> 0] /\ task = [c \in Calls |-> [e \in Execs |-> "none"]]

LEMMA FreshOK == Fresh => IInv
<1> SUFFICES ASSUME Fresh PROVE IInv
  OBVIOUS
<1> USE DEF Fresh
<1>1. /\ <<"idle">> \in Stack /\ <<"done">> \in Stack
      /\ Head(<<"idle">>) = "idle" /\ Head(<<"done">>) = "done"
      /\ Bottom(<<"idle">>) = "idle" /\ Bottom(<<"done">>) = "done"
  BY DEF Stack, Label, Bottom
<1>2. ~Writing(<<"idle">>) /\ ~Writing(<<"done">>)
  BY Writers1
<1>3. \A a \in Actors : /\ Head(pc[a]) \in {"idle", "done"} /\ Bottom(pc[a]) \in {"idle", "done"}
                        /\ ~Writing(pc[a])
  BY <1>1, <1>2
<1>4. pc \in [Actors -> Stack]
  BY <1>1
<1>5. WritesTruth
  BY <1>3 DEF WritesTruth, NoJob
<1>6. serial => Exact
  BY <1>3 DEF Exact, Inside
<1>7. StoreInv
  BY <1>4, <1>5, <1>6 DEF StoreInv
<1>8. ASSUME NEW c \in Calls PROVE InOrder(c)
  <2>1. Bottom(pc[c]) \in {"idle", "done"} /\ wave[c] = 0 /\ \A e \in Execs : task[c][e] = "none"
    BY <1>3 DEF Actors
  <2> QED  BY <2>1 DEF InOrder
<1>9. OneRunner /\ DependenciesFirst
  BY DEF OneRunner, OneExecutorRuns, InHand, DependenciesFirst
<1>10. /\ wave \in [Calls -> 0..Cardinality(Execs)] /\ task \in [Calls -> [Execs -> TaskState]]
       /\ execs \in [Execs -> {"none", "Pending", "Completed"}]
  BY SizeType DEF Size, TaskState
<1>11. TaskInv
  BY <1>8, <1>9, <1>10 DEF TaskInv
<1> QED  BY <1>7, <1>11 DEF IInv

LEMMA InitOK == Init => IInv
<1> SUFFICES ASSUME Init PROVE IInv
  OBVIOUS
<1>1. pc \in [Actors -> {<<"idle">>, <<"done">>}]
  BY DEF Init
<1>2. "Pending" \in Status /\ db = "Pending" /\ cache = db /\ index = {db} \ {NoJob}
  BY DEF Init, Status, NoJob
<1>3. Fresh
  BY <1>1, <1>2 DEF Init, Fresh
<1> QED  BY <1>3, FreshOK

LEMMA CrashOK ==
    ASSUME IInv, Crash
    PROVE  IInv'
<1>1. pc' \in [Actors -> {<<"idle">>, <<"done">>}]
  BY DEF Crash
<1>2. /\ job \in Jobs /\ db \in Status \cup {NoJob} /\ serial \in BOOLEAN
      /\ serial => index = {db} \ {NoJob}
      /\ db = "Completed" => AllLoaded
  BY DEF IInv, TaskInv, StoreInv, Exact, WritesTruth
<1>3. /\ job' \in Jobs /\ db' \in Status \cup {NoJob} /\ serial' \in BOOLEAN
      /\ serial' => index' = {db'} \ {NoJob}
      /\ db' = "Completed" => AllLoaded'
      /\ cache' \in {db', NoJob}
  BY <1>2 DEF Crash, AllLoaded
<1>4. Fresh'
  BY <1>1, <1>3 DEF Crash, Fresh
<1> QED  BY <1>4, FreshOK, PTL

LEMMA StepOK == IInv /\ [Next]_vars => IInv'
<1> SUFFICES ASSUME IInv, [Next]_vars PROVE IInv'
  OBVIOUS
<1>0. Calls \subseteq Actors /\ Cancellers \subseteq Actors /\ Deleters \subseteq Actors
  BY DEF Actors
<1>1. ASSUME NEW a \in Actors, Request(a) PROVE IInv'
  BY <1>1, HandlerOK
<1>2. ASSUME NEW c \in Calls, ExecutorStep(c) PROVE IInv'
  <2>1. CASE ExecuteBatchJob(c) \/ Refuse(c) \/ Start(c)
    BY <1>0, <2>1, HandlerOK
  <2>2. CASE ResolveDependencies(c)
    BY <2>2, ResolveOK
  <2>3. CASE WaveEnds(c)
    BY <2>3, WaveEndsOK
  <2>4. CASE NextWave(c)
    BY <2>4, NextWaveOK
  <2>5. CASE StoreStep(c)
    BY <1>0, <2>5, StoreStepOK
  <2>6. ASSUME NEW e \in Execs, TaskStep(c, e) PROVE IInv'
    BY <2>6, TaskOK
  <2> QED  BY <1>2, <2>1, <2>2, <2>3, <2>4, <2>5, <2>6 DEF ExecutorStep
<1>3. ASSUME NEW a \in Cancellers, CancelBatchJob(a) \/ Reload(a) \/ StoreStep(a) PROVE IInv'
  BY <1>0, <1>3, HandlerOK, StoreStepOK
<1>4. ASSUME NEW a \in Deleters, DeleteBatchJob(a) \/ StoreStep(a) PROVE IInv'
  BY <1>0, <1>4, HandlerOK, StoreStepOK
<1>5. CASE Crash
  BY <1>5, CrashOK
<1>6. CASE UNCHANGED vars
  <2>1. UNCHANGED <<job, db, index, cache, execs, pc, got, own, wave, task, loaded,
                    panicked, serial>>
    BY <1>6 DEF vars
  <2>2. TaskInv'
    BY <2>1, SameWaves DEF IInv, TaskInv, InOrder, OneRunner, OneExecutorRuns, DependenciesFirst
  <2>3. StoreInv'
    BY <2>1 DEF IInv, StoreInv, WritesTruth, Exact, AllLoaded
  <2> QED  BY <2>2, <2>3 DEF IInv
<1> QED  BY <1>1, <1>2, <1>3, <1>4, <1>5, <1>6 DEF Next

-----------------------------------------------------------------------------
(* The inductive invariant holds of every state.                           *)
THEOREM Inductive == Spec => []IInv
<1> QED  BY InitOK, StepOK, PTL DEF Spec

(* However many executors run the job at once, no two of them have the     *)
(* actions of one execution in hand, or have had them run to an end, in    *)
(* the life of a process (ExecutionStore::save refuses an id it knows).    *)
THEOREM OneRuns == Spec => []OneExecutorRuns
<1>1. IInv => OneExecutorRuns
  BY DEF IInv, TaskInv, OneRunner
<1> QED  BY <1>1, Inductive, PTL

(* For every graph of dependencies, an execution is spawned only when all  *)
(* it depends on has ended in the same executor (resolve_dependencies,     *)
(* execute_wave).                                                          *)
THEOREM DependenciesAwaited == Spec => []DependenciesFirst
<1>1. IInv => DependenciesFirst
  BY DEF IInv, TaskInv
<1> QED  BY <1>1, Inductive, PTL

(* A stored status Completed is true: all executions have been loaded, or  *)
(* their tasks have panicked, whatever other executors, cancellations,     *)
(* deletions and crashes came between.                                     *)
THEOREM CompletedIsTrue == Spec => []CompletedMeansLoaded
<1>1. IInv => CompletedMeansLoaded
  BY DEF IInv, StoreInv, WritesTruth, AllLoaded, CompletedMeansLoaded
<1> QED  BY <1>1, Inductive, PTL

(* Without overlapping store operations and writes to a deleted job, the   *)
(* index by status and the record agree, whatever the cache did (update    *)
(* and delete trust the status that get returned).                         *)
THEOREM IndexIsExact == Spec => []IndexExact
<1>1. IInv => IndexExact
  BY DEF IInv, StoreInv, Exact, IndexExact
<1> QED  BY <1>1, Inductive, PTL
=============================================================================
