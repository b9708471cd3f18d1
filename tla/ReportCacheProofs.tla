------------------------- MODULE ReportCacheProofs -------------------------
(***************************************************************************)
(* Proofs about ReportCache, for any number of readers, writers and writes *)
(* and whatever calls to the cache fail: what concurrent requests keep as  *)
(* long as no invalidation is lost, and what requests keep that do not     *)
(* overlap with a write.                                                   *)
(***************************************************************************)
EXTENDS ReportCache, TLAPS

(***************************************************************************)
(* Types.                                                                  *)
(***************************************************************************)

Value == [Tables -> Nat]

ReaderPCs == {"version", "init", "lookup", "build", "store", "served"}
WriterPCs == {"add", "incr", "reread", "rewrite", "bumped"}

Request ==
  [kind : {"none"} \cup Kinds \cup Tables, version : Nat, then : {"lookup", "store"},
   value : Value, since : Value]

\* What a request holds while it reads or writes.
KindsFit ==
  \A w \in Workers : /\ pc[w] \in ReaderPCs => req[w].kind \in Kinds
                     /\ pc[w] \in WriterPCs => req[w].kind \in Tables

SharedTypes ==
  /\ db \in Value
  /\ version \in Nat
  /\ lock \in Workers \cup {NoWorker}
  /\ \A k \in DOMAIN cache : k \in Kinds \X Nat /\ cache[k] \in Value
  /\ intact \in BOOLEAN /\ apart \in BOOLEAN

WorkerTypes ==
  pc \in [Workers -> {"idle"} \cup ReaderPCs \cup WriterPCs] /\ req \in [Workers -> Request]

Types == SharedTypes /\ WorkerTypes /\ KindsFit

Others(w) == \A v \in Workers \ {w} : pc'[v] = pc[v] /\ req'[v] = req[v]

\* The empty request and the fields a request may change.
LEMMA RequestTypes ==
  /\ Zero \in Value
  /\ NoRequest \in Request
  /\ \A k \in Kinds \cup Tables, s \in Value :
       /\ [NoRequest EXCEPT !.kind = k] \in Request
       /\ [NoRequest EXCEPT !.kind = k, !.since = s] \in Request
  /\ \A r \in Request, n \in Nat, x \in Value :
       /\ [r EXCEPT !.version = n] \in Request
       /\ [r EXCEPT !.value = x] \in Request
       /\ [r EXCEPT !.value = x, !.then = "store"] \in Request
<1>1. Zero \in Value
  BY DEF Zero, Value
<1>2. NoRequest \in Request
  BY <1>1 DEF NoRequest, Request
<1> HIDE DEF NoRequest
<1> QED BY <1>1, <1>2 DEF Request

\* A worker that takes a step goes on at a label, with a request.
LEMMA WorkerStep ==
  ASSUME WorkerTypes, NEW w \in Workers, NEW label, NEW r \in Request,
         label \in {"idle"} \cup ReaderPCs \cup WriterPCs,
         pc' = [pc EXCEPT ![w] = label], req' = [req EXCEPT ![w] = r]
  PROVE  WorkerTypes' /\ Others(w) /\ pc'[w] = label /\ req'[w] = r
BY DEF WorkerTypes, Others

\* A worker that goes on with the same request leaves the others where they are.
LEMMA StayStep ==
  ASSUME WorkerTypes, NEW w \in Workers, NEW label,
         label \in {"idle"} \cup ReaderPCs \cup WriterPCs,
         pc' = [pc EXCEPT ![w] = label], req' = req
  PROVE  WorkerTypes' /\ Others(w) /\ pc'[w] = label /\ req'[w] = req[w]
BY DEF WorkerTypes, Others

(***************************************************************************)
(* What each step does to the worker that takes it.                        *)
(***************************************************************************)

\* The reader's steps: its answer, the version in its key, and where it goes on.
ReadEffect(w) ==
  LET r == req[w] s == req'[w] IN
  \/ /\ StartRead(w) /\ pc'[w] = "version"
     /\ s.kind \in Kinds /\ s.version = 0 /\ s.then = "lookup" /\ s.since = db
  \/ /\ GetVersion(w) /\ version > 0 /\ pc'[w] = r.then
     /\ s = [r EXCEPT !.version = version]
  \/ /\ GetVersion(w) /\ pc'[w] = "init" /\ s = r /\ (MayFail \/ version = 0)
  \/ /\ InitVersion(w) /\ pc'[w] = r.then /\ s = [r EXCEPT !.version = 1]
  \/ /\ Lookup(w) /\ pc'[w] = "served" /\ KeyOf(r) \in DOMAIN cache
     /\ s = [r EXCEPT !.value = cache[KeyOf(r)]]
  \/ /\ Lookup(w) /\ pc'[w] = "build" /\ s = r
  \/ /\ Build(w) /\ pc'[w] = AfterBuild(r) /\ s = [r EXCEPT !.value = db, !.then = "store"]
  \/ /\ Store(w) /\ pc'[w] = "served" /\ s = r
  \/ /\ Reply(w) /\ pc'[w] = "idle" /\ s = NoRequest

\* What a step of a reader may do.
LEMMA ReadStep ==
  ASSUME Types, NEW w \in Workers, Read(w)
  PROVE  WorkerTypes' /\ KindsFit' /\ Others(w) /\ ReadEffect(w)
<1> DEFINE r == req[w]
<1>0. /\ WorkerTypes /\ r \in Request /\ version \in Nat /\ db \in Value
      /\ r.then \in {"lookup", "store"} /\ KindsFit
      /\ KeyOf(r) \in DOMAIN cache => cache[KeyOf(r)] \in Value
  BY DEF Types, WorkerTypes, SharedTypes, Request
<1>1. \A q \in Request, n \in Nat, x \in Value :
        /\ [q EXCEPT !.version = n].kind = q.kind
        /\ [q EXCEPT !.value = x].kind = q.kind
        /\ [q EXCEPT !.value = x, !.then = "store"].kind = q.kind
  BY DEF Request
<1>2. ASSUME Others(w), pc'[w] \in ReaderPCs \cup {"idle"}, pc'[w] \in ReaderPCs => req'[w].kind \in Kinds
      PROVE  KindsFit'
  BY <1>0, <1>2 DEF KindsFit, Others, ReaderPCs, WriterPCs
<1>3. CASE StartRead(w)
  <2>1. PICK k \in Kinds : req' = [req EXCEPT ![w] = [NoRequest EXCEPT !.kind = k, !.since = db]]
    BY <1>3 DEF StartRead
  <2> DEFINE s == [NoRequest EXCEPT !.kind = k, !.since = db]
  <2>2. s \in Request /\ s.kind = k /\ s.version = 0 /\ s.then = "lookup" /\ s.since = db
    BY <1>0, RequestTypes DEF NoRequest
  <2> HIDE DEF s
  <2>3. WorkerTypes' /\ Others(w) /\ pc'[w] = "version" /\ req'[w] = s
    BY <1>0, <1>3, <2>1, <2>2, WorkerStep DEF StartRead, Goto, ReaderPCs, s
  <2> QED BY <1>2, <1>3, <2>2, <2>3 DEF ReadEffect, ReaderPCs
<1>4. CASE GetVersion(w)
  <2>1. \/ version > 0 /\ req' = [req EXCEPT ![w].version = version] /\ Goto(w, r.then)
        \/ Goto(w, "init") /\ UNCHANGED req /\ (MayFail \/ version = 0)
    <3>1. PICK up \in Outcomes :
            IF up /\ version > 0
               THEN req' = [req EXCEPT ![w].version = version] /\ Goto(w, r.then)
               ELSE Goto(w, "init") /\ UNCHANGED req
      BY <1>4 DEF GetVersion
    <3>2. up \/ MayFail
      BY FlagsAssumption DEF Outcomes
    <3>3. CASE up /\ version > 0
      BY <3>1, <3>3
    <3>4. CASE ~(up /\ version > 0)
      <4>1. Goto(w, "init") /\ UNCHANGED req
        BY <3>1, <3>4
      <4>2. MayFail \/ version = 0
        BY <3>2, <3>4, <1>0
      <4> QED BY <4>1, <4>2
    <3> QED BY <3>3, <3>4
  <2> DEFINE s == [r EXCEPT !.version = version]
  <2>2. s \in Request /\ s.kind = r.kind /\ r.kind \in Kinds
    BY <1>0, <1>1, <1>4, RequestTypes DEF KindsFit, GetVersion, ReaderPCs
  <2>3. CASE version > 0 /\ req' = [req EXCEPT ![w].version = version] /\ Goto(w, r.then)
    <3>1. req' = [req EXCEPT ![w] = s]
      BY <2>3, <1>0 DEF WorkerTypes
    <3> HIDE DEF s
    <3>2. WorkerTypes' /\ Others(w) /\ pc'[w] = r.then /\ req'[w] = s
      BY <1>0, <2>2, <2>3, <3>1, WorkerStep DEF Goto, ReaderPCs
    <3> QED BY <1>0, <1>2, <1>4, <2>2, <2>3, <3>2 DEF ReadEffect, ReaderPCs, s
  <2>4. CASE Goto(w, "init") /\ UNCHANGED req /\ (MayFail \/ version = 0)
    <3>1. WorkerTypes' /\ Others(w) /\ pc'[w] = "init" /\ req'[w] = r
      BY <1>0, <2>4, StayStep DEF Goto, ReaderPCs
    <3> QED BY <1>2, <1>4, <2>2, <2>4, <3>1 DEF ReadEffect, ReaderPCs
  <2> QED BY <2>1, <2>3, <2>4
<1>5. CASE InitVersion(w)
  <2> DEFINE s == [r EXCEPT !.version = 1]
  <2>1. s \in Request /\ s.kind = r.kind /\ r.kind \in Kinds
    BY <1>0, <1>1, <1>5, RequestTypes DEF KindsFit, InitVersion, ReaderPCs
  <2>2. req' = [req EXCEPT ![w] = s]
    BY <1>0, <1>5 DEF InitVersion, WorkerTypes
  <2> HIDE DEF s
  <2>3. WorkerTypes' /\ Others(w) /\ pc'[w] = r.then /\ req'[w] = s
    <3>1. pc' = [pc EXCEPT ![w] = r.then] /\ r.then \in ReaderPCs
      BY <1>0, <1>5 DEF InitVersion, Goto, ReaderPCs
    <3> QED BY <1>0, <3>1, <2>1, <2>2, WorkerStep
  <2> QED BY <1>0, <1>2, <1>5, <2>1, <2>3 DEF ReadEffect, ReaderPCs, s
<1>6. CASE Lookup(w)
  <2>0. r.kind \in Kinds
    BY <1>0, <1>6 DEF KindsFit, Lookup, ReaderPCs
  <2> DEFINE s == [r EXCEPT !.value = cache[KeyOf(r)]]
  <2>1. \/ KeyOf(r) \in DOMAIN cache /\ req' = [req EXCEPT ![w].value = cache[KeyOf(r)]] /\ Goto(w, "served")
        \/ Goto(w, "build") /\ UNCHANGED req
    BY <1>6 DEF Lookup
  <2>2. CASE KeyOf(r) \in DOMAIN cache /\ req' = [req EXCEPT ![w].value = cache[KeyOf(r)]] /\ Goto(w, "served")
    <3>1. s \in Request /\ s.kind = r.kind
      BY <1>0, <1>1, <2>2, RequestTypes
    <3>2. req' = [req EXCEPT ![w] = s]
      BY <2>2, <1>0 DEF WorkerTypes
    <3> HIDE DEF s
    <3>3. WorkerTypes' /\ Others(w) /\ pc'[w] = "served" /\ req'[w] = s
      BY <1>0, <2>2, <3>1, <3>2, WorkerStep DEF Goto, ReaderPCs
    <3> QED BY <1>2, <1>6, <2>0, <2>2, <3>1, <3>3 DEF ReadEffect, ReaderPCs, s
  <2>3. CASE Goto(w, "build") /\ UNCHANGED req
    <3>1. WorkerTypes' /\ Others(w) /\ pc'[w] = "build" /\ req'[w] = r
      BY <1>0, <2>3, StayStep DEF Goto, ReaderPCs
    <3> QED BY <1>2, <1>6, <2>0, <2>3, <3>1 DEF ReadEffect, ReaderPCs
  <2> QED BY <2>1, <2>2, <2>3
<1>7. CASE Build(w)
  <2> DEFINE s == [r EXCEPT !.value = db, !.then = "store"]
  <2>1. s \in Request /\ s.kind = r.kind /\ r.kind \in Kinds
    BY <1>0, <1>1, <1>7, RequestTypes DEF KindsFit, Build, ReaderPCs
  <2>2. req' = [req EXCEPT ![w] = s]
    BY <1>0, <1>7 DEF Build, WorkerTypes
  <2>3. AfterBuild(r) \in {"version", "store"}
    BY DEF AfterBuild
  <2> HIDE DEF s
  <2>4. WorkerTypes' /\ Others(w) /\ pc'[w] = AfterBuild(r) /\ req'[w] = s
    <3>1. pc' = [pc EXCEPT ![w] = AfterBuild(r)] /\ AfterBuild(r) \in ReaderPCs
      BY <1>7, <2>3 DEF Build, Goto, ReaderPCs
    <3> QED BY <1>0, <3>1, <2>1, <2>2, WorkerStep
  <2> QED BY <1>2, <1>7, <2>1, <2>3, <2>4 DEF ReadEffect, ReaderPCs, s
<1>8. CASE Store(w)
  <2>0. r.kind \in Kinds
    BY <1>0, <1>8 DEF KindsFit, Store, ReaderPCs
  <2>1. WorkerTypes' /\ Others(w) /\ pc'[w] = "served" /\ req'[w] = r
    BY <1>0, <1>8, StayStep DEF Store, Goto, ReaderPCs
  <2> QED BY <1>2, <1>8, <2>0, <2>1 DEF ReadEffect, ReaderPCs
<1>9. CASE Reply(w)
  <2>1. WorkerTypes' /\ Others(w) /\ pc'[w] = "idle" /\ req'[w] = NoRequest
    BY <1>0, <1>9, RequestTypes, WorkerStep DEF Reply, Goto, ReaderPCs
  <2> QED BY <1>2, <1>9, <2>1 DEF ReadEffect, ReaderPCs
<1> QED BY <1>3, <1>4, <1>5, <1>6, <1>7, <1>8, <1>9 DEF Read

\* The writer's steps: what becomes of the version and of the lock.
WriteEffect(w) ==
  LET r == req[w] s == req'[w] IN
  \/ /\ StartWrite(w) /\ pc'[w] = "add" /\ s.kind \in Tables /\ s.version = 0
     /\ IF s.kind = "journal" THEN lock = NoWorker /\ lock' = w ELSE lock' = lock
  \/ /\ BumpAdd(w) /\ pc'[w] = "bumped" /\ s = r /\ version = 0 /\ version' = 2
  \/ /\ BumpAdd(w) /\ pc'[w] = "incr" /\ s = r /\ version' = version
  \/ /\ BumpIncr(w) /\ pc'[w] = "bumped" /\ s = r /\ version > 0 /\ version' = version + 1
  \/ /\ BumpIncr(w) /\ pc'[w] = "reread" /\ s = r /\ version' = version
     /\ MayFail \/ version = 0
  \/ /\ BumpRead(w) /\ pc'[w] = "rewrite" /\ s.version >= 2 /\ s.kind = r.kind
  \/ /\ BumpSet(w) /\ pc'[w] = "bumped" /\ s = r /\ version' \in {r.version, version}
  \/ /\ WriteAnother(w) /\ pc'[w] = "add" /\ s = r
  \/ /\ Commit(w) \/ Rollback(w)
     /\ pc'[w] = "idle" /\ s = NoRequest

\* What a step of a writer may do.
LEMMA WriteStep ==
  ASSUME Types, NEW w \in Workers, Write(w)
  PROVE  WorkerTypes' /\ KindsFit' /\ Others(w) /\ WriteEffect(w)
<1> DEFINE r == req[w]
<1>0. /\ WorkerTypes /\ r \in Request /\ version \in Nat /\ KindsFit
      /\ pc[w] \in WriterPCs => r.kind \in Tables
  BY DEF Types, WorkerTypes, SharedTypes, KindsFit
<1>1. ASSUME Others(w), pc'[w] \in WriterPCs \cup {"idle"}, pc'[w] \in WriterPCs => req'[w].kind \in Tables
      PROVE  KindsFit'
  BY <1>0, <1>1 DEF KindsFit, Others, ReaderPCs, WriterPCs
<1>2. \A up \in Outcomes : up \in BOOLEAN /\ (up \/ MayFail)
  BY FlagsAssumption DEF Outcomes
<1>20. \A label \in WriterPCs : Goto(w, label) /\ UNCHANGED req =>
         WorkerTypes' /\ Others(w) /\ pc'[w] = label /\ req'[w] = r
  BY <1>0, StayStep DEF Goto
<1>3. CASE StartWrite(w)
  <2>1. PICK t \in Tables :
          LockFor(w, t) /\ req' = [req EXCEPT ![w] = [NoRequest EXCEPT !.kind = t]]
    BY <1>3 DEF StartWrite
  <2> DEFINE s == [NoRequest EXCEPT !.kind = t]
  <2>2. s \in Request /\ s.kind = t /\ s.version = 0
    BY RequestTypes DEF NoRequest
  <2> HIDE DEF s
  <2>3. WorkerTypes' /\ Others(w) /\ pc'[w] = "add" /\ req'[w] = s
    BY <1>0, <1>3, <2>1, <2>2, WorkerStep DEF StartWrite, Goto, WriterPCs, s
  <2> QED BY <1>1, <1>3, <2>1, <2>2, <2>3 DEF WriteEffect, WriterPCs, LockFor
<1>4. CASE BumpAdd(w)
  <2>0. r.kind \in Tables /\ UNCHANGED req
    BY <1>0, <1>4 DEF BumpAdd, WriterPCs
  <2>1. \/ version = 0 /\ version' = 2 /\ Goto(w, "bumped")
        \/ Goto(w, "incr") /\ version' = version
    BY <1>4 DEF BumpAdd
  <2> QED BY <1>1, <1>20, <1>4, <2>0, <2>1 DEF WriteEffect, WriterPCs
<1>5. CASE BumpIncr(w)
  <2>0. r.kind \in Tables /\ UNCHANGED req
    BY <1>0, <1>5 DEF BumpIncr, WriterPCs
  <2>1. PICK up \in Outcomes :
          IF up /\ version > 0
             THEN version' = version + 1 /\ Goto(w, "bumped")
             ELSE Goto(w, "reread") /\ UNCHANGED version
    BY <1>5 DEF BumpIncr
  <2>2. CASE up /\ version > 0
    BY <1>1, <1>20, <1>5, <2>0, <2>1, <2>2 DEF WriteEffect, WriterPCs
  <2>3. CASE ~(up /\ version > 0)
    <3>1. MayFail \/ version = 0
      BY <1>0, <1>2, <2>3
    <3>2. Goto(w, "reread") /\ version' = version
      BY <2>1, <2>3
    <3> QED BY <1>1, <1>20, <1>5, <2>0, <3>1, <3>2 DEF WriteEffect, WriterPCs
  <2> QED BY <2>2, <2>3
<1>6. CASE BumpRead(w)
  <2>0. r.kind \in Tables
    BY <1>0, <1>6 DEF BumpRead, WriterPCs
  <2>1. PICK up \in Outcomes :
          req' = [req EXCEPT ![w].version = IF up /\ version > 0 THEN version + 1 ELSE 2]
    BY <1>6 DEF BumpRead
  <2> DEFINE n == IF up /\ version > 0 THEN version + 1 ELSE 2
             s == [r EXCEPT !.version = n]
  <2>2. n \in Nat /\ n >= 2
    BY <1>0
  <2>3. req' = [req EXCEPT ![w] = s]
    BY <2>1, <1>0 DEF WorkerTypes
  <2> HIDE DEF n
  <2>4. s \in Request /\ s.kind = r.kind /\ s.version = n
    <3>1. \A q \in Request : [q EXCEPT !.version = n].kind = q.kind /\ [q EXCEPT !.version = n].version = n
      BY DEF Request
    <3> QED BY <1>0, <2>2, <3>1, RequestTypes
  <2> HIDE DEF s
  <2>5. WorkerTypes' /\ Others(w) /\ pc'[w] = "rewrite" /\ req'[w] = s
    BY <1>0, <1>6, <2>3, <2>4, WorkerStep DEF BumpRead, Goto, WriterPCs
  <2> QED BY <1>1, <1>6, <2>0, <2>2, <2>4, <2>5 DEF WriteEffect, WriterPCs
<1>7. CASE BumpSet(w)
  <2>0. r.kind \in Tables /\ UNCHANGED req
    BY <1>0, <1>7 DEF BumpSet, WriterPCs
  <2>1. version' \in {r.version, version} /\ Goto(w, "bumped")
    BY <1>7 DEF BumpSet
  <2> QED BY <1>1, <1>20, <1>7, <2>0, <2>1 DEF WriteEffect, WriterPCs
<1>8. CASE WriteAnother(w)
  <2>0. r.kind \in Tables /\ UNCHANGED req
    BY <1>0, <1>8 DEF WriteAnother, WriterPCs
  <2> QED BY <1>1, <1>20, <1>8, <2>0 DEF WriteEffect, WriterPCs, WriteAnother
<1>9. CASE Commit(w) \/ Rollback(w)
  <2>1. WorkerTypes' /\ Others(w) /\ pc'[w] = "idle" /\ req'[w] = NoRequest
    BY <1>0, <1>9, RequestTypes, WorkerStep DEF Commit, Rollback, EndWrite, Goto
  <2> QED BY <1>1, <1>9, <2>1 DEF WriteEffect, WriterPCs
<1> QED BY <1>3, <1>4, <1>5, <1>6, <1>7, <1>8, <1>9 DEF Write

\* The version stays a number, the cached values stay values.
LEMMA TypesStep == Types /\ [Next]_vars => Types'
<1> SUFFICES ASSUME Types, [Next]_vars PROVE Types'
  OBVIOUS
<1>0. /\ SharedTypes /\ WorkerTypes /\ KindsFit /\ db \in Value /\ version \in Nat
      /\ lock \in Workers \cup {NoWorker}
      /\ \A k \in DOMAIN cache : k \in Kinds \X Nat /\ cache[k] \in Value
      /\ intact \in BOOLEAN /\ apart \in BOOLEAN
  BY DEF Types, SharedTypes
<1>1. Next => intact' \in BOOLEAN /\ apart' \in BOOLEAN
  BY <1>0 DEF Next, Track
<1>2. ASSUME Next, NEW w \in Workers, Read(w) PROVE Types'
  <2>1. WorkerTypes' /\ KindsFit'
    BY <1>2, ReadStep
  <2>2. UNCHANGED <<db, lock>> /\ version' \in Nat
    <3>1. UNCHANGED <<db, lock>>
      BY <1>2 DEF Read, StartRead, GetVersion, InitVersion, Lookup, Build, Store, Reply
    <3>2. version' = version \/ version' = 1
      BY <1>2 DEF Read, StartRead, GetVersion, InitVersion, Lookup, Build, Store, Reply
    <3> QED BY <1>0, <3>1, <3>2
  <2>3. \A k \in DOMAIN cache' : k \in Kinds \X Nat /\ cache'[k] \in Value
    <3>1. CASE Store(w)
      <4>1. KeyOf(req[w]) \in Kinds \X Nat /\ req[w].value \in Value
        BY <1>0, <3>1 DEF Store, KindsFit, KeyOf, WorkerTypes, Request, ReaderPCs
      <4> QED BY <1>0, <3>1, <4>1 DEF Store
    <3>2. CASE ~Store(w)
      BY <1>0, <1>2, <3>2 DEF Read, StartRead, GetVersion, InitVersion, Lookup, Build, Reply
    <3> QED BY <3>1, <3>2
  <2> QED BY <1>0, <1>1, <1>2, <2>1, <2>2, <2>3 DEF Types, SharedTypes
<1>3. ASSUME Next, NEW w \in Workers, Write(w) PROVE Types'
  <2>1. WorkerTypes' /\ KindsFit'
    BY <1>3, WriteStep
  <2>2. UNCHANGED cache
    BY <1>3 DEF Write, StartWrite, BumpAdd, BumpIncr, BumpRead, BumpSet, WriteAnother, Commit, Rollback, EndWrite
  <2>3. version' \in Nat
    <3>1. req[w].version \in Nat
      BY <1>0 DEF WorkerTypes, Request
    <3> QED BY <1>0, <1>3, <3>1
        DEF Write, StartWrite, BumpAdd, BumpIncr, BumpRead, BumpSet, WriteAnother, Commit, Rollback, EndWrite
  <2>4. lock' \in Workers \cup {NoWorker}
    BY <1>0, <1>3 DEF Write, StartWrite, LockFor, BumpAdd, BumpIncr, BumpRead, BumpSet, WriteAnother,
       Commit, Rollback, EndWrite
  <2>5. db' \in Value
    <3>1. \A t \in Tables : [db EXCEPT ![t] = @ + 1] \in Value
      BY <1>0 DEF Value
    <3>2. Commit(w) => req[w].kind \in Tables
      BY <1>0 DEF Commit, KindsFit, WriterPCs
    <3> QED BY <1>0, <1>3, <3>1, <3>2 DEF Write, StartWrite, BumpAdd, BumpIncr, BumpRead, BumpSet,
               WriteAnother, Commit, Rollback
  <2> QED BY <1>0, <1>1, <1>3, <2>1, <2>2, <2>3, <2>4, <2>5 DEF Types, SharedTypes
<1>4. ASSUME Next, Expire PROVE Types'
  <2>1. WorkerTypes' /\ KindsFit' /\ UNCHANGED <<db, lock>> /\ version' \in Nat
    <3>1. UNCHANGED <<db, lock, pc, req>> /\ (version' = 0 \/ version' = version)
      BY <1>4 DEF Expire
    <3>2. WorkerTypes' /\ KindsFit'
      BY <1>0, <3>1 DEF WorkerTypes, KindsFit
    <3> QED BY <1>0, <3>1, <3>2
  <2>2. \A k \in DOMAIN cache' : k \in DOMAIN cache /\ cache'[k] = cache[k]
    BY <1>4 DEF Expire
  <2> QED BY <1>0, <1>1, <1>4, <2>1, <2>2 DEF Types, SharedTypes
<1>5. CASE UNCHANGED vars
  BY <1>5 DEF vars, Types, SharedTypes, WorkerTypes, KindsFit
<1> QED BY <1>2, <1>3, <1>4, <1>5 DEF Next

\* The types of the empty cache.
LEMMA TypesInitially == Init => Types
<1> SUFFICES ASSUME Init PROVE Types
  OBVIOUS
<1>1. SharedTypes
  <2>1. version \in Nat
    BY VersionsAssumption DEF Init
  <2>2. DOMAIN cache = {}
    BY DEF Init
  <2> QED BY <2>1, <2>2, RequestTypes DEF Init, SharedTypes
<1>2. WorkerTypes /\ KindsFit
  BY RequestTypes DEF Init, WorkerTypes, KindsFit, ReaderPCs, WriterPCs
<1> QED BY <1>1, <1>2 DEF Types

\* Every variable keeps its type, a cached value is one of a kind under a version, and a reader
\* holds a kind, a writer a table.
THEOREM TypesAreInvariant == Spec => []Types
BY TypesInitially, TypesStep, PTL DEF Spec

(***************************************************************************)
(* As long as no invalidation is lost.                                     *)
(***************************************************************************)

\* The version that a reader finds, or takes it to be.
ReadVersion == IF version = 0 THEN 1 ELSE version

\* What a request keeps when it writes down a version or an answer.
LEMMA RequestKeeps ==
  ASSUME NEW r \in Request, NEW n \in Nat, NEW x \in Value
  PROVE  LET p == [r EXCEPT !.version = n]
             q == [r EXCEPT !.value = x]
             s == [r EXCEPT !.value = x, !.then = "store"] IN
         /\ p.version = n /\ p.kind = r.kind /\ p.then = r.then /\ p.value = r.value /\ p.since = r.since
         /\ q.value = x /\ q.kind = r.kind /\ q.then = r.then /\ q.version = r.version /\ q.since = r.since
         /\ s.value = x /\ s.kind = r.kind /\ s.then = "store" /\ s.version = r.version /\ s.since = r.since
BY DEF Request

\* A reader's step, seen from the version that readers find.
ReaderMove(w) ==
  LET r == req[w] s == req'[w] IN
  \/ /\ pc[w] = "idle" /\ pc'[w] = "version"
     /\ s.version = 0 /\ s.then = "lookup" /\ s.since = db
  \/ /\ pc[w] = "version" /\ pc'[w] = "init" /\ s = r
  \/ /\ pc[w] \in {"version", "init"} /\ pc'[w] = r.then
     /\ s = [r EXCEPT !.version = ReadVersion]
  \/ /\ pc[w] = "lookup" /\ pc'[w] = "served" /\ KeyOf(r) \in DOMAIN cache
     /\ s = [r EXCEPT !.value = cache[KeyOf(r)]]
  \/ /\ pc[w] = "lookup" /\ pc'[w] = "build" /\ s = r
  \/ /\ pc[w] = "build" /\ pc'[w] = AfterBuild(r) /\ s = [r EXCEPT !.value = db, !.then = "store"]
  \/ /\ pc[w] = "store" /\ pc'[w] = "served" /\ s = r
  \/ /\ pc[w] = "served" /\ pc'[w] = "idle"

\* What is cached after a step was cached before, or is what the worker stores.
Stores(w) ==
  \A k \in DOMAIN cache' :
    \/ k \in DOMAIN cache /\ cache'[k] = cache[k]
    \/ pc[w] = "store" /\ k = KeyOf(req[w]) /\ cache'[k] = req[w].value

\* A reader that guesses no version leaves the version that readers find.
LEMMA Reading ==
  ASSUME Types, NEW w \in Workers, Read(w), ~GuessedVersion
  PROVE  /\ ReaderMove(w) /\ Others(w) /\ Stores(w)
         /\ ReadVersion' = ReadVersion /\ UNCHANGED <<db, lock>>
         /\ pc[w] \in ReaderPCs \cup {"idle"} /\ pc'[w] \in ReaderPCs \cup {"idle"}
<1> DEFINE r == req[w]
           s == req'[w]
<1>0. version \in Nat /\ r.then \in {"lookup", "store"} /\ Others(w) /\ ReadEffect(w)
  BY ReadStep DEF Types, SharedTypes, WorkerTypes, Request
<1>1. ReadVersion' = ReadVersion /\ (pc[w] = "init" => ReadVersion = 1)
  <2>1. CASE InitVersion(w)
    <3>1. ~(version > 1)
      BY <2>1 DEF GuessedVersion
    <3>2. version' = 1 \/ version' = version
      BY <2>1 DEF InitVersion
    <3>3. version \in {0, 1} /\ version' \in {0, 1}
      BY <1>0, <3>1, <3>2
    <3> QED BY <3>3 DEF ReadVersion
  <2>2. CASE ~InitVersion(w)
    <3>1. pc[w] # "init" /\ version' = version
      BY <2>2 DEF Read, StartRead, GetVersion, Lookup, Build, Store, Reply
    <3> QED BY <3>1 DEF ReadVersion
  <2> QED BY <2>1, <2>2
<1>2. ReaderMove(w)
  <2>1. CASE StartRead(w) /\ pc'[w] = "version" /\ s.version = 0 /\ s.then = "lookup" /\ s.since = db
    BY <2>1 DEF StartRead, ReaderMove
  <2>2. CASE GetVersion(w) /\ version > 0 /\ pc'[w] = r.then /\ s = [r EXCEPT !.version = version]
    BY <2>2, <1>0 DEF GetVersion, ReaderMove, ReadVersion
  <2>3. CASE GetVersion(w) /\ pc'[w] = "init" /\ s = r
    BY <2>3 DEF GetVersion, ReaderMove
  <2>4. CASE InitVersion(w) /\ pc'[w] = r.then /\ s = [r EXCEPT !.version = 1]
    BY <2>4, <1>1 DEF InitVersion, ReaderMove
  <2>5. CASE /\ Lookup(w) /\ pc'[w] = "served" /\ KeyOf(r) \in DOMAIN cache
             /\ s = [r EXCEPT !.value = cache[KeyOf(r)]]
    BY <2>5 DEF Lookup, ReaderMove
  <2>6. CASE Lookup(w) /\ pc'[w] = "build" /\ s = r
    BY <2>6 DEF Lookup, ReaderMove
  <2>7. CASE Build(w) /\ pc'[w] = AfterBuild(r) /\ s = [r EXCEPT !.value = db, !.then = "store"]
    BY <2>7 DEF Build, ReaderMove
  <2>8. CASE Store(w) /\ pc'[w] = "served" /\ s = r
    BY <2>8 DEF Store, ReaderMove
  <2>9. CASE Reply(w) /\ pc'[w] = "idle"
    BY <2>9 DEF Reply, ReaderMove
  <2> HIDE DEF r, s
  <2> QED BY <1>0, <2>1, <2>2, <2>3, <2>4, <2>5, <2>6, <2>7, <2>8, <2>9 DEF ReadEffect, r, s
<1>3. UNCHANGED <<db, lock>> /\ Stores(w)
  BY DEF Read, StartRead, GetVersion, InitVersion, Lookup, Build, Store, Reply, Stores
<1>4. pc[w] \in ReaderPCs \cup {"idle"} /\ pc'[w] \in ReaderPCs \cup {"idle"}
  BY <1>0, <1>2 DEF ReaderMove, ReaderPCs, AfterBuild
<1> QED BY <1>0, <1>1, <1>2, <1>3, <1>4

\* A writer's step, seen from the version that readers find: a bump raises it.
WriterMove(w) ==
  LET r == req[w] s == req'[w] IN
  \/ /\ pc[w] = "idle" /\ pc'[w] = "add"
     /\ ReadVersion' = ReadVersion /\ db' = db
     /\ IF s.kind = "journal" THEN lock = NoWorker /\ lock' = w ELSE lock' = lock
  \/ /\ pc[w] \in {"add", "incr", "rewrite"} /\ pc'[w] = "bumped" /\ s.kind = r.kind
     /\ ReadVersion' > ReadVersion /\ UNCHANGED <<db, lock>>
  \/ /\ pc[w] \in {"add", "incr", "reread", "bumped"}
     /\ pc'[w] \in {"incr", "reread", "rewrite", "add"} /\ s.kind = r.kind
     /\ pc'[w] = "rewrite" => s.version >= 2
     /\ ReadVersion' = ReadVersion /\ UNCHANGED <<db, lock>>
  \/ /\ pc[w] = "bumped" /\ pc'[w] = "idle" /\ ReadVersion' = ReadVersion
     /\ lock' = (IF lock = w THEN NoWorker ELSE lock)
     /\ db' = db \/ db' = [db EXCEPT ![r.kind] = @ + 1]

\* A writer that writes the version back writes a number under which nothing was cached.
Rewrites == \A w \in Workers : pc[w] = "rewrite" => req[w].version >= 2

\* A writer whose bump is not lost raises the version that readers find.
LEMMA Writing ==
  ASSUME Types, Rewrites, NEW w \in Workers, Write(w), ~LostBump
  PROVE  WriterMove(w) /\ Others(w) /\ UNCHANGED cache
<1> DEFINE r == req[w]
           s == req'[w]
<1>0. /\ version \in Nat /\ r.version \in Nat /\ Others(w) /\ WriteEffect(w) /\ WorkerTypes
      /\ pc[w] = "rewrite" => r.version >= 2
  BY WriteStep DEF Types, SharedTypes, WorkerTypes, Request, Rewrites
<1>1. UNCHANGED cache
  BY DEF Write, StartWrite, BumpAdd, BumpIncr, BumpRead, BumpSet, WriteAnother, Commit, Rollback, EndWrite
<1>2. WriterMove(w)
  <2>1. CASE StartWrite(w) /\ pc'[w] = "add"
             /\ IF s.kind = "journal" THEN lock = NoWorker /\ lock' = w ELSE lock' = lock
    BY <2>1 DEF StartWrite, WriterMove, ReadVersion
  <2>2. CASE BumpAdd(w) /\ pc'[w] = "bumped" /\ s = r /\ version = 0 /\ version' = 2
    BY <2>2 DEF BumpAdd, WriterMove, ReadVersion
  <2>3. CASE BumpAdd(w) /\ pc'[w] = "incr" /\ s = r /\ version' = version
    BY <2>3 DEF BumpAdd, WriterMove, ReadVersion
  <2>4. CASE BumpIncr(w) /\ pc'[w] = "bumped" /\ s = r /\ version > 0 /\ version' = version + 1
    BY <2>4, <1>0 DEF BumpIncr, WriterMove, ReadVersion
  <2>5. CASE BumpIncr(w) /\ pc'[w] = "reread" /\ s = r /\ version' = version
    BY <2>5 DEF BumpIncr, WriterMove, ReadVersion
  <2>6. CASE BumpRead(w) /\ pc'[w] = "rewrite" /\ s.version >= 2 /\ s.kind = r.kind
    BY <2>6 DEF BumpRead, WriterMove, ReadVersion
  <2>7. CASE BumpSet(w) /\ pc'[w] = "bumped" /\ s = r /\ version' \in {r.version, version}
    <3>1. version' > version /\ pc[w] = "rewrite" /\ UNCHANGED <<db, lock>>
      BY <2>7, <1>0 DEF LostBump, BumpSet
    <3>2. version' = r.version /\ version' \in Nat /\ version' >= 2
      BY <2>7, <3>1, <1>0
    <3>3. ReadVersion' > ReadVersion
      BY <3>1, <3>2, <1>0 DEF ReadVersion
    <3> QED BY <2>7, <3>1, <3>3 DEF WriterMove
  <2>8. CASE WriteAnother(w) /\ pc'[w] = "add" /\ s = r
    BY <2>8 DEF WriteAnother, WriterMove, ReadVersion
  <2>9. CASE (Commit(w) \/ Rollback(w)) /\ pc'[w] = "idle"
    BY <2>9 DEF Commit, Rollback, EndWrite, WriterMove, ReadVersion
  <2> HIDE DEF r, s
  <2> QED BY <1>0, <2>1, <2>2, <2>3, <2>4, <2>5, <2>6, <2>7, <2>8, <2>9 DEF WriteEffect, r, s
<1> QED BY <1>0, <1>1, <1>2

\* A key that the cache drops, other than the version, takes nothing else along.
LEMMA Expiring ==
  ASSUME Types, Expire, version' >= version
  PROVE  /\ ReadVersion' = ReadVersion /\ UNCHANGED <<db, lock, pc, req>>
         /\ \A k \in DOMAIN cache' : k \in DOMAIN cache /\ cache'[k] = cache[k]
<1>0. version \in Nat
  BY DEF Types, SharedTypes
<1>1. UNCHANGED <<db, lock, pc, req>>
  BY DEF Expire
<1>2. \/ version # 0 /\ version' = 0
      \/ version' = version /\ \E k \in DOMAIN cache : cache' = [j \in DOMAIN cache \ {k} |-> cache[j]]
  BY DEF Expire
<1>3. ~(version # 0 /\ version' = 0)
  BY <1>0
<1> QED BY <1>1, <1>2, <1>3 DEF ReadVersion

\* The version that readers find counts up: no key and no reader is ahead of it, and exercises are
\* stored under the version read before they were computed.
VersionInv ==
  /\ Rewrites
  /\ \A k \in DOMAIN cache : k[2] <= ReadVersion
  /\ \A w \in Workers :
       /\ pc[w] \in ReaderPCs => req[w].version <= ReadVersion
       /\ pc[w] \in {"version", "init"} /\ req[w].then = "store" => req[w].kind = "report"

\* Who writes to the journal holds the company row lock, and nobody else.
LockInv ==
  \A w \in Workers : lock = w <=> pc[w] \in WriterPCs /\ req[w].kind = "journal"

HolderBumped == \E w \in Workers : lock = w /\ pc[w] = "bumped"

\* Exercises under the current version may miss the commit of the writer that bumped to it, and
\* miss nothing while that writer has not committed.
Recent(value) ==
  IF HolderBumped THEN value["journal"] >= db["journal"] ELSE value["journal"] >= db["journal"] - 1

Storing(w) == pc[w] = "store" /\ req[w].kind = "exercises"

RecentInv ==
  /\ \A k \in DOMAIN cache : k = <<"exercises", ReadVersion>> => Recent(cache[k])
  /\ \A w \in Workers : Storing(w) /\ req[w].version = ReadVersion => Recent(req[w].value)

\* An answer that misses at most one commit of those made before a request.
OneBehind(value, r) == value["journal"] >= r.since["journal"] - 1

\* Whatever a reader of exercises may yet find under its key is at most one commit behind it.
AnswerInv ==
  \A w \in Workers :
    /\ pc[w] \in ReaderPCs => req[w].since["journal"] <= db["journal"]
    /\ pc[w] = "lookup" /\ req[w].kind = "exercises" =>
         /\ \A k \in DOMAIN cache : k = <<"exercises", req[w].version>> => OneBehind(cache[k], req[w])
         /\ \A v \in Workers :
              Storing(v) /\ req[v].version = req[w].version => OneBehind(req[v].value, req[w])
    /\ pc[w] \in {"store", "served"} /\ req[w].kind = "exercises" => OneBehind(req[w].value, req[w])

\* A list of exercises that was just read from the tables.
LEMMA FreshIsRecent ==
  ASSUME Types
  PROVE  /\ Recent(db)
         /\ \A x \in Value : Recent(x) => x["journal"] >= db["journal"] - 1
BY DEF Recent, Types, SharedTypes, Value, Tables

\* What the proofs need to know of a worker's types.
LEMMA WorkerFacts ==
  ASSUME Types, NEW w \in Workers
  PROVE  /\ req[w] \in Request /\ req[w].version \in Nat /\ req[w].then \in {"lookup", "store"}
         /\ req[w].value \in Value /\ req[w].since \in Value
         /\ req[w].value["journal"] \in Nat /\ req[w].since["journal"] \in Nat
         /\ db \in Value /\ db["journal"] \in Nat /\ version \in Nat /\ ReadVersion \in Nat
         /\ KeyOf(req[w]) \in DOMAIN cache => cache[KeyOf(req[w])] \in Value
         /\ \A k \in DOMAIN cache : k[2] \in Nat /\ cache[k] \in Value /\ cache[k]["journal"] \in Nat
BY DEF Types, SharedTypes, WorkerTypes, Request, Value, Tables, ReadVersion

\* What a reader's step makes of its request.
LEMMA ReaderFacts ==
  ASSUME Types, VersionInv, NEW w \in Workers, ReaderMove(w)
  PROVE  LET r == req[w] s == req'[w] IN
         /\ pc'[w] \in ReaderPCs => s.version <= ReadVersion
         /\ pc'[w] \in {"version", "init"} /\ s.then = "store" => s.kind = "report"
         /\ pc'[w] = "lookup" => s.version = ReadVersion
         /\ pc'[w] \in ReaderPCs => s.since = db \/ (pc[w] \in ReaderPCs /\ s.since = r.since)
         /\ pc'[w] = "store" /\ s.kind = "exercises" => pc[w] = "build" /\ s.value = db
         /\ pc'[w] = "served" =>
              \/ /\ pc[w] = "lookup" /\ KeyOf(r) \in DOMAIN cache /\ s.value = cache[KeyOf(r)]
                 /\ s.kind = r.kind /\ s.since = r.since /\ s.version = r.version
              \/ pc[w] = "store" /\ s = r
<1> DEFINE r == req[w]
           s == req'[w]
<1>0. /\ r \in Request /\ db \in Value /\ ReadVersion \in Nat /\ r.then \in {"lookup", "store"}
      /\ KeyOf(r) \in DOMAIN cache => cache[KeyOf(r)] \in Value
      /\ pc[w] \in ReaderPCs => r.version <= ReadVersion
      /\ pc[w] \in {"version", "init"} /\ r.then = "store" => r.kind = "report"
  BY WorkerFacts DEF VersionInv
<1>1. CASE /\ pc[w] = "idle" /\ pc'[w] = "version"
           /\ s.version = 0 /\ s.then = "lookup" /\ s.since = db
  BY <1>0, <1>1
<1>2. CASE pc[w] = "version" /\ pc'[w] = "init" /\ s = r
  BY <1>0, <1>2 DEF ReaderPCs
<1>3. CASE /\ pc[w] \in {"version", "init"} /\ pc'[w] = r.then /\ s = [r EXCEPT !.version = ReadVersion]
  <2>1. s.version = ReadVersion /\ s.kind = r.kind /\ s.then = r.then /\ s.value = r.value /\ s.since = r.since
    BY <1>0, <1>3, RequestKeeps
  <2> QED BY <1>0, <1>3, <2>1 DEF ReaderPCs
<1>4. CASE /\ pc[w] = "lookup" /\ pc'[w] = "served" /\ KeyOf(r) \in DOMAIN cache
           /\ s = [r EXCEPT !.value = cache[KeyOf(r)]]
  <2>1. s.version = r.version /\ s.kind = r.kind /\ s.value = cache[KeyOf(r)] /\ s.since = r.since
    BY <1>0, <1>4, RequestKeeps
  <2> QED BY <1>0, <1>4, <2>1 DEF ReaderPCs
<1>5. CASE pc[w] = "lookup" /\ pc'[w] = "build" /\ s = r
  BY <1>0, <1>5 DEF ReaderPCs
<1>6. CASE pc[w] = "build" /\ pc'[w] = AfterBuild(r) /\ s = [r EXCEPT !.value = db, !.then = "store"]
  <2>1. s.version = r.version /\ s.kind = r.kind /\ s.value = db /\ s.since = r.since
    BY <1>0, <1>6, RequestKeeps
  <2>2. pc'[w] \in {"version", "store"} /\ (pc'[w] = "version" => s.kind = "report")
    BY <1>6, <2>1 DEF AfterBuild
  <2> QED BY <1>0, <1>6, <2>1, <2>2 DEF ReaderPCs
<1>7. CASE pc[w] = "store" /\ pc'[w] = "served" /\ s = r
  BY <1>0, <1>7 DEF ReaderPCs
<1>8. CASE pc[w] = "served" /\ pc'[w] = "idle"
  BY <1>8 DEF ReaderPCs
<1> HIDE DEF r, s
<1> QED BY <1>1, <1>2, <1>3, <1>4, <1>5, <1>6, <1>7, <1>8 DEF ReaderMove, r, s

\* A reader's step, whatever the others do meanwhile.
LEMMA OverlapRead ==
  ASSUME Types, VersionInv, RecentInv, AnswerInv, NEW w \in Workers, Read(w), ~GuessedVersion
  PROVE  VersionInv' /\ RecentInv' /\ AnswerInv'
<1> DEFINE r == req[w]
           s == req'[w]
<1>0. /\ ReaderMove(w) /\ Others(w) /\ Stores(w)
      /\ ReadVersion' = ReadVersion /\ UNCHANGED <<db, lock>>
      /\ pc[w] \in ReaderPCs \cup {"idle"} /\ pc'[w] \in ReaderPCs \cup {"idle"}
  BY Reading
<1>1. /\ pc'[w] \in ReaderPCs => s.version <= ReadVersion
      /\ pc'[w] \in {"version", "init"} /\ s.then = "store" => s.kind = "report"
      /\ pc'[w] = "lookup" => s.version = ReadVersion
      /\ pc'[w] \in ReaderPCs => s.since = db \/ (pc[w] \in ReaderPCs /\ s.since = r.since)
      /\ pc'[w] = "store" /\ s.kind = "exercises" => pc[w] = "build" /\ s.value = db
      /\ pc'[w] = "served" =>
           \/ /\ pc[w] = "lookup" /\ KeyOf(r) \in DOMAIN cache /\ s.value = cache[KeyOf(r)]
              /\ s.kind = r.kind /\ s.since = r.since /\ s.version = r.version
           \/ pc[w] = "store" /\ s = r
  BY <1>0, ReaderFacts
<1>2. KeyOf(r) = <<r.kind, r.version>> /\ KeyOf(r)[2] = r.version
  BY DEF KeyOf
<1>3. VersionInv'
  <2>1. \A k \in DOMAIN cache' : k[2] <= ReadVersion
    BY <1>0, <1>2 DEF VersionInv, Stores, ReaderPCs
  <2>2. Rewrites'
    BY <1>0 DEF VersionInv, Rewrites, Others, ReaderPCs
  <2> QED BY <1>0, <1>1, <2>1, <2>2 DEF VersionInv, Others
<1>4. HolderBumped' = HolderBumped
  BY <1>0 DEF HolderBumped, Others, ReaderPCs
<1>5. Recent(db)
  BY FreshIsRecent
<1>6. \A k \in DOMAIN cache : cache[k] \in Value
  BY DEF Types, SharedTypes
<1>7. r.value \in Value /\ db \in Value /\ db["journal"] \in Nat /\ r.since["journal"] \in Nat /\ r.value["journal"] \in Nat
  BY WorkerFacts
<1>8. \A v \in Workers : req[v].value \in Value
  BY WorkerFacts
<1>9. RecentInv'
  <2>1. ASSUME NEW k \in DOMAIN cache', k = <<"exercises", ReadVersion>> PROVE Recent(cache'[k])
    <3>1. CASE k \in DOMAIN cache /\ cache'[k] = cache[k]
      BY <2>1, <3>1, <1>5, <1>6 DEF RecentInv
    <3>2. CASE pc[w] = "store" /\ k = KeyOf(r) /\ cache'[k] = r.value
      <4>1. Storing(w) /\ r.version = ReadVersion
        BY <2>1, <3>2, <1>2 DEF Storing
      <4> QED BY <3>2, <4>1, <1>5, <1>7 DEF RecentInv
    <3> QED BY <1>0, <2>1, <3>1, <3>2 DEF Stores
  <2>2. ASSUME NEW v \in Workers, Storing(v)', req'[v].version = ReadVersion PROVE Recent(req'[v].value)
    <3>1. CASE v = w
      BY <2>2, <3>1, <1>1, <1>5 DEF Storing
    <3>2. CASE v # w
      BY <2>2, <3>2, <1>0, <1>5, <1>8 DEF RecentInv, Others, Storing
    <3> QED BY <3>1, <3>2
  <2> QED BY <2>1, <2>2, <1>0, <1>4 DEF RecentInv, Recent, Storing
<1>10. AnswerInv'
  <2>0. \A v \in Workers : req'[v].since["journal"] \in Nat /\ req'[v].value["journal"] \in Nat
    BY ReadStep, <1>0, WorkerFacts DEF WorkerTypes, Request, Value, Tables
  <2>1. ASSUME NEW v \in Workers, pc'[v] \in ReaderPCs PROVE req'[v].since["journal"] <= db["journal"]
    BY <2>1, <1>0, <1>1, <1>7 DEF AnswerInv, Others
  <2>2. \A v \in Workers : pc'[v] \in ReaderPCs => OneBehind(db, req'[v])
    <3>1. ASSUME NEW m \in Nat, NEW n \in Nat, m <= n PROVE n >= m - 1
      BY <3>1
    <3> QED BY <2>0, <2>1, <1>7, <3>1 DEF OneBehind
  <2>3. ASSUME NEW v \in Workers, pc'[v] = "lookup", req'[v].kind = "exercises",
               NEW k \in DOMAIN cache', k = <<"exercises", req'[v].version>>
        PROVE  OneBehind(cache'[k], req'[v])
    <3>1. CASE v = w
      <4>1. Recent(cache'[k])
        BY <2>3, <3>1, <1>0, <1>1, <1>9, <1>4 DEF RecentInv, Recent
      <4>2. cache'[k] \in Value /\ cache'[k]["journal"] \in Nat
        BY <1>0, <1>6, <1>7, <1>8 DEF Stores, Value, Tables
      <4>3. cache'[k]["journal"] >= db["journal"] - 1
        BY <4>1, <4>2, FreshIsRecent
      <4>4. s.since["journal"] <= db["journal"]
        BY <2>1, <2>3, <3>1 DEF ReaderPCs
      <4> QED BY <3>1, <4>2, <4>3, <4>4, <2>0, <1>7 DEF OneBehind
    <3>2. CASE v # w
      <4>0. pc[v] = "lookup" /\ req[v] = req'[v]
        BY <2>3, <3>2, <1>0 DEF Others
      <4>1. CASE k \in DOMAIN cache /\ cache'[k] = cache[k]
        BY <2>3, <4>0, <4>1 DEF AnswerInv
      <4>2. CASE pc[w] = "store" /\ k = KeyOf(r) /\ cache'[k] = r.value
        <5>1. Storing(w) /\ r.version = req[v].version
          BY <2>3, <4>0, <4>2, <1>2 DEF Storing
        <5> QED BY <2>3, <4>0, <4>2, <5>1 DEF AnswerInv
      <4> QED BY <2>3, <4>1, <4>2, <1>0 DEF Stores
    <3> QED BY <3>1, <3>2
  <2>4. ASSUME NEW v \in Workers, pc'[v] = "lookup", req'[v].kind = "exercises",
               NEW u \in Workers, Storing(u)', req'[u].version = req'[v].version
        PROVE  OneBehind(req'[u].value, req'[v])
    <3>1. CASE u = w
      <4>1. req'[u].value = db
        BY <2>4, <3>1, <1>1 DEF Storing
      <4> QED BY <2>2, <2>4, <4>1 DEF ReaderPCs
    <3>2. CASE u # w /\ v # w
      BY <2>4, <3>2, <1>0 DEF AnswerInv, Others, Storing
    <3>3. CASE u # w /\ v = w
      <4>0. Storing(u) /\ req[u] = req'[u] /\ req[u].version = ReadVersion
        BY <2>4, <3>3, <1>0, <1>1 DEF Others, Storing
      <4>1. Recent(req[u].value)
        BY <4>0 DEF RecentInv
      <4>2. req'[u].value["journal"] >= db["journal"] - 1
        BY <4>0, <4>1, <1>8, FreshIsRecent
      <4>3. s.since["journal"] <= db["journal"]
        BY <2>1, <2>4, <3>3 DEF ReaderPCs
      <4> QED BY <3>3, <4>2, <4>3, <2>0, <1>7 DEF OneBehind
    <3> QED BY <3>1, <3>2, <3>3
  <2>5. ASSUME NEW v \in Workers, pc'[v] \in {"store", "served"}, req'[v].kind = "exercises"
        PROVE  OneBehind(req'[v].value, req'[v])
    <3>1. CASE v # w
      BY <2>5, <3>1, <1>0 DEF AnswerInv, Others
    <3>2. CASE v = w /\ pc'[w] = "store"
      BY <2>2, <2>5, <3>2, <1>1 DEF ReaderPCs
    <3>3. CASE v = w /\ pc'[w] = "served" /\ pc[w] = "store" /\ s = r
      BY <2>5, <3>3 DEF AnswerInv
    <3>4. CASE /\ v = w /\ pc'[w] = "served"
               /\ pc[w] = "lookup" /\ KeyOf(r) \in DOMAIN cache /\ s.value = cache[KeyOf(r)]
               /\ s.kind = r.kind /\ s.since = r.since /\ s.version = r.version
      <4>1. KeyOf(r) = <<"exercises", r.version>> /\ r.kind = "exercises"
        BY <2>5, <3>4, <1>2
      <4>2. OneBehind(cache[KeyOf(r)], r)
        BY <3>4, <4>1 DEF AnswerInv
      <4> QED BY <3>4, <4>2 DEF OneBehind
    <3> QED BY <2>5, <3>1, <3>2, <3>3, <3>4, <1>1
  <2> QED BY <2>1, <2>3, <2>4, <2>5, <1>0 DEF AnswerInv
<1> QED BY <1>3, <1>9, <1>10

\* A writer's step, whatever the others do meanwhile.
LEMMA OverlapWrite ==
  ASSUME Types, LockInv, VersionInv, RecentInv, AnswerInv, Types',
         NEW w \in Workers, Write(w), ~LostBump
  PROVE  VersionInv' /\ RecentInv' /\ AnswerInv'
<1> DEFINE r == req[w]
           s == req'[w]
<1>0. WriterMove(w) /\ Others(w) /\ UNCHANGED cache
  BY Writing DEF VersionInv
<1>1. /\ pc[w] \in WriterPCs \cup {"idle"} /\ pc'[w] \in WriterPCs \cup {"idle"}
      /\ pc'[w] = "rewrite" => s.version >= 2
      /\ pc'[w] \notin ReaderPCs
  BY <1>0 DEF WriterMove, WriterPCs, ReaderPCs
<1>2. ReadVersion' = ReadVersion \/ ReadVersion' > ReadVersion
  BY <1>0 DEF WriterMove
<1>3. /\ ReadVersion \in Nat /\ ReadVersion' \in Nat /\ db["journal"] \in Nat /\ db'["journal"] \in Nat
      /\ \A k \in DOMAIN cache : k[2] \in Nat /\ k[2] <= ReadVersion /\ cache[k] \in Value
      /\ \A v \in Workers : req[v].version \in Nat /\ req[v].value \in Value
      /\ \A v \in Workers : pc[v] \in ReaderPCs => req[v].version <= ReadVersion
  <2> QED BY WorkerFacts DEF VersionInv, Types, SharedTypes, Value, Tables, ReadVersion
<1>4. db["journal"] <= db'["journal"]
  BY <1>0, <1>3 DEF WriterMove, Types, SharedTypes, Value, Tables
<1>5. VersionInv'
  <2>1. Rewrites'
    BY <1>0, <1>1 DEF VersionInv, Rewrites, Others
  <2>2. \A k \in DOMAIN cache' : k[2] <= ReadVersion'
    BY <1>0, <1>2, <1>3
  <2>3. ASSUME NEW v \in Workers, pc'[v] \in ReaderPCs
        PROVE  /\ req'[v].version <= ReadVersion'
               /\ pc'[v] \in {"version", "init"} /\ req'[v].then = "store" => req'[v].kind = "report"
    <3>1. v # w /\ pc'[v] = pc[v] /\ req'[v] = req[v]
      BY <2>3, <1>0, <1>1 DEF Others
    <3> QED BY <2>3, <3>1, <1>2, <1>3 DEF VersionInv
  <2> QED BY <2>1, <2>2, <2>3 DEF VersionInv, ReaderPCs
<1>6. RecentInv'
  <2>1. CASE ReadVersion' > ReadVersion
    <3>1. \A k \in DOMAIN cache' : k # <<"exercises", ReadVersion'>>
      BY <2>1, <1>0, <1>3
    <3>2. ASSUME NEW v \in Workers, Storing(v)' PROVE req'[v].version # ReadVersion'
      BY <2>1, <3>2, <1>0, <1>1, <1>3 DEF Others, Storing, ReaderPCs
    <3> QED BY <3>1, <3>2 DEF RecentInv
  <2>2. CASE ReadVersion' = ReadVersion
    <3>1. \A x \in Value : Recent(x) => Recent(x)'
      <4>1. CASE db' = db /\ (HolderBumped' => HolderBumped)
        BY <4>1, <1>3 DEF Recent, Value, Tables
      <4>2. CASE db'["journal"] = db["journal"] /\ (HolderBumped' = HolderBumped)
        BY <4>2 DEF Recent
      <4>3. CASE /\ HolderBumped /\ ~HolderBumped'
                 /\ db'["journal"] = db["journal"] \/ db'["journal"] = db["journal"] + 1
        BY <4>3, <1>3 DEF Recent, Value, Tables
      <4>4. CASE pc'[w] # "idle"
        <5>1. db' = db /\ pc'[w] # "bumped"
          BY <1>0, <2>2, <4>4, <1>3 DEF WriterMove
        <5>2. \A v \in Workers \ {w} : lock' = v => lock = v
          BY <1>0, <2>2, <4>4 DEF WriterMove
        <5>3. HolderBumped' => HolderBumped
          BY <1>0, <5>1, <5>2 DEF HolderBumped, Others
        <5> QED BY <4>1, <5>1, <5>3
      <4>5. CASE pc'[w] = "idle"
        <5>1. /\ pc[w] = "bumped" /\ lock' = (IF lock = w THEN NoWorker ELSE lock)
              /\ db' = db \/ db' = [db EXCEPT ![r.kind] = @ + 1]
          BY <1>0, <4>5 DEF WriterMove
        <5>2. CASE lock = w
          <6>1. HolderBumped /\ ~HolderBumped'
            BY <5>1, <5>2, NoWorkerAssumption DEF HolderBumped
          <6>2. db'["journal"] = db["journal"] \/ db'["journal"] = db["journal"] + 1
            BY <5>1, <1>3 DEF Types, SharedTypes, Value, Tables
          <6> QED BY <4>3, <6>1, <6>2
        <5>3. CASE lock # w
          <6>1. r.kind # "journal"
            BY <5>1, <5>3 DEF LockInv, WriterPCs
          <6>2. db'["journal"] = db["journal"]
            BY <5>1, <6>1, <1>3 DEF Types, SharedTypes, Value, Tables
          <6>3. HolderBumped' = HolderBumped
            BY <1>0, <4>5, <5>1, <5>3 DEF HolderBumped, Others
          <6> QED BY <4>2, <6>2, <6>3
        <5> QED BY <5>2, <5>3
      <4> QED BY <4>4, <4>5
    <3>2. ASSUME NEW v \in Workers, Storing(v)' PROVE Storing(v) /\ req'[v] = req[v]
      BY <3>2, <1>0, <1>1 DEF Others, Storing, ReaderPCs
    <3>3. ASSUME NEW k \in DOMAIN cache', k = <<"exercises", ReadVersion'>> PROVE Recent(cache[k])'
      <4>1. k \in DOMAIN cache /\ k = <<"exercises", ReadVersion>> /\ cache'[k] = cache[k]
        BY <3>3, <2>2, <1>0
      <4>2. Recent(cache[k])
        BY <4>1 DEF RecentInv
      <4> DEFINE x == cache[k]
      <4>3. x \in Value /\ Recent(x)
        BY <4>1, <4>2, <1>3
      <4> QED BY <4>1, <4>3, <3>1 DEF Recent
    <3>4. ASSUME NEW v \in Workers, Storing(v)', req'[v].version = ReadVersion' PROVE Recent(req[v].value)'
      <4>1. Storing(v) /\ req'[v] = req[v] /\ req[v].version = ReadVersion
        BY <3>4, <3>2, <2>2
      <4>2. Recent(req[v].value) /\ req[v].value \in Value
        BY <4>1, <1>3 DEF RecentInv
      <4> QED BY <4>1, <4>2, <3>1 DEF Recent
    <3> QED BY <3>3, <3>4 DEF RecentInv
  <2> QED BY <2>1, <2>2, <1>2
<1>7. AnswerInv'
  <2>1. \A v \in Workers : pc'[v] \in ReaderPCs => pc[v] = pc'[v] /\ req[v] = req'[v]
    BY <1>0, <1>1 DEF Others
  <2>2. \A v \in Workers : pc'[v] \in ReaderPCs => req'[v].since["journal"] <= db'["journal"]
    <3>1. \A v \in Workers : req[v].since["journal"] \in Nat
      BY WorkerFacts
    <3> QED BY <2>1, <3>1, <1>3, <1>4 DEF AnswerInv
  <2> QED BY <2>1, <2>2, <1>0 DEF AnswerInv, Storing, ReaderPCs
<1> QED BY <1>5, <1>6, <1>7

\* Whatever fails, the company row lock is with the writer of the journal.
LEMMA LockStep == ASSUME Types, LockInv, [Next]_vars PROVE LockInv'
<1>1. ASSUME NEW w \in Workers, Read(w) PROVE LockInv'
  <2>1. UNCHANGED lock /\ pc[w] \notin WriterPCs
    BY <1>1 DEF Read, StartRead, GetVersion, InitVersion, Lookup, Build, Store, Reply, WriterPCs
  <2>2. pc'[w] \notin WriterPCs /\ Others(w)
    <3>1. req[w].then \in {"lookup", "store"} /\ AfterBuild(req[w]) \in {"version", "store"}
      BY WorkerFacts DEF AfterBuild
    <3> QED BY <1>1, <3>1, ReadStep DEF ReadEffect, WriterPCs
  <2> QED BY <2>1, <2>2 DEF LockInv, Others
<1>2. ASSUME NEW w \in Workers, Write(w) PROVE LockInv'
  <2> DEFINE r == req[w]
             s == req'[w]
  <2>0. Others(w) /\ WriteEffect(w) /\ WorkerTypes /\ lock \in Workers \cup {NoWorker}
    BY <1>2, WriteStep DEF Types, SharedTypes
  <2>1. CASE StartWrite(w) /\ pc'[w] = "add" /\ s.kind \in Tables
             /\ IF s.kind = "journal" THEN lock = NoWorker /\ lock' = w ELSE lock' = lock
    BY <2>0, <2>1, NoWorkerAssumption DEF StartWrite, LockInv, Others, WriterPCs
  <2>2. CASE pc[w] \in WriterPCs /\ pc'[w] \in WriterPCs /\ s.kind = r.kind /\ UNCHANGED lock
    BY <2>0, <2>2 DEF LockInv, Others
  <2>3. CASE Commit(w) \/ Rollback(w)
    <3>1. pc[w] = "bumped" /\ lock' = (IF lock = w THEN NoWorker ELSE lock) /\ pc'[w] = "idle"
      BY <2>0, <2>3 DEF Commit, Rollback, EndWrite, Goto, WorkerTypes
    <3> QED BY <2>0, <3>1, NoWorkerAssumption DEF LockInv, Others, WriterPCs
  <2>4. ~StartWrite(w) /\ ~Commit(w) /\ ~Rollback(w) =>
          pc[w] \in WriterPCs /\ pc'[w] \in WriterPCs /\ s.kind = r.kind /\ UNCHANGED lock
    BY <2>0 DEF WriteEffect, BumpAdd, BumpIncr, BumpRead, BumpSet, WriteAnother, WriterPCs
  <2>5. StartWrite(w) => pc'[w] = "add" /\ s.kind \in Tables
             /\ IF s.kind = "journal" THEN lock = NoWorker /\ lock' = w ELSE lock' = lock
    <3>1. ASSUME StartWrite(w) PROVE pc[w] = "idle" /\ pc'[w] = "add"
      BY <3>1, <2>0 DEF StartWrite, Goto, WorkerTypes
    <3> QED BY <3>1, <2>0 DEF WriteEffect, BumpAdd, BumpIncr, BumpRead, BumpSet, WriteAnother, Commit, Rollback
  <2> HIDE DEF r, s
  <2> QED BY <2>1, <2>2, <2>3, <2>4, <2>5
<1>3. CASE Expire
  BY <1>3 DEF Expire, LockInv
<1>4. CASE UNCHANGED vars
  BY <1>4 DEF vars, LockInv
<1> QED BY <1>1, <1>2, <1>3, <1>4 DEF Next

\* What holds as long as no bump was lost, no version went back and none was guessed.
OverlapInv == LockInv /\ (intact => VersionInv /\ RecentInv /\ AnswerInv)

\* What the flag asks of a step.
LEMMA IntactStep ==
  ASSUME Types, Next, intact'
  PROVE  intact /\ version' >= version /\ ~LostBump /\ ~GuessedVersion
BY DEF Next, Track, Types, SharedTypes

\* Any step keeps it.
LEMMA OverlapStep == ASSUME Types, OverlapInv, [Next]_vars PROVE OverlapInv'
<1>1. LockInv'
  BY LockStep DEF OverlapInv
<1>2. CASE UNCHANGED vars
  BY <1>1, <1>2 DEF vars, OverlapInv, VersionInv, RecentInv, AnswerInv, Rewrites, ReadVersion, Recent,
     HolderBumped, Storing, OneBehind
<1>3. CASE Next
  <2> SUFFICES ASSUME intact' PROVE VersionInv' /\ RecentInv' /\ AnswerInv'
    BY <1>1 DEF OverlapInv
  <2>1. intact /\ version' >= version /\ ~LostBump /\ ~GuessedVersion
    BY <1>3, IntactStep
  <2>2. LockInv /\ VersionInv /\ RecentInv /\ AnswerInv /\ Types'
    BY <2>1, TypesStep DEF OverlapInv
  <2>3. CASE Expire
    <3>1. /\ ReadVersion' = ReadVersion /\ UNCHANGED <<db, lock, pc, req>>
          /\ \A k \in DOMAIN cache' : k \in DOMAIN cache /\ cache'[k] = cache[k]
      BY <2>1, <2>3, Expiring
    <3>2. VersionInv'
      BY <2>2, <3>1 DEF VersionInv, Rewrites
    <3>3. RecentInv'
      BY <2>2, <3>1 DEF RecentInv, Recent, HolderBumped, Storing
    <3>4. AnswerInv'
      BY <2>2, <3>1 DEF AnswerInv, Storing, OneBehind
    <3> QED BY <3>2, <3>3, <3>4
  <2>4. ASSUME NEW w \in Workers, Read(w) PROVE VersionInv' /\ RecentInv' /\ AnswerInv'
    BY <2>1, <2>2, <2>4, OverlapRead
  <2>5. ASSUME NEW w \in Workers, Write(w) PROVE VersionInv' /\ RecentInv' /\ AnswerInv'
    BY <2>1, <2>2, <2>5, OverlapWrite
  <2> QED BY <1>3, <2>3, <2>4, <2>5 DEF Next
<1> QED BY <1>2, <1>3

\* An empty cache and idle workers satisfy it.
LEMMA OverlapInitially == Init => OverlapInv
<1> SUFFICES ASSUME Init PROVE OverlapInv
  OBVIOUS
<1>1. lock = NoWorker /\ DOMAIN cache = {} /\ \A w \in Workers : pc[w] = "idle"
  BY DEF Init
<1>2. LockInv
  BY <1>1, NoWorkerAssumption DEF LockInv, WriterPCs
<1>3. VersionInv /\ RecentInv /\ AnswerInv
  BY <1>1 DEF VersionInv, Rewrites, RecentInv, AnswerInv, Storing, ReaderPCs
<1> QED BY <1>2, <1>3 DEF OverlapInv

\* What is cached under the version that readers find is never much behind the tables.
LEMMA OverlapIsInvariant == Spec => [](Types /\ OverlapInv)
<1>1. Types /\ OverlapInv /\ [Next]_vars => OverlapInv'
  BY OverlapStep
<1> QED BY <1>1, OverlapInitially, TypesAreInvariant, PTL DEF Spec

\* list_logical_exercises against any number of readers and of writers, who bump before they commit
\* and hold the company row lock when they write to the journal: whatever calls fail, a list of
\* exercises misses at most one of the commits made before it was asked for, unless a bump was lost,
\* the version went back, or a reader took a version it could not read to be 1.
THEOREM ExercisesAtMostOneBehind == Spec => []ExercisesOneBehind
<1>1. OverlapInv => ExercisesOneBehind
  BY DEF OverlapInv, AnswerInv, ExercisesOneBehind, OneBehind
<1> QED BY <1>1, OverlapIsInvariant, PTL

(***************************************************************************)
(* Requests that do not overlap with a write, and a cache that may fail.   *)
(***************************************************************************)

\* A writer is alone, and nothing is cached under the version that it has bumped to.
WriterAlone ==
  \A w \in Workers : pc[w] \in WriterPCs =>
    /\ \A v \in Workers \ {w} : Idle(v)
    /\ pc[w] = "bumped" => \A k \in DOMAIN cache : k[2] # ReadVersion

\* While nobody writes, what is cached under the version that readers find covers the commits.
CacheCovers ==
  (\A w \in Workers : pc[w] \notin WriterPCs) =>
    \A k \in DOMAIN cache : k[2] = ReadVersion => Covers(k[1], cache[k], db)

\* A reader looks up and stores under that version, and stores what is committed.
ReaderCovers ==
  \A w \in Workers :
    /\ pc[w] \in ReaderPCs => req[w].since = db
    /\ pc[w] \in {"lookup", "build", "store"} => req[w].version = ReadVersion
    /\ pc[w] \in {"version", "init"} /\ req[w].then = "store" => req[w].value = db
    /\ pc[w] = "store" => req[w].value = db
    /\ pc[w] = "served" => Covers(req[w].kind, req[w].value, db)

ApartInv == intact /\ apart => WriterAlone /\ CacheCovers /\ ReaderCovers

\* An answer that is what is committed covers it.
LEMMA CoversItself == \A kind : \A x \in Value : Covers(kind, x, x)
BY DEF Covers, Value, Tables

\* A reader that no writer meets stores what covers the commits, unless it guessed the version.
LEMMA ApartRead ==
  ASSUME Types, Types', WriterAlone, CacheCovers, ReaderCovers, NEW w \in Workers, Read(w), ~GuessedVersion, ~Met'
  PROVE  WriterAlone' /\ CacheCovers' /\ ReaderCovers'
<1> DEFINE r == req[w]
           s == req'[w]
<1>0. /\ ReaderMove(w) /\ Others(w) /\ Stores(w)
      /\ ReadVersion' = ReadVersion /\ UNCHANGED <<db, lock>>
      /\ pc[w] \in ReaderPCs \cup {"idle"} /\ pc'[w] \in ReaderPCs \cup {"idle"}
  BY Reading
<1>1. /\ r \in Request /\ db \in Value /\ ReadVersion \in Nat /\ r.then \in {"lookup", "store"}
      /\ KeyOf(r) \in DOMAIN cache => cache[KeyOf(r)] \in Value
      /\ KeyOf(r)[1] = r.kind /\ KeyOf(r)[2] = r.version
  BY WorkerFacts DEF KeyOf
<1>2. \A v \in Workers : pc[v] \notin WriterPCs /\ pc'[v] \notin WriterPCs
  <2>1. ASSUME NEW v \in Workers, pc[v] \in WriterPCs PROVE FALSE
    <3>1. v # w /\ pc[w] = "idle"
      BY <2>1, <1>0 DEF WriterAlone, Idle, ReaderPCs, WriterPCs
    <3>2. pc'[w] # "idle"
      BY <3>1, <1>0 DEF ReaderMove
    <3>3. pc'[v] \in WriterPCs /\ req'[v].kind \in Tables
      BY <2>1, <3>1, <1>0 DEF Others, Types, KindsFit
    <3> QED BY <3>1, <3>2, <3>3 DEF Met, Idle
  <2>2. pc'[w] \notin WriterPCs
    BY <1>0 DEF ReaderPCs, WriterPCs
  <2> QED BY <2>1, <2>2, <1>0 DEF Others
<1>3. CacheCovers'
  <2>1. ASSUME NEW k \in DOMAIN cache', k[2] = ReadVersion PROVE Covers(k[1], cache'[k], db)
    <3>1. CASE k \in DOMAIN cache /\ cache'[k] = cache[k]
      BY <2>1, <3>1, <1>2 DEF CacheCovers
    <3>2. CASE pc[w] = "store" /\ k = KeyOf(r) /\ cache'[k] = r.value
      <4>1. r.value = db
        BY <3>2 DEF ReaderCovers
      <4> QED BY <3>2, <4>1, <1>1, CoversItself
    <3> QED BY <2>1, <3>1, <3>2, <1>0 DEF Stores
  <2> QED BY <2>1, <1>0 DEF CacheCovers, Covers
<1>4. ReaderCovers'
  <2>0. /\ pc[w] \in ReaderPCs => r.since = db
        /\ pc[w] \in {"lookup", "build", "store"} => r.version = ReadVersion
        /\ pc[w] \in {"version", "init"} /\ r.then = "store" => r.value = db
        /\ pc[w] = "store" => r.value = db
    BY DEF ReaderCovers
  <2>1. SUFFICES /\ pc'[w] \in ReaderPCs => s.since = db
                 /\ pc'[w] \in {"lookup", "build", "store"} => s.version = ReadVersion
                 /\ pc'[w] \in {"version", "init"} /\ s.then = "store" => s.value = db
                 /\ pc'[w] = "store" => s.value = db
                 /\ pc'[w] = "served" => Covers(s.kind, s.value, db)
    BY <1>0 DEF ReaderCovers, Others, Covers
  <2>2. CASE /\ pc[w] = "idle" /\ pc'[w] = "version"
             /\ s.version = 0 /\ s.then = "lookup" /\ s.since = db
    BY <2>2
  <2>3. CASE pc[w] = "version" /\ pc'[w] = "init" /\ s = r
    BY <2>0, <2>3 DEF ReaderPCs
  <2>4. CASE /\ pc[w] \in {"version", "init"} /\ pc'[w] = r.then /\ s = [r EXCEPT !.version = ReadVersion]
    <3>1. s.version = ReadVersion /\ s.value = r.value /\ s.since = r.since /\ s.kind = r.kind
      BY <2>4, <1>1, RequestKeeps
    <3> QED BY <2>0, <2>4, <3>1, <1>1 DEF ReaderPCs
  <2>5. CASE /\ pc[w] = "lookup" /\ pc'[w] = "served" /\ KeyOf(r) \in DOMAIN cache
             /\ s = [r EXCEPT !.value = cache[KeyOf(r)]]
    <3>1. s.value = cache[KeyOf(r)] /\ s.since = r.since /\ s.kind = r.kind
      BY <2>5, <1>1, RequestKeeps
    <3>2. Covers(r.kind, cache[KeyOf(r)], db)
      BY <2>0, <2>5, <1>1, <1>2 DEF CacheCovers
    <3> QED BY <2>0, <2>5, <3>1, <3>2 DEF ReaderPCs
  <2>6. CASE pc[w] = "lookup" /\ pc'[w] = "build" /\ s = r
    BY <2>0, <2>6 DEF ReaderPCs
  <2>7. CASE pc[w] = "build" /\ pc'[w] = AfterBuild(r) /\ s = [r EXCEPT !.value = db, !.then = "store"]
    <3>1. s.value = db /\ s.since = r.since /\ s.kind = r.kind /\ s.version = r.version
      BY <2>7, <1>1, RequestKeeps
    <3>2. pc'[w] \in {"version", "store"}
      BY <2>7 DEF AfterBuild
    <3> QED BY <2>0, <2>7, <3>1, <3>2 DEF ReaderPCs
  <2>8. CASE pc[w] = "store" /\ pc'[w] = "served" /\ s = r
    BY <2>0, <2>8, <1>1, CoversItself DEF ReaderPCs
  <2>9. CASE pc[w] = "served" /\ pc'[w] = "idle"
    BY <2>9 DEF ReaderPCs
  <2> HIDE DEF r, s
  <2> QED BY <2>2, <2>3, <2>4, <2>5, <2>6, <2>7, <2>8, <2>9, <1>0 DEF ReaderMove, r, s
<1> QED BY <1>2, <1>3, <1>4 DEF WriterAlone

\* A writer that meets nobody leaves nothing cached under the version that it bumps to.
LEMMA ApartWrite ==
  ASSUME Types, Types', VersionInv, WriterAlone, CacheCovers, ReaderCovers,
         NEW w \in Workers, Write(w), ~LostBump, ~Met'
  PROVE  WriterAlone' /\ CacheCovers' /\ ReaderCovers'
<1>0. WriterMove(w) /\ Others(w) /\ UNCHANGED cache
  BY Writing DEF VersionInv
<1>1. pc[w] \in WriterPCs \cup {"idle"} /\ pc'[w] \in WriterPCs \cup {"idle"} /\ pc'[w] \notin ReaderPCs
  BY <1>0 DEF WriterMove, WriterPCs, ReaderPCs
<1>2. \A v \in Workers \ {w} : pc'[v] = "idle" /\ pc[v] = "idle"
  <2>1. CASE pc'[w] = "idle"
    <3>1. pc[w] \in WriterPCs
      BY <2>1, <1>0 DEF WriterMove, WriterPCs
    <3> QED BY <3>1, <1>0 DEF WriterAlone, Others, Idle
  <2>2. CASE pc'[w] # "idle"
    <3>1. req'[w].kind \in Tables
      BY <2>2, <1>1 DEF Types, KindsFit
    <3> QED BY <3>1, <1>0 DEF Met, Idle, Others
  <2> QED BY <2>1, <2>2
<1>3. /\ ReadVersion \in Nat /\ ReadVersion' \in Nat
      /\ \A k \in DOMAIN cache : k[2] \in Nat /\ k[2] <= ReadVersion
  BY WorkerFacts DEF VersionInv, Types, SharedTypes, ReadVersion
<1>4. pc'[w] = "bumped" => \A k \in DOMAIN cache : k[2] # ReadVersion'
  BY <1>0, <1>3 DEF WriterMove
<1>5. WriterAlone'
  BY <1>0, <1>2, <1>4 DEF WriterAlone, Idle, WriterPCs
<1>6. CacheCovers'
  <2>1. pc'[w] = "idle" => \A k \in DOMAIN cache' : k[2] # ReadVersion'
    BY <1>0, <1>3 DEF WriterMove, WriterAlone, WriterPCs
  <2> QED BY <1>1, <2>1 DEF CacheCovers
<1>7. ReaderCovers'
  BY <1>1, <1>2 DEF ReaderCovers, ReaderPCs
<1> QED BY <1>5, <1>6, <1>7

\* As long as no write meets a request, every step keeps what is cached complete; and a write that
\* begins alone repairs what was stale.
LEMMA ApartStep ==
  ASSUME Types, OverlapInv, ApartInv, [Next]_vars
  PROVE  ApartInv'
<1>1. CASE UNCHANGED vars
  BY <1>1 DEF vars, ApartInv, WriterAlone, CacheCovers, ReaderCovers, ReadVersion, Idle, Covers
<1>2. CASE Next
  <2> SUFFICES ASSUME intact', apart' PROVE WriterAlone' /\ CacheCovers' /\ ReaderCovers'
    BY DEF ApartInv
  <2>1. intact /\ version' >= version /\ ~LostBump /\ ~GuessedVersion
    BY <1>2, IntactStep
  <2>2. Types' /\ VersionInv
    BY <2>1, TypesStep DEF OverlapInv
  <2>3. CASE BeginsAlone
    <3>1. PICK w \in Workers : StartWrite(w) /\ \A v \in Workers \ {w} : Idle(v)
      BY <2>3 DEF BeginsAlone
    <3>2. pc'[w] = "add" /\ \A v \in Workers \ {w} : pc'[v] = "idle"
      BY <3>1 DEF StartWrite, Goto, Idle, Types, WorkerTypes
    <3> QED BY <3>2 DEF WriterAlone, CacheCovers, ReaderCovers, Idle, WriterPCs, ReaderPCs
  <2>4. CASE apart /\ ~Met'
    <3>1. WriterAlone /\ CacheCovers /\ ReaderCovers
      BY <2>1, <2>4 DEF ApartInv
    <3>2. CASE Expire
      <4>1. /\ ReadVersion' = ReadVersion /\ UNCHANGED <<db, lock, pc, req>>
            /\ \A k \in DOMAIN cache' : k \in DOMAIN cache /\ cache'[k] = cache[k]
        BY <2>1, <3>2, Expiring
      <4> QED BY <3>1, <4>1 DEF WriterAlone, CacheCovers, ReaderCovers, Idle, Covers
    <3>3. ASSUME NEW w \in Workers, Read(w) PROVE WriterAlone' /\ CacheCovers' /\ ReaderCovers'
      BY <2>1, <2>2, <2>4, <3>1, <3>3, ApartRead
    <3>4. ASSUME NEW w \in Workers, Write(w) PROVE WriterAlone' /\ CacheCovers' /\ ReaderCovers'
      BY <2>1, <2>2, <2>4, <3>1, <3>4, ApartWrite
    <3> QED BY <1>2, <3>2, <3>3, <3>4 DEF Next
  <2>5. BeginsAlone \/ (apart /\ ~Met')
    BY <1>2 DEF Next, Track, Types, SharedTypes
  <2> QED BY <2>3, <2>4, <2>5
<1> QED BY <1>1, <1>2

\* The safe_* wrappers, _bump_version and _get_or_init_version: as long as no write overlaps with
\* another request, whatever calls fail and whatever keys expire, an answer contains every write
\* committed before it was asked for, unless a bump was lost, the version went back, or a reader
\* took a version it could not read to be 1.  A write that is alone makes this hold again.
THEOREM ReadsSurviveFailures == Spec => []ReadsUnlessInvalidationLost
<1>1. Init => ApartInv
  <2> SUFFICES ASSUME Init PROVE ApartInv
    OBVIOUS
  <2>1. DOMAIN cache = {} /\ \A w \in Workers : pc[w] = "idle"
    BY DEF Init
  <2> QED BY <2>1 DEF ApartInv, WriterAlone, CacheCovers, ReaderCovers, Idle, ReaderPCs, WriterPCs
<1>2. Types /\ OverlapInv /\ ApartInv /\ [Next]_vars => ApartInv'
  BY ApartStep
<1>3. ApartInv => ReadsUnlessInvalidationLost
  BY DEF ApartInv, ReadsUnlessInvalidationLost, ReadsCommitted, ReaderCovers, ReaderPCs
<1> QED BY <1>1, <1>2, <1>3, OverlapIsInvariant, PTL DEF Spec

=============================================================================
