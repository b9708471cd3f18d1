------------------------- MODULE RegistrationProofs -------------------------
(***************************************************************************)
(* Proofs about Registration, for any workers, limits, windows, timeouts   *)
(* and bounds.                                                             *)
(***************************************************************************)
EXTENDS Registration, WellFoundedInduction, TLAPS

(***************************************************************************)
(* Types.                                                                  *)
(***************************************************************************)

PCs == {"idle", "blocked", "add", "incr_new", "incr", "reread", "set", "register", "config",
        "load", "create", "save", "clear", "store", "use", "save_user", "block", "saved",
        "unblock"}

Key == {NoKey, <<"fail", 0>>} \cup {<<"ip", i>> : i \in Nat}
         \cup {<<"user", u, i>> : u \in Usernames \cup {NoCode}, i \in Nat}

Request ==
  [kind : {"none", "register", "show", "rotate"}, start : Nat, since : Nat, at : Nat,
   user : Usernames \cup {NoCode}, code : (Nat \X Nat) \cup {NoCode}, key : Key, n : Nat,
   salt : Nat, row : Nat, rotated : BOOLEAN]

Entry == [value : Nat, until : Nat]

\* What the rows and the cached config are, and what the workers hold.
ConfigTypes ==
  /\ now \in Nat /\ salts \in Nat
  /\ rows \in Seq(Nat)
  /\ cached \in Entry
  /\ shown \subseteq Nat \X Nat
  /\ raced \in BOOLEAN

LimitTypes ==
  /\ \A k \in DOMAIN counters : counters[k] \in Entry
  /\ blocked \in Nat /\ sentence \in Nat
  /\ admitted \in [0..MaxTime -> Nat]
  /\ degraded \in BOOLEAN /\ lapsed \in BOOLEAN /\ spared \in BOOLEAN

WorkerTypes == pc \in [Workers -> PCs] /\ req \in [Workers -> Request]

Types == ConfigTypes /\ LimitTypes /\ WorkerTypes

\* \div as the code's // on natural numbers.
LEMMA DivBounds ==
  ASSUME NEW a \in Nat, NEW d \in Nat \ {0}
  PROVE  a \div d \in Nat /\ (a \div d) * d <= a /\ a < (a \div d) * d + d
OBVIOUS

\* The fresh request and the empty keys are well typed.
LEMMA IdleType == Idle \in Request /\ Null \in Entry
BY DEF Idle, Request, Key, NoKey, Null, Entry

\* A worker that goes on at a label with a request: nobody else moves.
LEMMA GotoWithStep ==
  ASSUME WorkerTypes, NEW w \in Workers, NEW label \in PCs, NEW r \in Request, GotoWith(w, label, r)
  PROVE  /\ WorkerTypes'
         /\ pc'[w] = label /\ req'[w] = r
         /\ \A v \in Workers \ {w} : pc'[v] = pc[v] /\ req'[v] = req[v]
BY DEF GotoWith, WorkerTypes

\* A worker that goes on with the same request leaves the others where they are.
LEMMA GotoStep ==
  ASSUME WorkerTypes, NEW w \in Workers, NEW label \in PCs, Goto(w, label)
  PROVE  /\ WorkerTypes'
         /\ pc'[w] = label /\ req'[w] = req[w]
         /\ \A v \in Workers \ {w} : pc'[v] = pc[v] /\ req'[v] = req[v]
BY DEF Goto, WorkerTypes

(***************************************************************************)
(* The inductive invariant.                                                *)
(***************************************************************************)

\* No request outlives its timeout: gunicorn kills it before the clock goes on.
TimeInv ==
  \A w \in Workers : pc[w] # "idle" =>
    req[w].start <= now /\ now <= req[w].start + RequestTimeout

\* The request has read its salt from the table, or put it there, and has used it for
\* nothing else yet.
FromTable(w) == pc[w] = "store" \/ (pc[w] = "clear" /\ ~req[w].rotated)

\* Salts are drawn once; a salt that was replaced is in no row any more.
RowsInv ==
  /\ DOMAIN retired \subseteq 1..salts
  /\ \A s \in DOMAIN retired : retired[s] \in 0..now
  /\ \A i \in DOMAIN rows : rows[i] \in (1..salts) \ DOMAIN retired
  /\ \A i, j \in DOMAIN rows : rows[i] = rows[j] => i = j
  /\ \A w \in Workers : pc[w] = "save" \/ FromTable(w) => req[w].row \in DOMAIN rows

\* A replaced salt is held by requests that started before, or is in the cache since one of
\* them stored it.
RetiredInv ==
  /\ cached # Null =>
       /\ now < cached.until /\ cached.until <= now + ConfigTimeout
       /\ cached.value \in DOMAIN retired
            => cached.until <= retired[cached.value] + RequestTimeout + ConfigTimeout
  /\ \A w \in Workers : req[w].salt \in DOMAIN retired =>
       /\ FromTable(w) => req[w].start <= retired[req[w].salt]
       /\ pc[w] \in {"use", "save_user"}
            => req[w].start <= retired[req[w].salt] + RequestTimeout + ConfigTimeout

\* What a request that arrived has seen is not newer than the first row.
SinceInv ==
  \A w \in Workers : pc[w] # "idle" =>
    req[w].since <= Current /\ req[w].code \in shown \cup {NoCode}

\* Without a race the cached config is the first row, unless a rotation or a creation is about
\* to delete it.
CacheCurrent ==
  cached # Null =>
    /\ cached.value \in 1..Current
    /\ cached.value = Current \/ \E v \in Workers : pc[v] = "clear"
    /\ \A w \in Workers : pc[w] # "idle" => req[w].since <= cached.value
    /\ \A w \in Workers : pc[w] = "use" => req[w].salt <= cached.value
    /\ \A code \in shown : code[1] <= cached.value

\* Without a race no code is shown, and no request checks one, with a salt that is newer than
\* the first row or older than what the request has seen.
SaltsCurrent ==
  /\ \A code \in shown : code[1] <= Current
  /\ \A w \in Workers :
       /\ FromTable(w) => req[w].salt > 0
       /\ pc[w] = "use" => req[w].salt <= Current
       /\ FromTable(w) \/ pc[w] \in {"use", "save_user"} =>
            /\ req[w].since <= req[w].salt
            /\ req[w].code \in shown => req[w].code[1] <= req[w].salt

RaceInv == ~raced => CacheCurrent /\ SaltsCurrent

\* The ticks of window i of the attempts.
WindowStart(i) == i * REGISTER_WINDOW
WindowEnd(i) == WindowStart(i) + REGISTER_WINDOW

CounterPCs == {"add", "incr_new", "incr", "reread", "set"}

\* An attempt is counted in the window that its request has read off the clock.
WindowInv ==
  \A w \in Workers : \A i \in Nat : (pc[w] \in CounterPCs /\ req[w].key = <<"ip", i>>) =>
    /\ req[w].start <= req[w].at /\ req[w].at <= now
    /\ WindowStart(i) <= req[w].at /\ req[w].at < WindowEnd(i)

\* How many counters can have lived and expired from the start of window i to time t.
Lives(i, t) == (t - WindowStart(i)) \div (REGISTER_WINDOW + 1)

\* How many attempts that many counters let pass.
Passed(n) == REGISTER_IP_LIMIT * n

\* When a counter of an address was created.
Birth(c) == c.until - (REGISTER_WINDOW + 1)

\* The counter c of window i, which lives, has counted the attempts that passed and that no
\* expired one has.
Covered(i, c, passed) ==
  /\ passed <= Passed(Lives(i, Birth(c))) + c.value
  /\ passed <= Passed(Lives(i, Birth(c)) + 1)

\* At time t window i has no counter, and the expired ones let the attempts pass.
Uncovered(i, t, passed) ==
  passed = 0 \/ (WindowStart(i) <= t /\ passed <= Passed(Lives(i, t)))

\* A counter of window i is created while a request of that window is served.
InTime(i, t) == WindowStart(i) <= t /\ t <= WindowEnd(i) - 1 + RequestTimeout

CountInv ==
  /\ \A i \in 0..MaxTime :
       /\ <<"ip", i>> \in DOMAIN counters => Covered(i, counters[<<"ip", i>>], admitted[i])
       /\ <<"ip", i>> \notin DOMAIN counters => Uncovered(i, now, admitted[i])
       /\ admitted[i] <= Passed(CountersOfAWindow)
  /\ \A i \in Nat : <<"ip", i>> \in DOMAIN counters => InTime(i, Birth(counters[<<"ip", i>>]))
  /\ \A w \in Workers : \A i \in Nat : req[w].key = <<"ip", i>> => pc[w] \notin {"reread", "set"}

\* As long as the cache answers and no counter expires within an attempt.
LimitInv == ~degraded /\ ~lapsed => CountInv

\* A worker that has counted the failures that the sentence is for, and not yet written its block.
Sentencing == \E v \in Workers : pc[v] = "block" /\ sentence <= req[v].at + Cooldown(req[v].n)

\* The block is as long as the sentence, or will be when a worker has written it, unless a worker
\* was killed before or a shorter block was written later.
CooldownInv == ~degraded /\ ~spared => sentence <= blocked \/ Sentencing

ConfigInv == TimeInv /\ RowsInv /\ RetiredInv /\ SinceInv /\ RaceInv

(***************************************************************************)
(* The steps of the limits.                                                *)
(***************************************************************************)

\* What the properties of the code know of a request.
KeepsReader(w) ==
  /\ req'[w].start = req[w].start /\ req'[w].since = req[w].since
  /\ req'[w].code = req[w].code /\ req'[w].salt = req[w].salt

Others(w) == \A v \in Workers \ {w} : pc'[v] = pc[v] /\ req'[v] = req[v]

\* A step that touches neither the clock nor the config: the request ends, or goes on where
\* it holds no salt, or accepts its code.
QuietPCs == PCs \ {"load", "create", "save", "clear", "store", "use"}

QuietStep(w) ==
  /\ UNCHANGED <<now, config>>
  /\ pc[w] \in PCs \ {"idle", "clear"}
  /\ pc'[w] \in QuietPCs
  /\ pc'[w] # "idle" => KeepsReader(w)
  /\ pc'[w] = "save_user" => pc[w] = "use"
  /\ Others(w)

\* What a request writes down on its way through the limits.
LEMMA RequestWrites ==
  ASSUME NEW r \in Request, NEW n \in Nat, NEW at \in Nat, NEW key \in Key
  PROVE  /\ [r EXCEPT !.n = n] \in Request
         /\ [r EXCEPT !.key = key] \in Request
         /\ [r EXCEPT !.at = at, !.key = key] \in Request
         /\ [r EXCEPT !.at = at, !.key = key, !.n = n] \in Request
BY DEF Request

\* Counting an admitted attempt keeps the type of the history.
LEMMA AdmittedType ==
  ASSUME NEW f \in [0..MaxTime -> Nat], NEW i \in Nat
  PROVE  [f EXCEPT ![i] = @ + 1] \in [0..MaxTime -> Nat]
<1>1. CASE i \in 0..MaxTime
  BY <1>1
<1>2. CASE i \notin 0..MaxTime
  BY <1>2
<1> QED BY <1>1, <1>2

\* A nonempty set of numbers up to a bound has a greatest one.
LEMMA MaxExists ==
  ASSUME NEW b \in Nat, NEW S \in SUBSET (0..b), S # {}
  PROVE  Max(S) \in S /\ \A x \in S : x <= Max(S)
<1> DEFINE T == {b - x : x \in S}
<1>1. T \subseteq Nat /\ T # {}
  <2>1. \A x \in S : b - x \in Nat
    OBVIOUS
  <2> QED BY <2>1
<1>2. PICK t \in T : \A y \in T : ~(<<y, t>> \in OpToRel(<, Nat))
  BY <1>1, WFMin, NatLessThanWellFounded
<1>3. ASSUME NEW y \in T PROVE t <= y
  <2>1. t \in Nat /\ y \in Nat
    BY <1>1
  <2>2. ~(y < t)
    BY <1>2, <2>1, Zenon DEF OpToRel
  <2> QED BY <2>1, <2>2
<1>4. PICK x \in S : t = b - x
  OBVIOUS
<1>5. \A y \in S : x >= y
  <2> TAKE y \in S
  <2>1. b - y \in T
    OBVIOUS
  <2> QED BY <2>1, <1>3, <1>4
<1>6. Max(S) \in S /\ \A y \in S : Max(S) >= y
  BY <1>5 DEF Max
<1> QED BY <1>6

\* Max of two numbers is the larger one.
LEMMA MaxOfTwo ==
  ASSUME NEW a \in Nat, NEW b \in Nat
  PROVE  Max({a, b}) \in Nat /\ Max({a, b}) = IF a < b THEN b ELSE a
<1> DEFINE m == IF a < b THEN b ELSE a
<1>1. m \in {a, b} /\ \A y \in {a, b} : m >= y
  OBVIOUS
<1>2. Max({a, b}) \in {a, b} /\ \A y \in {a, b} : Max({a, b}) >= y
  <2> HIDE DEF m
  <2> QED BY <1>1 DEF Max
<1> QED BY <1>2

\* COOLDOWN_STEPS ascend, so the last step reached is the longest: the block is what the
\* failures earned.
LEMMA CooldownLongest ==
  ASSUME NEW n \in Nat
  PROVE  Cooldown(n) \in Nat /\ Cooldown(n) = Deserved(n)
<1> DEFINE reached == {i \in DOMAIN COOLDOWN_STEPS : n >= COOLDOWN_STEPS[i][1]}
           waits == {0} \cup {COOLDOWN_STEPS[i][2] : i \in reached}
           longest == COOLDOWN_STEPS[Max(reached)][2]
<1>1. Deserved(n) = Max(waits) /\ Cooldown(n) = IF reached = {} THEN 0 ELSE longest
  BY DEF Deserved, Cooldown
<1>2. CASE reached = {}
  <2>1. waits = {0}
    BY <1>2
  <2>2. Max({0}) = 0
    BY DEF Max
  <2> HIDE DEF waits
  <2> QED BY <1>1, <1>2, <2>1, <2>2
<1>3. CASE reached # {}
  <2>1. reached \in SUBSET (0..Len(COOLDOWN_STEPS)) /\ Len(COOLDOWN_STEPS) \in Nat
    BY StepsAssumption
  <2>2. Max(reached) \in reached /\ \A i \in reached : i <= Max(reached)
    <3> HIDE DEF reached
    <3> QED BY <2>1, <1>3, MaxExists
  <2>3. \A i \in reached : COOLDOWN_STEPS[i][2] \in Nat /\ COOLDOWN_STEPS[i][2] <= longest
    BY <2>2, StepsAssumption
  <2>4. longest \in Nat
    BY <2>2, <2>3
  <2>5. longest \in waits /\ \A x \in waits : x \in Nat /\ x <= longest
    <3>1. longest \in waits
      BY <2>2
    <3>2. ASSUME NEW x \in waits PROVE x \in Nat /\ x <= longest
      <4>1. CASE x = 0
        <5> HIDE DEF longest
        <5> QED BY <4>1, <2>4
      <4>2. CASE x # 0
        <5>1. PICK i \in reached : x = COOLDOWN_STEPS[i][2]
          BY <4>2
        <5> QED BY <5>1, <2>3
      <4> QED BY <4>1, <4>2
    <3> QED BY <3>1, <3>2
  <2>6. Max(waits) \in waits /\ \A x \in waits : Max(waits) >= x
    <3> HIDE DEF waits, longest
    <3> QED BY <2>5, <2>4 DEF Max
  <2>7. Max(waits) = longest
    <3> DEFINE m == Max(waits)
    <3>1. m \in Nat /\ m <= longest /\ m >= longest
      BY <2>5, <2>6
    <3> HIDE DEF m, longest
    <3>2. m = longest
      BY <3>1, <2>4
    <3> QED BY <3>2 DEF m
  <2> QED BY <1>1, <1>3, <2>4, <2>7
<1> QED BY <1>2, <1>3

\* A sentence only grows, and ends no sooner than the block that the worker will write.
LEMMA SentenceType ==
  ASSUME sentence \in Nat, NEW at \in Nat, NEW n \in Nat
  PROVE  /\ Sentence(at, n) \in Nat
         /\ Cooldown(n) = 0 => Sentence(at, n) = sentence
         /\ Sentence(at, n) = sentence \/ Sentence(at, n) <= at + Cooldown(n)
<1>1. Cooldown(n) \in Nat /\ Deserved(n) = Cooldown(n) /\ at + Deserved(n) \in Nat
  BY CooldownLongest
<1>2. CASE Deserved(n) = 0
  BY <1>1, <1>2 DEF Sentence
<1>3. CASE Deserved(n) # 0
  <2> DEFINE until == at + Deserved(n)
  <2>1. Sentence(at, n) = Max({sentence, until})
    BY <1>3 DEF Sentence
  <2>2. until \in Nat /\ until = at + Cooldown(n)
    BY <1>1
  <2> HIDE DEF until
  <2>3. Max({sentence, until}) = IF sentence < until THEN until ELSE sentence
    BY <2>2, MaxOfTwo
  <2> QED BY <1>1, <1>3, <2>1, <2>2, <2>3
<1> QED BY <1>2, <1>3

\* What follows a count: the request ends or goes on, and keeps what it knows.
LEMMA CountedStep ==
  ASSUME Types, NEW w \in Workers, NEW n \in Nat, Counted(w, n)
  PROVE  /\ WorkerTypes' /\ admitted' \in [0..MaxTime -> Nat] /\ sentence' \in Nat
         /\ pc'[w] \in {"idle", "add", "register", "block"}
         /\ pc'[w] # "idle" => KeepsReader(w)
         /\ Others(w)
<1> DEFINE r == req[w]
<1>0. /\ WorkerTypes /\ r \in Request /\ admitted \in [0..MaxTime -> Nat]
      /\ sentence \in Nat /\ r.at \in Nat
  BY DEF Types, WorkerTypes, LimitTypes, Request
<1>00. sentence' \in Nat
  <2>1. sentence' = sentence \/ sentence' = Sentence(r.at, n)
    BY DEF Counted
  <2> QED BY <2>1, <1>0, SentenceType
<1> SUFFICES /\ WorkerTypes' /\ admitted' \in [0..MaxTime -> Nat]
             /\ pc'[w] \in {"idle", "add", "register", "block"}
             /\ pc'[w] # "idle" => KeepsReader(w)
             /\ Others(w)
  BY <1>00
<1>1. CASE r.key[1] = "ip"
  <2>1. PICK i \in Nat : r.key = <<"ip", i>>
    BY <1>0, <1>1 DEF Request, Key, NoKey
  <2> DEFINE s == [r EXCEPT !.key = <<"user", r.user, r.key[2]>>]
  <2>2. s \in Request /\ s.start = r.start /\ s.since = r.since /\ s.code = r.code /\ s.salt = r.salt
    <3>1. <<"user", r.user, r.key[2]>> \in Key
      BY <1>0, <2>1 DEF Request, Key
    <3> HIDE DEF r
    <3> QED BY <3>1, <1>0, RequestWrites DEF Request
  <2>3. CASE Reply(w) /\ UNCHANGED admitted
    BY <2>3, <1>0, IdleType, GotoWithStep DEF Reply, PCs, Others
  <2>4. CASE admitted' = [admitted EXCEPT ![r.key[2]] = @ + 1] /\ GotoWith(w, "add", s)
    <3>1. admitted' = [admitted EXCEPT ![i] = @ + 1]
      BY <2>1, <2>4
    <3>2. admitted' \in [0..MaxTime -> Nat]
      BY <1>0, <3>1, AdmittedType
    <3>3. WorkerTypes' /\ pc'[w] = "add" /\ KeepsReader(w) /\ Others(w)
      <4> HIDE DEF s
      <4>1. "add" \in PCs /\ s \in Request
        BY <2>2 DEF PCs
      <4>2. /\ WorkerTypes' /\ pc'[w] = "add" /\ req'[w] = s
            /\ \A v \in Workers \ {w} : pc'[v] = pc[v] /\ req'[v] = req[v]
        BY <2>4, <4>1, <1>0, GotoWithStep
      <4> QED BY <4>2, <2>2 DEF Others, KeepsReader
    <3> QED BY <3>2, <3>3
  <2> QED BY <2>3, <2>4, <1>1 DEF Counted
<1>2. CASE r.key[1] = "user"
  <2> DEFINE s == [r EXCEPT !.at = 0, !.key = NoKey, !.n = 0]
  <2>2. s \in Request /\ s.start = r.start /\ s.since = r.since /\ s.code = r.code /\ s.salt = r.salt
    <3>1. NoKey \in Key
      BY DEF Key
    <3> HIDE DEF r
    <3> QED BY <3>1, <1>0, RequestWrites DEF Request
  <2>3. CASE Reply(w) /\ UNCHANGED admitted
    BY <2>3, <1>0, IdleType, GotoWithStep DEF Reply, PCs, Others
  <2>4. CASE GotoWith(w, "register", s) /\ UNCHANGED admitted
    <3> HIDE DEF s
    <3>1. "register" \in PCs /\ s \in Request
      BY <2>2 DEF PCs
    <3>2. /\ WorkerTypes' /\ pc'[w] = "register" /\ req'[w] = s
          /\ \A v \in Workers \ {w} : pc'[v] = pc[v] /\ req'[v] = req[v]
      BY <2>4, <3>1, <1>0, GotoWithStep
    <3> QED BY <3>2, <2>2, <2>4, <1>0 DEF Others, KeepsReader
  <2> QED BY <2>3, <2>4, <1>2 DEF Counted
<1>3. CASE r.key[1] = "fail"
  <2> DEFINE s == [r EXCEPT !.n = n]
  <2>2. s \in Request /\ s.start = r.start /\ s.since = r.since /\ s.code = r.code /\ s.salt = r.salt
    <3> HIDE DEF r
    <3> QED BY <1>0, RequestWrites DEF Request
  <2>3. CASE Reply(w) /\ UNCHANGED admitted
    BY <2>3, <1>0, IdleType, GotoWithStep DEF Reply, PCs, Others
  <2>4. CASE GotoWith(w, "block", s) /\ UNCHANGED admitted
    BY <2>4, <2>2, <1>0, GotoWithStep DEF PCs, Others, KeepsReader
  <2> QED BY <2>3, <2>4, <1>3 DEF Counted
<1> QED BY <1>1, <1>2, <1>3 DEF Counted

\* A failed attempt goes on to be counted.
LEMMA FailStep ==
  ASSUME Types, NEW w \in Workers, Fail(w)
  PROVE  WorkerTypes' /\ pc'[w] = "add" /\ KeepsReader(w) /\ Others(w)
<1> DEFINE r == req[w]
           s == [r EXCEPT !.at = now, !.key = <<"fail", 0>>]
<1>1. WorkerTypes /\ r \in Request /\ now \in Nat
  BY DEF Types, WorkerTypes, ConfigTypes
<1>2. s \in Request /\ s.start = r.start /\ s.since = r.since /\ s.code = r.code /\ s.salt = r.salt
  <2>1. <<"fail", 0>> \in Key
    BY DEF Key
  <2> HIDE DEF r
  <2> QED BY <1>1, <2>1, RequestWrites DEF Request
<1> QED BY <1>1, <1>2, GotoWithStep DEF Fail, PCs, Others, KeepsReader

\* A counter that is set is an entry, and the others stay.
LEMMA SetCounterType ==
  ASSUME LimitTypes, NEW key, NEW n \in Nat, NEW until \in Nat, SetCounter(key, n, until)
  PROVE  \A k \in DOMAIN counters' : counters'[k] \in Entry
BY DEF LimitTypes, SetCounter, Entry

\* Every key of the cache has a timeout.
LEMMA TimeoutType == \A key : Timeout(key) \in Nat
BY LimitsAssumption DEF Timeout

\* The requests of a registration keep the types, and are quiet.
LEMMA RegistrationQuiet ==
  ASSUME Types, NEW w \in Workers, Registration(w)
  PROVE  Types' /\ QuietStep(w)
<1> DEFINE r == req[w]
<1>0. /\ WorkerTypes /\ r \in Request /\ pc[w] \in PCs /\ now \in Nat
      /\ LimitTypes /\ ConfigTypes
  BY DEF Types, WorkerTypes, ConfigTypes
<1>00. ASSUME UNCHANGED <<now, config>> PROVE ConfigTypes'
  BY <1>0, <1>00 DEF ConfigTypes, config
<1>01. ASSUME NEW up \in BOOLEAN, Call(up) PROVE degraded' \in BOOLEAN
  BY <1>01 DEF Call
<1>1. CASE CheckBlocked(w)
  <2>1. PICK up \in BOOLEAN :
          /\ Call(up)
          /\ \/ Reply(w)
             \/ GotoWith(w, "add", [r EXCEPT !.at = now, !.key = <<"ip", now \div REGISTER_WINDOW>>])
    BY <1>1, Zenon DEF CheckBlocked
  <2> DEFINE s == [r EXCEPT !.at = now, !.key = <<"ip", now \div REGISTER_WINDOW>>]
  <2>2. s \in Request /\ s.start = r.start /\ s.since = r.since /\ s.code = r.code /\ s.salt = r.salt
    <3>1. <<"ip", now \div REGISTER_WINDOW>> \in Key
      BY <1>0, DivBounds, LimitsAssumption DEF Key
    <3> HIDE DEF r
    <3> QED BY <3>1, <1>0, RequestWrites DEF Request
  <2>3. WorkerTypes' /\ pc'[w] \in {"idle", "add"} /\ (pc'[w] # "idle" => KeepsReader(w)) /\ Others(w)
    <3>1. CASE Reply(w)
      BY <3>1, <1>0, IdleType, GotoWithStep DEF Reply, PCs, Others
    <3>2. CASE GotoWith(w, "add", s)
      <4> HIDE DEF s
      <4>1. "add" \in PCs /\ s \in Request
        BY <2>2 DEF PCs
      <4>2. /\ WorkerTypes' /\ pc'[w] = "add" /\ req'[w] = s
            /\ \A v \in Workers \ {w} : pc'[v] = pc[v] /\ req'[v] = req[v]
        BY <3>2, <4>1, <1>0, GotoWithStep
      <4> QED BY <4>2, <2>2 DEF Others, KeepsReader
    <3> QED BY <2>1, <3>1, <3>2
  <2>4. LimitTypes'
    BY <1>1, <1>0, <2>1, <1>01 DEF CheckBlocked, LimitTypes, limits
  <2> QED BY <1>1, <1>00, <2>3, <2>4 DEF CheckBlocked, Types, QuietStep, QuietPCs, PCs
<1>2. CASE CounterAdd(w)
  <2>1. PICK up \in BOOLEAN :
          /\ Call(up)
          /\ \/ ~up /\ Counted(w, 0) /\ UNCHANGED counters
             \/ SetCounter(r.key, 0, now + Timeout(r.key)) /\ Goto(w, "incr_new") /\ UNCHANGED <<admitted, sentence>>
             \/ Goto(w, "incr") /\ UNCHANGED <<counters, admitted, sentence>>
    BY <1>2, Zenon DEF CounterAdd
  <2>2. /\ WorkerTypes' /\ admitted' \in [0..MaxTime -> Nat] /\ sentence' \in Nat
        /\ pc'[w] \in {"idle", "add", "register", "block", "incr_new", "incr"}
        /\ pc'[w] # "idle" => KeepsReader(w)
        /\ Others(w)
        /\ \A k \in DOMAIN counters' : counters'[k] \in Entry
    <3>1. CASE Counted(w, 0) /\ UNCHANGED counters
      BY <3>1, <1>0, CountedStep DEF LimitTypes
    <3>2. CASE SetCounter(r.key, 0, now + Timeout(r.key)) /\ Goto(w, "incr_new") /\ UNCHANGED <<admitted, sentence>>
      <4>1. now + Timeout(r.key) \in Nat
        BY <1>0, TimeoutType
      <4>2. \A k \in DOMAIN counters' : counters'[k] \in Entry
        BY <3>2, <4>1, <1>0, SetCounterType
      <4> QED BY <3>2, <1>0, <4>2, GotoStep DEF Others, KeepsReader, PCs, LimitTypes
    <3>3. CASE Goto(w, "incr") /\ UNCHANGED <<counters, admitted, sentence>>
      BY <3>3, <1>0, GotoStep DEF Others, KeepsReader, PCs, LimitTypes
    <3> QED BY <2>1, <3>1, <3>2, <3>3
  <2>3. LimitTypes'
    BY <1>2, <1>0, <2>1, <2>2, <1>01 DEF CounterAdd, LimitTypes
  <2> QED BY <1>2, <1>00, <2>2, <2>3 DEF CounterAdd, Types, QuietStep, QuietPCs, PCs
<1>3. CASE CounterIncr(w)
  <2> DEFINE c == counters[r.key]
  <2>1. PICK up \in BOOLEAN :
          /\ Call(up)
          /\ \/ /\ r.key \in DOMAIN counters
                /\ SetCounter(r.key, c.value + 1, c.until) /\ Counted(w, c.value + 1)
             \/ /\ GotoWith(w, "set", [r EXCEPT !.n = 1]) \/ Goto(w, "reread")
                /\ UNCHANGED <<counters, admitted, sentence>>
    BY <1>3, Zenon DEF CounterIncr
  <2>2. /\ WorkerTypes' /\ admitted' \in [0..MaxTime -> Nat] /\ sentence' \in Nat
        /\ pc'[w] \in {"idle", "add", "register", "block", "set", "reread"}
        /\ pc'[w] # "idle" => KeepsReader(w)
        /\ Others(w)
        /\ \A k \in DOMAIN counters' : counters'[k] \in Entry
    <3>1. CASE /\ r.key \in DOMAIN counters
               /\ SetCounter(r.key, c.value + 1, c.until) /\ Counted(w, c.value + 1)
      <4>1. c.value + 1 \in Nat /\ c.until \in Nat
        BY <3>1, <1>0 DEF LimitTypes, Entry
      <4>2. \A k \in DOMAIN counters' : counters'[k] \in Entry
        BY <3>1, <4>1, <1>0, SetCounterType
      <4> QED BY <3>1, <4>1, <4>2, CountedStep
    <3>2. CASE GotoWith(w, "set", [r EXCEPT !.n = 1]) /\ UNCHANGED <<counters, admitted, sentence>>
      <4> DEFINE s == [r EXCEPT !.n = 1]
      <4>1. s \in Request /\ s.start = r.start /\ s.since = r.since /\ s.code = r.code /\ s.salt = r.salt
        <5> HIDE DEF r
        <5> QED BY <1>0 DEF Request
      <4>2. WorkerTypes' /\ pc'[w] = "set" /\ KeepsReader(w) /\ Others(w)
        <5>0. GotoWith(w, "set", s)
          BY <3>2
        <5> HIDE DEF s
        <5>1. "set" \in PCs /\ s \in Request
          BY <4>1 DEF PCs
        <5>2. /\ WorkerTypes' /\ pc'[w] = "set" /\ req'[w] = s
              /\ \A v \in Workers \ {w} : pc'[v] = pc[v] /\ req'[v] = req[v]
          BY <5>0, <5>1, <1>0, GotoWithStep
        <5> QED BY <5>2, <4>1 DEF Others, KeepsReader
      <4> QED BY <3>2, <4>2, <1>0 DEF LimitTypes
    <3>3. CASE Goto(w, "reread") /\ UNCHANGED <<counters, admitted, sentence>>
      BY <3>3, <1>0, GotoStep DEF Others, KeepsReader, PCs, LimitTypes
    <3> QED BY <2>1, <3>1, <3>2, <3>3
  <2>3. LimitTypes'
    <3>1. lapsed' \in BOOLEAN /\ UNCHANGED <<blocked, spared>>
      BY <1>3, <1>0 DEF CounterIncr, LimitTypes
    <3> QED BY <3>1, <1>0, <2>1, <2>2, <1>01 DEF LimitTypes
  <2> QED BY <1>3, <1>00, <2>2, <2>3 DEF CounterIncr, Types, QuietStep, QuietPCs, PCs
<1>4. CASE CounterReread(w)
  <2>1. PICK up \in BOOLEAN :
          /\ Call(up)
          /\ GotoWith(w, "set", [r EXCEPT !.n =
               IF up /\ r.key \in DOMAIN counters THEN counters[r.key].value + 1 ELSE 1])
    BY <1>4, Zenon DEF CounterReread
  <2> DEFINE n == IF up /\ r.key \in DOMAIN counters THEN counters[r.key].value + 1 ELSE 1
             s == [r EXCEPT !.n = n]
  <2>2. n \in Nat
    BY <1>0 DEF LimitTypes, Entry
  <2>3. s \in Request /\ s.start = r.start /\ s.since = r.since /\ s.code = r.code /\ s.salt = r.salt
    <3> HIDE DEF r, n
    <3> QED BY <1>0, <2>2 DEF Request
  <2>4. GotoWith(w, "set", s)
    BY <2>1
  <2>5. WorkerTypes' /\ pc'[w] = "set" /\ KeepsReader(w) /\ Others(w)
    <3> HIDE DEF s
    <3> QED BY <2>4, <2>3, <1>0, GotoWithStep DEF Others, KeepsReader, PCs
  <2>6. LimitTypes'
    BY <1>4, <1>0, <2>1, <1>01 DEF CounterReread, LimitTypes, limits
  <2> QED BY <1>4, <1>00, <2>5, <2>6 DEF CounterReread, Types, QuietStep, QuietPCs, PCs
<1>5. CASE CounterSet(w)
  <2>1. PICK up \in BOOLEAN :
          /\ Call(up)
          /\ \/ SetCounter(r.key, r.n, now + Timeout(r.key)) /\ Counted(w, r.n)
             \/ Counted(w, 0) /\ UNCHANGED counters
    BY <1>5, Zenon DEF CounterSet
  <2>2. /\ WorkerTypes' /\ admitted' \in [0..MaxTime -> Nat] /\ sentence' \in Nat
        /\ pc'[w] \in {"idle", "add", "register", "block"}
        /\ pc'[w] # "idle" => KeepsReader(w)
        /\ Others(w)
        /\ \A k \in DOMAIN counters' : counters'[k] \in Entry
    <3>1. r.n \in Nat /\ now + Timeout(r.key) \in Nat
      BY <1>0, TimeoutType DEF Request
    <3>2. CASE SetCounter(r.key, r.n, now + Timeout(r.key)) /\ Counted(w, r.n)
      BY <3>1, <3>2, <1>0, SetCounterType, CountedStep
    <3>3. CASE Counted(w, 0) /\ UNCHANGED counters
      BY <3>3, <1>0, CountedStep DEF LimitTypes
    <3> QED BY <2>1, <3>2, <3>3
  <2>3. LimitTypes'
    BY <1>5, <1>0, <2>1, <2>2, <1>01 DEF CounterSet, LimitTypes
  <2> QED BY <1>5, <1>00, <2>2, <2>3 DEF CounterSet, Types, QuietStep, QuietPCs, PCs
<1>6. CASE RejectPassword(w)
  <2>1. LimitTypes'
    BY <1>6, <1>0 DEF RejectPassword, LimitTypes, limits
  <2> QED BY <1>6, <1>00, <2>1, FailStep DEF RejectPassword, Types, QuietStep, QuietPCs, PCs
<1>7. CASE AcceptPassword(w)
  <2>1. LimitTypes'
    BY <1>7, <1>0 DEF AcceptPassword, LimitTypes, limits
  <2>2. WorkerTypes' /\ pc'[w] = "config" /\ KeepsReader(w) /\ Others(w)
    BY <1>7, <1>0, GotoStep DEF AcceptPassword, KeepsReader, Others, PCs
  <2> QED BY <1>7, <1>00, <2>1, <2>2 DEF AcceptPassword, Types, QuietStep, QuietPCs, PCs
<1>8. CASE CheckCode(w)
  <2>1. LimitTypes'
    BY <1>8, <1>0 DEF CheckCode, LimitTypes, limits
  <2>2. WorkerTypes' /\ pc'[w] \in {"add", "save_user"} /\ KeepsReader(w) /\ Others(w)
    BY <1>8, <1>0, GotoStep, FailStep DEF CheckCode, KeepsReader, Others, PCs
  <2> QED BY <1>8, <1>00, <2>1, <2>2 DEF CheckCode, Types, QuietStep, QuietPCs, PCs
<1>9. CASE SaveUser(w)
  <2>1. LimitTypes'
    BY <1>9, <1>0 DEF SaveUser, LimitTypes
  <2>2. WorkerTypes' /\ pc'[w] \in {"add", "saved"} /\ KeepsReader(w) /\ Others(w)
    BY <1>9, <1>0, GotoStep, FailStep DEF SaveUser, KeepsReader, Others, PCs
  <2> QED BY <1>9, <1>00, <2>1, <2>2 DEF SaveUser, Types, QuietStep, QuietPCs, PCs
<1>10. CASE SetBlocked(w)
  <2>1. r.at + Cooldown(r.n) \in Nat
    BY <1>0, CooldownLongest DEF Request
  <2>2. /\ spared' \in BOOLEAN /\ blocked' \in Nat /\ degraded' \in BOOLEAN
        /\ UNCHANGED <<counters, admitted, lapsed, sentence>>
    BY <1>10, <1>0, <1>01, <2>1 DEF SetBlocked, LimitTypes
  <2>3. LimitTypes'
    BY <1>0, <2>2 DEF LimitTypes, Entry
  <2>4. WorkerTypes' /\ pc'[w] = "idle" /\ Others(w)
    BY <1>10, <1>0, IdleType, GotoWithStep DEF SetBlocked, Reply, PCs, Others
  <2> QED BY <1>10, <1>00, <2>3, <2>4 DEF SetBlocked, Types, QuietStep, QuietPCs, PCs
<1>11. CASE ClearFailures(w)
  <2>1. LimitTypes'
    BY <1>11, <1>0, <1>01 DEF ClearFailures, LimitTypes
  <2>2. WorkerTypes' /\ pc'[w] = "unblock" /\ KeepsReader(w) /\ Others(w)
    BY <1>11, <1>0, GotoStep DEF ClearFailures, KeepsReader, Others, PCs
  <2> QED BY <1>11, <1>00, <2>1, <2>2 DEF ClearFailures, Types, QuietStep, QuietPCs, PCs
<1>12. CASE ClearBlocked(w)
  <2>1. LimitTypes'
    <3>1. /\ blocked' \in Nat /\ sentence' = 0 /\ spared' = FALSE /\ degraded' \in BOOLEAN
          /\ UNCHANGED <<counters, admitted, lapsed>>
      BY <1>12, <1>0, <1>01 DEF ClearBlocked, LimitTypes
    <3> QED BY <3>1, <1>0 DEF LimitTypes, Entry
  <2>2. WorkerTypes' /\ pc'[w] = "idle" /\ Others(w)
    BY <1>12, <1>0, IdleType, GotoWithStep DEF ClearBlocked, Reply, PCs, Others
  <2> QED BY <1>12, <1>00, <2>1, <2>2 DEF ClearBlocked, Types, QuietStep, QuietPCs, PCs
<1> QED
  BY <1>1, <1>2, <1>3, <1>4, <1>5, <1>6, <1>7, <1>8, <1>9, <1>10, <1>11, <1>12 DEF Registration

(***************************************************************************)
(* The steps of the code.                                                  *)
(***************************************************************************)

\* The salt in force is a number.
LEMMA CurrentType == ConfigTypes => Current \in Nat
BY DEF ConfigTypes, Current

\* A request that arrives.
LEMMA ArrivalType ==
  ASSUME ConfigTypes, NEW kind \in {"register", "show", "rotate"}, NEW a, a = Arrival(kind)
  PROVE  /\ a \in Request /\ a.start = now /\ a.code = NoCode /\ a.salt = 0 /\ a.key = NoKey
         /\ a.since = IF \E v \in Workers : pc[v] = "clear" THEN 0 ELSE Current
<1>1. now \in Nat /\ Current \in Nat
  BY CurrentType DEF ConfigTypes
<1> QED BY <1>1, IdleType DEF Arrival, Request, Idle

\* What ReceiveRegistration, ReceiveShow and ReceiveRotate have in common.
ReceiveStep(w, label) ==
  /\ UNCHANGED <<now, config, limits, degraded>>
  /\ pc[w] = "idle" /\ pc'[w] = label
  /\ req'[w].start = now
  /\ req'[w].code \in shown \cup {NoCode}
  /\ req'[w].since = IF \E v \in Workers : pc[v] = "clear" THEN 0 ELSE Current
  /\ req'[w].key = NoKey
  /\ Others(w)

\* A request that is received begins at one of three labels.
LEMMA ReceiveTypes ==
  ASSUME Types, NEW w \in Workers, Receive(w)
  PROVE  Types' /\ \E label \in {"blocked", "config", "load"} : ReceiveStep(w, label)
<1>0. ConfigTypes /\ LimitTypes /\ WorkerTypes
  BY DEF Types
<1>1. UNCHANGED <<now, config, limits, degraded>> /\ pc[w] = "idle"
  BY DEF Receive, ReceiveRegistration, ReceiveShow, ReceiveRotate
<1>2. ConfigTypes' /\ LimitTypes'
  BY <1>0, <1>1 DEF ConfigTypes, LimitTypes, config, limits
<1>3. \A label \in PCs, r \in Request : GotoWith(w, label, r) =>
        WorkerTypes' /\ pc'[w] = label /\ req'[w] = r /\ Others(w)
  BY <1>0, GotoWithStep DEF Others
<1>4. CASE ReceiveRegistration(w)
  <2>1. PICK u \in Usernames \ users, c \in shown \cup {NoCode} :
          GotoWith(w, "blocked", [Arrival("register") EXCEPT !.user = u, !.code = c])
    BY <1>4 DEF ReceiveRegistration
  <2> DEFINE a == Arrival("register")
             r == [a EXCEPT !.user = u, !.code = c]
  <2>2. /\ a \in Request /\ a.start = now /\ a.key = NoKey
        /\ a.since = IF \E v \in Workers : pc[v] = "clear" THEN 0 ELSE Current
    BY <1>0, ArrivalType
  <2>3. c \in (Nat \X Nat) \cup {NoCode}
    BY <1>0 DEF ConfigTypes
  <2>4. r \in Request /\ r.start = a.start /\ r.since = a.since /\ r.code = c /\ r.key = a.key
    <3> HIDE DEF a
    <3> QED BY <2>2, <2>3 DEF Request
  <2>5. WorkerTypes' /\ pc'[w] = "blocked" /\ req'[w] = r /\ Others(w)
    <3> HIDE DEF r
    <3> QED BY <2>1, <2>4, <1>3 DEF PCs, r
  <2>6. ReceiveStep(w, "blocked")
    <3> HIDE DEF r, a
    <3> QED BY <1>1, <2>2, <2>4, <2>5 DEF ReceiveStep
  <2> QED BY <2>5, <2>6, <1>2 DEF Types
<1>5. ASSUME NEW kind \in {"show", "rotate"}, NEW label \in {"config", "load"},
             GotoWith(w, label, Arrival(kind))
      PROVE  Types' /\ ReceiveStep(w, label)
  <2> DEFINE a == Arrival(kind)
  <2>2. /\ a \in Request /\ a.start = now /\ a.code = NoCode /\ a.key = NoKey
        /\ a.since = IF \E v \in Workers : pc[v] = "clear" THEN 0 ELSE Current
    BY <1>0, ArrivalType
  <2> HIDE DEF a
  <2>3. WorkerTypes' /\ pc'[w] = label /\ req'[w] = a /\ Others(w)
    BY <1>5, <2>2, <1>3 DEF PCs, a
  <2> QED BY <1>1, <1>2, <2>2, <2>3 DEF ReceiveStep, Types
<1>6. CASE ReceiveShow(w)
  BY <1>6, <1>5 DEF ReceiveShow
<1>7. CASE ReceiveRotate(w)
  BY <1>7, <1>5 DEF ReceiveRotate
<1> QED BY <1>4, <1>6, <1>7 DEF Receive

\* A request that is killed leaves everything as it is.
LEMMA KilledTypes ==
  ASSUME Types, NEW w \in Workers, Killed(w)
  PROVE  Types' /\ pc'[w] = "idle" /\ req'[w] = Idle /\ Others(w)
<1>1. WorkerTypes' /\ pc'[w] = "idle" /\ req'[w] = Idle /\ Others(w)
  BY IdleType, GotoWithStep DEF Killed, Reply, PCs, Others, Types
<1>2. ConfigTypes'
  BY DEF Killed, Types, ConfigTypes
<1>3. LimitTypes'
  BY DEF Killed, Types, LimitTypes, limits
<1> QED BY <1>1, <1>2, <1>3 DEF Types

\* Time only removes keys that have expired.
LEMMA TickTypes == Types /\ Tick => Types'
<1> SUFFICES ASSUME Types, Tick PROVE Types'
  OBVIOUS
<1>1. ConfigTypes'
  BY IdleType DEF Tick, Types, ConfigTypes
<1>2. LimitTypes'
  BY DEF Tick, Types, LimitTypes
<1>3. WorkerTypes'
  BY DEF Tick, Types, WorkerTypes
<1> QED BY <1>1, <1>2, <1>3 DEF Types

\* What a request that reads or changes the code writes down.
LEMMA ReaderWrites ==
  ASSUME NEW r \in Request, NEW salt \in Nat, NEW row \in Nat
  PROVE  /\ [r EXCEPT !.salt = salt] \in Request
         /\ [r EXCEPT !.salt = salt, !.row = row] \in Request
         /\ [r EXCEPT !.rotated = TRUE] \in Request
BY DEF Request

\* A sequence of salts with one of them replaced.
LEMMA ReplacedSalt ==
  ASSUME NEW s \in Seq(Nat), NEW i \in Nat, NEW x \in Nat, NEW t, t = [s EXCEPT ![i] = x]
  PROVE  /\ t \in Seq(Nat) /\ DOMAIN t = DOMAIN s
         /\ \A j \in DOMAIN s : t[j] = IF j = i THEN x ELSE s[j]
<1>1. DOMAIN s = 1..Len(s) /\ Len(s) \in Nat
  OBVIOUS
<1>2. t \in [1..Len(s) -> Nat]
  <2>1. s \in [1..Len(s) -> Nat]
    OBVIOUS
  <2>2. t = [j \in 1..Len(s) |-> IF j = i THEN x ELSE s[j]]
    BY <1>1, <2>1
  <2> QED BY <2>1, <2>2
<1> QED BY <1>1, <1>2

\* Where a request goes on after the config was loaded or forgotten.
LEMMA AfterTypes == \A r : AfterLoad(r) \in {"save", "store"} /\ AfterClear(r) \in {"config", "save", "store"}
BY DEF AfterLoad, AfterClear

\* The steps of the code keep the types; only the worker that takes it moves.
LEMMA CodeTypes ==
  ASSUME Types, NEW w \in Workers, Code(w)
  PROVE  Types' /\ pc'[w] \in PCs \ {"blocked", "add", "incr_new", "incr", "reread", "set"} /\ Others(w)
<1> DEFINE r == req[w]
           P == PCs \ {"blocked", "add", "incr_new", "incr", "reread", "set"}
<1>0. /\ WorkerTypes /\ r \in Request /\ LimitTypes /\ ConfigTypes
      /\ now \in Nat /\ salts \in Nat /\ rows \in Seq(Nat) /\ cached \in Entry
  BY DEF Types, WorkerTypes, ConfigTypes
<1>00. ASSUME UNCHANGED limits, degraded' \in BOOLEAN PROVE LimitTypes'
  BY <1>0, <1>00 DEF LimitTypes, limits
<1>01. ASSUME NEW up \in BOOLEAN, Call(up) PROVE degraded' \in BOOLEAN
  BY <1>01 DEF Call
<1>02. degraded \in BOOLEAN
  BY <1>0 DEF LimitTypes
<1>03. \A label \in P, q \in Request : GotoWith(w, label, q) => WorkerTypes' /\ pc'[w] \in P /\ Others(w)
  BY <1>0, GotoWithStep DEF Others
<1>04. \A label \in P : Goto(w, label) => WorkerTypes' /\ pc'[w] \in P /\ Others(w)
  BY <1>0, GotoStep DEF Others
<1>05. {"load", "create", "save", "store", "clear", "use", "config", "idle"} \subseteq P
  BY DEF PCs
<1> HIDE DEF P
<1>1. CASE GetConfig(w)
  <2>1. ConfigTypes' /\ LimitTypes'
    BY <1>0, <1>00, <1>01, <1>1 DEF GetConfig, ConfigTypes, config
  <2>2. [r EXCEPT !.salt = cached.value] \in Request
    BY <1>0, ReaderWrites DEF Entry, Request
  <2>3. GotoWith(w, "use", [r EXCEPT !.salt = cached.value]) \/ Goto(w, "load")
    BY <1>1 DEF GetConfig
  <2>4. WorkerTypes' /\ pc'[w] \in P /\ Others(w)
    <3> HIDE DEF r
    <3> QED BY <2>2, <2>3, <1>03, <1>04, <1>05
  <2> QED BY <2>1, <2>4 DEF Types, P
<1>2. CASE LoadConfig(w)
  <2>1. ConfigTypes' /\ LimitTypes'
    BY <1>0, <1>00, <1>02, <1>2 DEF LoadConfig, ConfigTypes, config
  <2>2. rows # <<>> => [r EXCEPT !.salt = rows[1], !.row = 1] \in Request
    <3>1. rows # <<>> => rows[1] \in Nat
      BY <1>0
    <3> HIDE DEF r
    <3> QED BY <1>0, <3>1, ReaderWrites
  <2>3. \/ Goto(w, "create")
        \/ rows # <<>> /\ GotoWith(w, AfterLoad(r), [r EXCEPT !.salt = rows[1], !.row = 1])
    BY <1>2 DEF LoadConfig
  <2>4. WorkerTypes' /\ pc'[w] \in P /\ Others(w)
    <3> HIDE DEF r
    <3> QED BY <2>2, <2>3, <1>03, <1>04, <1>05, AfterTypes
  <2> QED BY <2>1, <2>4 DEF Types, P
<1>3. CASE CreateConfig(w)
  <2>1. ConfigTypes' /\ LimitTypes' /\ Len(rows') \in Nat /\ salts' \in Nat
    BY <1>0, <1>00, <1>02, <1>3 DEF CreateConfig, ConfigTypes
  <2>2. [r EXCEPT !.salt = salts', !.row = Len(rows')] \in Request
    BY <1>0, <2>1, ReaderWrites
  <2>3. GotoWith(w, "clear", [r EXCEPT !.salt = salts', !.row = Len(rows')])
    BY <1>3 DEF CreateConfig
  <2>4. WorkerTypes' /\ pc'[w] \in P /\ Others(w)
    <3> HIDE DEF r
    <3> QED BY <2>2, <2>3, <1>03, <1>05
  <2> QED BY <2>1, <2>4 DEF Types, P
<1>4. CASE SaveSalt(w)
  <2>1. ConfigTypes' /\ LimitTypes'
    <3>1. salts' \in Nat /\ rows' = [rows EXCEPT ![r.row] = salts']
      BY <1>0, <1>4 DEF SaveSalt
    <3>2. rows' \in Seq(Nat)
      BY <3>1, <1>0, ReplacedSalt DEF Request
    <3> QED BY <1>0, <3>1, <3>2, <1>00, <1>02, <1>4 DEF SaveSalt, ConfigTypes
  <2>2. [r EXCEPT !.rotated = TRUE] \in Request
    BY <1>0, ReaderWrites
  <2>3. GotoWith(w, "clear", [r EXCEPT !.rotated = TRUE])
    BY <1>4 DEF SaveSalt
  <2>4. WorkerTypes' /\ pc'[w] \in P /\ Others(w)
    <3> HIDE DEF r
    <3> QED BY <2>2, <2>3, <1>03, <1>05
  <2> QED BY <2>1, <2>4 DEF Types, P
<1>5. CASE ClearConfig(w)
  <2>1. ConfigTypes' /\ LimitTypes'
    BY <1>0, <1>00, <1>01, <1>5, IdleType DEF ClearConfig, ConfigTypes
  <2>2. WorkerTypes' /\ pc'[w] \in P /\ Others(w)
    BY <1>5, <1>04, <1>05, AfterTypes DEF ClearConfig
  <2> QED BY <2>1, <2>2 DEF Types, P
<1>6. CASE StoreConfig(w)
  <2>1. [value |-> r.salt, until |-> now + ConfigTimeout] \in Entry
    BY <1>0, CodeAssumption DEF Entry, Request
  <2>2. ConfigTypes' /\ LimitTypes'
    BY <1>0, <1>00, <1>01, <1>6, <2>1 DEF StoreConfig, ConfigTypes
  <2>3. WorkerTypes' /\ pc'[w] \in P /\ Others(w)
    BY <1>6, <1>04, <1>05 DEF StoreConfig
  <2> QED BY <2>2, <2>3 DEF Types, P
<1>7. CASE ShowCode(w)
  <2>1. <<r.salt, WindowIndex(now)>> \in Nat \X Nat
    BY <1>0, DivBounds, CodeAssumption DEF Request, WindowIndex
  <2>2. ConfigTypes' /\ LimitTypes'
    BY <1>0, <1>00, <1>02, <1>7, <2>1 DEF ShowCode, ConfigTypes
  <2>3. WorkerTypes' /\ pc'[w] \in P /\ Others(w)
    BY <1>7, <1>03, <1>05, IdleType DEF ShowCode, Reply
  <2> QED BY <2>2, <2>3 DEF Types, P
<1> QED BY <1>1, <1>2, <1>3, <1>4, <1>5, <1>6, <1>7 DEF Code

(***************************************************************************)
(* Every step keeps ConfigInv.                                             *)
(***************************************************************************)

\* A step that leaves config, salts and codes alone keeps the invariant.
LEMMA QuietKeeps ==
  ASSUME Types, ConfigInv, NEW w \in Workers, QuietStep(w)
  PROVE  ConfigInv'
<1>0. /\ UNCHANGED <<now, rows, cached, shown, salts, retired, raced>> /\ Current' = Current
      /\ pc[w] \in PCs \ {"idle", "clear"} /\ pc'[w] \in QuietPCs
      /\ pc'[w] # "idle" => KeepsReader(w)
      /\ pc'[w] = "save_user" => pc[w] = "use"
      /\ Others(w)
  BY DEF QuietStep, config, Current
<1>1. TimeInv'
  BY <1>0 DEF ConfigInv, TimeInv, Others, KeepsReader
<1>2. ~FromTable(w)' /\ \A v \in Workers \ {w} : FromTable(v)' = FromTable(v)
  BY <1>0 DEF FromTable, Others, QuietPCs
<1>3. RowsInv'
  BY <1>0, <1>2 DEF ConfigInv, RowsInv, Others, QuietPCs
<1>4. RetiredInv'
  BY <1>0, <1>2 DEF ConfigInv, RetiredInv, Others, QuietPCs, KeepsReader
<1>5. SinceInv'
  BY <1>0 DEF ConfigInv, SinceInv, Others, KeepsReader
<1>6. ASSUME ~raced PROVE CacheCurrent' /\ SaltsCurrent'
  <2>0. CacheCurrent /\ SaltsCurrent
    BY <1>6 DEF ConfigInv, RaceInv
  <2>1. (\E v \in Workers : pc[v] = "clear") => \E v \in Workers : pc'[v] = "clear"
    BY <1>0 DEF Others
  <2>2. CacheCurrent'
    BY <2>0, <2>1, <1>0 DEF CacheCurrent, Others, KeepsReader, QuietPCs
  <2>3. SaltsCurrent'
    BY <2>0, <1>0, <1>2 DEF SaltsCurrent, Others, KeepsReader, QuietPCs
  <2> QED BY <2>2, <2>3
<1>7. RaceInv'
  BY <1>6, <1>0 DEF RaceInv
<1> QED BY <1>1, <1>3, <1>4, <1>5, <1>7 DEF ConfigInv

\* A request that has just been received holds no config.
LEMMA ReceiveKeeps ==
  ASSUME Types, ConfigInv, NEW w \in Workers, NEW label \in {"blocked", "config", "load"},
         ReceiveStep(w, label)
  PROVE  ConfigInv'
<1>0. /\ UNCHANGED <<now, rows, cached, shown, salts, retired, raced>> /\ Current' = Current
      /\ pc[w] = "idle" /\ pc'[w] = label /\ req'[w].start = now
      /\ req'[w].code \in shown \cup {NoCode}
      /\ req'[w].since = IF \E v \in Workers : pc[v] = "clear" THEN 0 ELSE Current
      /\ Others(w)
  BY DEF ReceiveStep, config, Current
<1>00. now \in Nat /\ Current \in Nat /\ cached \in Entry
  BY CurrentType DEF Types, ConfigTypes
<1>1. TimeInv'
  BY <1>0, <1>00, BoundsAssumption DEF ConfigInv, TimeInv, Others
<1>2. ~FromTable(w)' /\ \A v \in Workers \ {w} : FromTable(v)' = FromTable(v)
  BY <1>0 DEF FromTable, Others
<1>3. RowsInv'
  BY <1>0, <1>2 DEF ConfigInv, RowsInv, Others
<1>4. RetiredInv'
  BY <1>0, <1>2 DEF ConfigInv, RetiredInv, Others
<1>5. SinceInv'
  BY <1>0, <1>00 DEF ConfigInv, SinceInv, Others
<1>6. ASSUME ~raced PROVE CacheCurrent' /\ SaltsCurrent'
  <2>0. CacheCurrent /\ SaltsCurrent
    BY <1>6 DEF ConfigInv, RaceInv
  <2>1. (\E v \in Workers : pc[v] = "clear") => \E v \in Workers : pc'[v] = "clear"
    BY <1>0 DEF Others
  <2>2. CacheCurrent'
    BY <2>0, <2>1, <1>0, <1>00 DEF CacheCurrent, Others, Entry
  <2>3. SaltsCurrent'
    BY <2>0, <1>0, <1>2 DEF SaltsCurrent, Others
  <2> QED BY <2>2, <2>3
<1>7. RaceInv'
  BY <1>6, <1>0 DEF RaceInv
<1> QED BY <1>1, <1>3, <1>4, <1>5, <1>7 DEF ConfigInv

\* A rotation that is killed leaves a race behind, or nothing.
LEMMA KilledKeeps ==
  ASSUME Types, ConfigInv, NEW w \in Workers, Killed(w)
  PROVE  ConfigInv'
<1>0. /\ UNCHANGED <<now, rows, cached, shown, salts, retired>> /\ Current' = Current
      /\ raced' = (raced \/ pc[w] = "clear")
      /\ pc'[w] = "idle" /\ Others(w)
  BY KilledTypes DEF Killed, Current
<1>1. TimeInv'
  BY <1>0 DEF ConfigInv, TimeInv, Others
<1>2. ~FromTable(w)' /\ \A v \in Workers \ {w} : FromTable(v)' = FromTable(v)
  BY <1>0 DEF FromTable, Others
<1>3. RowsInv'
  BY <1>0, <1>2 DEF ConfigInv, RowsInv, Others
<1>4. RetiredInv'
  BY <1>0, <1>2 DEF ConfigInv, RetiredInv, Others
<1>5. SinceInv'
  BY <1>0 DEF ConfigInv, SinceInv, Others
<1>6. ASSUME ~raced' PROVE CacheCurrent' /\ SaltsCurrent'
  <2>0. CacheCurrent /\ SaltsCurrent /\ pc[w] # "clear"
    BY <1>6, <1>0 DEF ConfigInv, RaceInv
  <2>1. (\E v \in Workers : pc[v] = "clear") => \E v \in Workers : pc'[v] = "clear"
    BY <1>0, <2>0 DEF Others
  <2>2. CacheCurrent'
    BY <2>0, <2>1, <1>0 DEF CacheCurrent, Others
  <2>3. SaltsCurrent'
    BY <2>0, <1>0, <1>2 DEF SaltsCurrent, Others
  <2> QED BY <2>2, <2>3
<1>7. RaceInv'
  BY <1>6 DEF RaceInv
<1> QED BY <1>1, <1>3, <1>4, <1>5, <1>7 DEF ConfigInv

\* The cached config and the requests that read it grow older by at most a tick.
LEMMA TickKeeps ==
  ASSUME Types, ConfigInv, Tick
  PROVE  ConfigInv'
<1>0. /\ UNCHANGED <<rows, shown, salts, retired, raced, pc, req>> /\ Current' = Current
      /\ now \in Nat /\ now' = now + 1
      /\ \A v \in Workers : pc[v] # "idle" => now < req[v].start + RequestTimeout
      /\ cached' = Null \/ (cached' = cached /\ now' < cached.until)
      /\ cached \in Entry
      /\ \A v \in Workers : req[v].start \in Nat
  BY DEF Tick, Types, ConfigTypes, Current, Entry, WorkerTypes, Request
<1>1. TimeInv'
  BY <1>0, BoundsAssumption DEF ConfigInv, TimeInv
<1>2. \A v \in Workers : FromTable(v)' = FromTable(v)
  BY <1>0 DEF FromTable
<1>3. RowsInv'
  BY <1>0, <1>2 DEF ConfigInv, RowsInv
<1>4. RetiredInv'
  BY <1>0, <1>2, CodeAssumption, BoundsAssumption DEF ConfigInv, RetiredInv, Entry
<1>5. SinceInv'
  BY <1>0 DEF ConfigInv, SinceInv
<1>6. ASSUME ~raced PROVE CacheCurrent' /\ SaltsCurrent'
  <2>0. CacheCurrent /\ SaltsCurrent
    BY <1>6 DEF ConfigInv, RaceInv
  <2> QED BY <2>0, <1>0, <1>2 DEF CacheCurrent, SaltsCurrent
<1>7. RaceInv'
  BY <1>6, <1>0 DEF RaceInv
<1> QED BY <1>1, <1>3, <1>4, <1>5, <1>7 DEF ConfigInv

\* A config from the cache is as old as the cache says.
LEMMA GetConfigKeeps ==
  ASSUME Types, ConfigInv, NEW w \in Workers, GetConfig(w)
  PROVE  ConfigInv'
<1> DEFINE r == req[w]
           s == [r EXCEPT !.salt = cached.value]
<1>0. /\ r \in Request /\ cached \in Entry /\ now \in Nat /\ WorkerTypes /\ r.start \in Nat
      /\ Current \in Nat
  BY CurrentType DEF Types, WorkerTypes, ConfigTypes, Request
<1>1. s \in Request /\ s.start = r.start /\ s.since = r.since /\ s.code = r.code /\ s.salt = cached.value
  <2> HIDE DEF r
  <2> QED BY <1>0, ReaderWrites DEF Entry, Request
<1>2. /\ UNCHANGED <<now, rows, cached, shown, salts, retired, raced>> /\ Current' = Current
      /\ pc[w] = "config"
  BY DEF GetConfig, config, Current
<1>3. /\ \/ cached # Null /\ pc'[w] = "use" /\ req'[w] = s
         \/ pc'[w] = "load" /\ req'[w] = r
      /\ Others(w)
  <2>1. (cached # Null /\ GotoWith(w, "use", s)) \/ Goto(w, "load")
    BY DEF GetConfig
  <2> HIDE DEF s
  <2> QED BY <2>1, <1>0, <1>1, GotoWithStep, GotoStep DEF Others, PCs
<1> HIDE DEF s
<1>4. TimeInv'
  BY <1>1, <1>2, <1>3 DEF ConfigInv, TimeInv, Others
<1>5. ~FromTable(w)' /\ \A v \in Workers \ {w} : FromTable(v)' = FromTable(v)
  BY <1>3 DEF FromTable, Others
<1>6. RowsInv'
  BY <1>2, <1>3, <1>5 DEF ConfigInv, RowsInv, Others
<1>7. RetiredInv'
  <2>1. cached # Null /\ cached.value \in DOMAIN retired =>
          r.start <= retired[cached.value] + RequestTimeout + ConfigTimeout
    BY <1>0, <1>2, CodeAssumption, BoundsAssumption
    DEF ConfigInv, RetiredInv, TimeInv, RowsInv, Entry
  <2> QED BY <2>1, <1>1, <1>2, <1>3, <1>5 DEF ConfigInv, RetiredInv, Others
<1>8. SinceInv'
  BY <1>1, <1>2, <1>3 DEF ConfigInv, SinceInv, Others
<1>9. ASSUME ~raced PROVE CacheCurrent' /\ SaltsCurrent'
  <2>0. CacheCurrent /\ SaltsCurrent
    BY <1>9 DEF ConfigInv, RaceInv
  <2>1. (\E v \in Workers : pc[v] = "clear") => \E v \in Workers : pc'[v] = "clear"
    BY <1>2, <1>3 DEF Others
  <2>2. CacheCurrent'
    BY <2>0, <2>1, <1>0, <1>1, <1>2, <1>3 DEF CacheCurrent, Others, Entry
  <2>3. SaltsCurrent'
    BY <2>0, <1>0, <1>1, <1>2, <1>3, <1>5 DEF CacheCurrent, SaltsCurrent, Others, Entry
  <2> QED BY <2>2, <2>3
<1>10. RaceInv'
  BY <1>9, <1>2 DEF RaceInv
<1> QED BY <1>4, <1>6, <1>7, <1>8, <1>10 DEF ConfigInv

\* A config from the database is the current one.
LEMMA LoadConfigKeeps ==
  ASSUME Types, ConfigInv, NEW w \in Workers, LoadConfig(w)
  PROVE  ConfigInv'
<1> DEFINE r == req[w]
           s == [r EXCEPT !.salt = rows[1], !.row = 1]
<1>0. /\ r \in Request /\ rows \in Seq(Nat) /\ now \in Nat /\ WorkerTypes /\ Current \in Nat
  BY CurrentType DEF Types, WorkerTypes, ConfigTypes
<1>1. rows # <<>> => /\ 1 \in DOMAIN rows /\ rows[1] = Current /\ rows[1] \in Nat
                     /\ rows[1] > 0 /\ rows[1] \notin DOMAIN retired
  BY <1>0 DEF Current, ConfigInv, RowsInv, Types, ConfigTypes
<1>2. rows # <<>> =>
        /\ s \in Request /\ s.start = r.start /\ s.since = r.since /\ s.code = r.code
        /\ s.salt = Current /\ s.row = 1
  <2> HIDE DEF r
  <2> QED BY <1>0, <1>1, ReaderWrites DEF Request
<1>3. /\ UNCHANGED <<now, rows, cached, shown, salts, retired, raced>> /\ Current' = Current
      /\ pc[w] = "load"
  BY DEF LoadConfig, config, Current
<1>4. /\ \/ rows # <<>> /\ pc'[w] \in {"save", "store"} /\ req'[w] = s
         \/ pc'[w] = "create" /\ req'[w] = r
      /\ Others(w)
  <2>1. \/ rows # <<>> /\ \E label \in {"save", "store"} : GotoWith(w, label, s)
        \/ Goto(w, "create")
    BY AfterTypes DEF LoadConfig
  <2> HIDE DEF s
  <2> QED BY <2>1, <1>0, <1>2, GotoWithStep, GotoStep DEF Others, PCs
<1> HIDE DEF s
<1>5. TimeInv'
  BY <1>2, <1>3, <1>4 DEF ConfigInv, TimeInv, Others
<1>6. /\ FromTable(w)' => rows # <<>> /\ req'[w] = s
      /\ \A v \in Workers \ {w} : FromTable(v)' = FromTable(v)
  BY <1>4 DEF FromTable, Others
<1>7. RowsInv'
  BY <1>1, <1>2, <1>3, <1>4, <1>6 DEF ConfigInv, RowsInv, Others
<1>8. RetiredInv'
  BY <1>1, <1>2, <1>3, <1>4, <1>6 DEF ConfigInv, RetiredInv, Others
<1>9. SinceInv'
  BY <1>2, <1>3, <1>4 DEF ConfigInv, SinceInv, Others
<1>10. ASSUME ~raced PROVE CacheCurrent' /\ SaltsCurrent'
  <2>0. CacheCurrent /\ SaltsCurrent
    BY <1>10 DEF ConfigInv, RaceInv
  <2>1. (\E v \in Workers : pc[v] = "clear") => \E v \in Workers : pc'[v] = "clear"
    BY <1>3, <1>4 DEF Others
  <2>2. CacheCurrent'
    BY <2>0, <2>1, <1>0, <1>2, <1>3, <1>4 DEF CacheCurrent, Others
  <2>3. r.since <= Current
    BY <1>3 DEF ConfigInv, SinceInv
  <2>4. SaltsCurrent'
    BY <2>0, <2>3, <1>0, <1>1, <1>2, <1>3, <1>4, <1>6 DEF SaltsCurrent, Others
  <2> QED BY <2>2, <2>4
<1>11. RaceInv'
  BY <1>10, <1>3 DEF RaceInv
<1> QED BY <1>5, <1>7, <1>8, <1>9, <1>11 DEF ConfigInv

\* The two steps that write a row: a new salt, and the first row never goes back.
LEMMA NewSaltKeepsRace ==
  ASSUME Types, Types', ConfigInv, NEW w \in Workers, pc[w] # "idle", pc'[w] = "clear", Others(w),
         UNCHANGED <<cached, shown, raced>>,
         Current <= Current',
         req'[w].since = req[w].since, req'[w].code = req[w].code,
         ~req'[w].rotated => req'[w].salt > 0 /\ Current <= req'[w].salt
  PROVE  SinceInv' /\ RaceInv'
<1>0. Current \in Nat /\ Current' \in Nat /\ cached \in Entry
  BY CurrentType DEF Types, ConfigTypes, Current
<1>00. /\ \A v \in Workers : /\ req[v].since \in Nat /\ req[v].salt \in Nat
                             /\ req'[v].since \in Nat /\ req'[v].salt \in Nat
       /\ \A code \in shown : code[1] \in Nat
  BY DEF Types, WorkerTypes, ConfigTypes, Request
<1>1. SinceInv'
  BY <1>0, <1>00 DEF ConfigInv, SinceInv, Others
<1>2. ASSUME ~raced PROVE CacheCurrent' /\ SaltsCurrent'
  <2>0. CacheCurrent /\ SaltsCurrent /\ req[w].since <= Current
    BY <1>2 DEF ConfigInv, RaceInv, SinceInv
  <2>1. CacheCurrent'
    BY <2>0, <1>0, <1>00 DEF CacheCurrent, Others, Entry
  <2>2. \A v \in Workers \ {w} : FromTable(v)' = FromTable(v)
    BY DEF FromTable, Others
  <2>3. FromTable(w)' => ~req'[w].rotated
    BY DEF FromTable
  <2>4. \A code \in shown : code[1] <= Current
    BY <2>0 DEF SaltsCurrent
  <2>5. FromTable(w)' => /\ req'[w].salt > 0 /\ req'[w].since <= req'[w].salt
                         /\ req'[w].code \in shown => req'[w].code[1] <= req'[w].salt
    BY <2>0, <2>3, <2>4, <1>0, <1>00
  <2>6. \A code \in shown : code[1] <= Current'
    BY <2>4, <1>0, <1>00
  <2>7. \A v \in Workers \ {w} : pc'[v] = "use" => req'[v].salt <= Current'
    BY <2>0, <1>0, <1>00 DEF SaltsCurrent, Others
  <2>8. SaltsCurrent'
    BY <2>0, <2>2, <2>5, <2>6, <2>7 DEF SaltsCurrent, Others
  <2> QED BY <2>1, <2>8
<1>3. RaceInv'
  BY <1>2 DEF RaceInv
<1> QED BY <1>1, <1>3

\* get_or_create: the first config, or the one that another request created.
LEMMA CreateConfigKeeps ==
  ASSUME Types, Types', ConfigInv, NEW w \in Workers, CreateConfig(w)
  PROVE  ConfigInv'
<1> DEFINE r == req[w]
           s == [r EXCEPT !.salt = salts', !.row = Len(rows')]
<1>0. /\ r \in Request /\ rows \in Seq(Nat) /\ now \in Nat /\ salts \in Nat /\ WorkerTypes
  BY DEF Types, WorkerTypes, ConfigTypes
<1>1. /\ UNCHANGED <<now, cached, shown, retired, raced>>
      /\ salts' = salts + 1 /\ rows' = Append(rows, salts') /\ pc[w] = "create"
  BY DEF CreateConfig
<1>2. /\ DOMAIN rows = 1..Len(rows) /\ DOMAIN rows' = 1..(Len(rows) + 1)
      /\ Len(rows') = Len(rows) + 1 /\ Len(rows) \in Nat
      /\ rows'[Len(rows) + 1] = salts'
      /\ \A i \in DOMAIN rows : rows'[i] = rows[i]
      /\ rows' # <<>>
  BY <1>0, <1>1
<1>3. s \in Request /\ s.start = r.start /\ s.since = r.since /\ s.code = r.code /\ s.salt = salts'
      /\ s.row = Len(rows) + 1
  <2>1. salts' \in Nat /\ Len(rows') \in Nat
    BY <1>0, <1>1, <1>2
  <2> HIDE DEF r
  <2> QED BY <1>0, <1>2, <2>1, ReaderWrites DEF Request
<1>4. pc'[w] = "clear" /\ req'[w] = s /\ Others(w)
  <2>1. GotoWith(w, "clear", s)
    BY DEF CreateConfig
  <2> HIDE DEF s
  <2> QED BY <2>1, <1>0, <1>3, GotoWithStep DEF Others, PCs
<1> HIDE DEF s
<1>5. TimeInv'
  BY <1>1, <1>3, <1>4 DEF ConfigInv, TimeInv, Others
<1>6. \A v \in Workers \ {w} : FromTable(v)' = FromTable(v)
  BY <1>4 DEF FromTable, Others
<1>7. salts' \notin DOMAIN retired /\ \A i \in DOMAIN rows : rows[i] # salts'
  BY <1>0, <1>1 DEF ConfigInv, RowsInv
<1>8. RowsInv'
  <2>1. DOMAIN retired' \subseteq 1..salts' /\ \A x \in DOMAIN retired' : retired'[x] \in 0..now'
    BY <1>0, <1>1 DEF ConfigInv, RowsInv
  <2>2. \A i \in DOMAIN rows' : rows'[i] \in (1..salts') \ DOMAIN retired'
    BY <1>0, <1>1, <1>2, <1>7 DEF ConfigInv, RowsInv
  <2>3. \A i, j \in DOMAIN rows' : rows'[i] = rows'[j] => i = j
    BY <1>0, <1>1, <1>2, <1>7 DEF ConfigInv, RowsInv
  <2>4. ASSUME NEW v \in Workers, pc'[v] = "save" \/ FromTable(v)' PROVE req'[v].row \in DOMAIN rows'
    <3>1. CASE v = w
      BY <3>1, <1>2, <1>3, <1>4
    <3>2. CASE v # w
      BY <3>2, <2>4, <1>2, <1>4, <1>6 DEF ConfigInv, RowsInv, Others
    <3> QED BY <3>1, <3>2
  <2> QED BY <2>1, <2>2, <2>3, <2>4 DEF RowsInv
<1>9. RetiredInv'
  BY <1>1, <1>3, <1>4, <1>6, <1>7 DEF ConfigInv, RetiredInv, Others
<1>10. Current <= Current' /\ Current <= salts' /\ salts' > 0
  <2>1. CASE rows = <<>>
    BY <2>1, <1>0, <1>1, <1>2 DEF Current
  <2>2. CASE rows # <<>>
    <3>1. 1 \in DOMAIN rows /\ rows[1] \in 1..salts
      BY <2>2, <1>0 DEF ConfigInv, RowsInv
    <3> QED BY <2>2, <3>1, <1>0, <1>1, <1>2 DEF Current
  <2> QED BY <2>1, <2>2
<1>11. SinceInv' /\ RaceInv'
  BY <1>1, <1>3, <1>4, <1>10, NewSaltKeepsRace
<1> QED BY <1>5, <1>8, <1>9, <1>11 DEF ConfigInv

\* A rotation that saves its salt makes every older config outdated.
LEMMA SaveSaltKeeps ==
  ASSUME Types, Types', ConfigInv, NEW w \in Workers, SaveSalt(w)
  PROVE  ConfigInv'
<1> DEFINE r == req[w]
           old == rows[r.row]
           s == [r EXCEPT !.rotated = TRUE]
<1>0. /\ r \in Request /\ rows \in Seq(Nat) /\ now \in Nat /\ salts \in Nat /\ WorkerTypes
      /\ r.row \in Nat /\ cached \in Entry
  BY DEF Types, WorkerTypes, ConfigTypes, Request
<1>1. /\ UNCHANGED <<now, cached, shown, raced>>
      /\ salts' = salts + 1 /\ rows' = [rows EXCEPT ![r.row] = salts'] /\ pc[w] = "save"
      /\ retired' = [x \in DOMAIN retired \cup {old} |->
                       IF x \in DOMAIN retired THEN retired[x] ELSE now]
  BY DEF SaveSalt
<1>2. /\ DOMAIN rows' = DOMAIN rows
      /\ \A i \in DOMAIN rows : rows'[i] = IF i = r.row THEN salts' ELSE rows[i]
  BY <1>0, <1>1, ReplacedSalt
<1>3. s \in Request /\ s.start = r.start /\ s.since = r.since /\ s.code = r.code /\ s.rotated
  <2> HIDE DEF r
  <2> QED BY <1>0, ReaderWrites DEF Request
<1>4. pc'[w] = "clear" /\ req'[w] = s /\ Others(w)
  <2>1. GotoWith(w, "clear", s)
    BY DEF SaveSalt
  <2> HIDE DEF s
  <2> QED BY <2>1, <1>0, <1>3, GotoWithStep DEF Others, PCs
<1> HIDE DEF s
<1>5. TimeInv'
  BY <1>1, <1>3, <1>4 DEF ConfigInv, TimeInv, Others
<1>6. ~FromTable(w)' /\ \A v \in Workers \ {w} : FromTable(v)' = FromTable(v)
  BY <1>3, <1>4 DEF FromTable, Others
<1>7. /\ salts' \notin DOMAIN retired /\ \A i \in DOMAIN rows : rows[i] # salts'
      /\ r.row \in DOMAIN rows /\ old \in 1..salts /\ old \notin DOMAIN retired
      /\ \A i \in DOMAIN rows \ {r.row} : rows[i] # old
  BY <1>0, <1>1 DEF ConfigInv, RowsInv
<1>70. /\ DOMAIN retired' = DOMAIN retired \cup {old} /\ retired'[old] = now
       /\ \A x \in DOMAIN retired : retired'[x] = retired[x]
  BY <1>1, <1>7
<1> HIDE DEF old
<1>8. RowsInv'
  <2>1. DOMAIN retired' \subseteq 1..salts' /\ \A x \in DOMAIN retired' : retired'[x] \in 0..now'
    BY <1>0, <1>1, <1>7, <1>70 DEF ConfigInv, RowsInv
  <2>2. \A i \in DOMAIN rows' : rows'[i] \in (1..salts') \ DOMAIN retired'
    BY <1>0, <1>1, <1>2, <1>7, <1>70 DEF ConfigInv, RowsInv
  <2>3. \A i, j \in DOMAIN rows' : rows'[i] = rows'[j] => i = j
    BY <1>0, <1>1, <1>2, <1>7 DEF ConfigInv, RowsInv
  <2>4. \A v \in Workers : pc'[v] = "save" \/ FromTable(v)' => req'[v].row \in DOMAIN rows'
    BY <1>2, <1>4, <1>6 DEF ConfigInv, RowsInv, Others
  <2> QED BY <2>1, <2>2, <2>3, <2>4 DEF RowsInv
<1>9. RetiredInv'
  <2>1. ASSUME cached # Null, cached.value \in DOMAIN retired'
        PROVE  cached.until <= retired'[cached.value] + RequestTimeout + ConfigTimeout
    <3>1. CASE cached.value = old
      BY <2>1, <3>1, <1>0, <1>70, CodeAssumption, BoundsAssumption DEF ConfigInv, RetiredInv, Entry
    <3>2. CASE cached.value # old
      BY <2>1, <3>2, <1>70 DEF ConfigInv, RetiredInv
    <3> QED BY <3>1, <3>2
  <2>2. ASSUME NEW v \in Workers, v # w, req[v].salt \in DOMAIN retired'
        PROVE  /\ FromTable(v) => req[v].start <= retired'[req[v].salt]
               /\ pc[v] \in {"use", "save_user"}
                    => req[v].start <= retired'[req[v].salt] + RequestTimeout + ConfigTimeout
    <3>1. CASE req[v].salt = old
      <4>1. pc[v] # "idle" => req[v].start <= now
        BY DEF ConfigInv, TimeInv
      <4>2. req[v].start \in Nat
        BY <1>0 DEF WorkerTypes, Request
      <4> QED BY <3>1, <4>1, <4>2, <1>0, <1>70, CodeAssumption, BoundsAssumption DEF FromTable
    <3>2. CASE req[v].salt # old
      BY <2>2, <3>2, <1>70 DEF ConfigInv, RetiredInv
    <3> QED BY <3>1, <3>2
  <2> QED BY <2>1, <2>2, <1>1, <1>4, <1>6 DEF ConfigInv, RetiredInv, Others
<1>10. Current <= Current'
  <2>1. CASE rows = <<>>
    BY <2>1, <1>7
  <2>2. CASE rows # <<>>
    <3>1. 1 \in DOMAIN rows /\ rows' # <<>> /\ rows[1] \in 1..salts
      BY <2>2, <1>0, <1>2 DEF ConfigInv, RowsInv
    <3> QED BY <2>2, <3>1, <1>0, <1>1, <1>2 DEF Current
  <2> QED BY <2>1, <2>2
<1>11. SinceInv' /\ RaceInv'
  BY <1>1, <1>3, <1>4, <1>10, NewSaltKeepsRace
<1> QED BY <1>5, <1>8, <1>9, <1>11 DEF ConfigInv

\* A rotation that forgets the cached config leaves none, or a race if the call fails.
LEMMA ClearConfigKeeps ==
  ASSUME Types, ConfigInv, NEW w \in Workers, ClearConfig(w)
  PROVE  ConfigInv'
<1>0. WorkerTypes /\ Null.value = 0
  BY DEF Types, Null
<1>1. /\ UNCHANGED <<now, rows, shown, salts, retired>> /\ Current' = Current
      /\ pc[w] = "clear"
      /\ \/ cached' = Null /\ raced' = raced
         \/ cached' = cached /\ raced' = TRUE
  BY DEF ClearConfig, Current, Types, ConfigTypes
<1>2. /\ pc'[w] \in {"config", "save", "store"} /\ req'[w] = req[w] /\ Others(w)
      /\ pc'[w] # "config" => FromTable(w)
  <2>1. Goto(w, AfterClear(req[w])) /\ AfterClear(req[w]) \in PCs
    BY AfterTypes DEF ClearConfig, PCs
  <2>2. pc'[w] = AfterClear(req[w]) /\ req'[w] = req[w] /\ Others(w)
    BY <2>1, <1>0, GotoStep DEF Others
  <2> QED BY <2>2, <1>1, AfterTypes DEF AfterClear, FromTable
<1>3. TimeInv'
  BY <1>1, <1>2 DEF ConfigInv, TimeInv, Others
<1>4. \A v \in Workers : FromTable(v)' => FromTable(v)
  BY <1>2 DEF FromTable, Others
<1>5. RowsInv'
  BY <1>1, <1>2, <1>4 DEF ConfigInv, RowsInv, Others
<1>6. RetiredInv'
  BY <1>1, <1>2, <1>4 DEF ConfigInv, RetiredInv, Others
<1>7. SinceInv'
  BY <1>1, <1>2 DEF ConfigInv, SinceInv, Others
<1>8. ASSUME ~raced' PROVE CacheCurrent' /\ SaltsCurrent'
  <2>0. SaltsCurrent /\ cached' = Null
    BY <1>8, <1>1 DEF ConfigInv, RaceInv
  <2>1. CacheCurrent'
    BY <2>0 DEF CacheCurrent
  <2>2. SaltsCurrent'
    BY <2>0, <1>1, <1>2, <1>4 DEF SaltsCurrent, Others
  <2> QED BY <2>1, <2>2
<1>9. RaceInv'
  BY <1>8 DEF RaceInv
<1> QED BY <1>3, <1>5, <1>6, <1>7, <1>9 DEF ConfigInv

\* A reader that stores an outdated config has raced with a rotation.
LEMMA StoreConfigKeeps ==
  ASSUME Types, ConfigInv, NEW w \in Workers, StoreConfig(w)
  PROVE  ConfigInv'
<1> DEFINE r == req[w]
           e == [value |-> r.salt, until |-> now + ConfigTimeout]
<1>0. /\ WorkerTypes /\ r \in Request /\ r.salt \in Nat /\ r.start \in Nat /\ now \in Nat
      /\ cached \in Entry /\ Current \in Nat
  BY CurrentType DEF Types, WorkerTypes, ConfigTypes, Request
<1>1. /\ UNCHANGED <<now, rows, shown, salts, retired>> /\ Current' = Current
      /\ pc[w] = "store"
      /\ cached' = e \/ cached' = cached
      /\ raced' = (raced \/ r.salt # Current \/ cached'.value \notin {0, Current})
  BY DEF StoreConfig, Current
<1>2. pc'[w] = "use" /\ req'[w] = r /\ Others(w)
  BY <1>0, GotoStep DEF StoreConfig, Others, PCs
<1>3. TimeInv'
  BY <1>1, <1>2 DEF ConfigInv, TimeInv, Others
<1>4. FromTable(w) /\ ~FromTable(w)' /\ \A v \in Workers \ {w} : FromTable(v)' = FromTable(v)
  BY <1>1, <1>2 DEF FromTable, Others
<1>5. RowsInv'
  BY <1>1, <1>2, <1>4 DEF ConfigInv, RowsInv, Others
<1>6. RetiredInv'
  <2>1. /\ now \in Nat /\ now < e.until /\ e.until <= now + ConfigTimeout /\ e.value = r.salt
        /\ e.until = now + ConfigTimeout
    BY <1>0, CodeAssumption
  <2>2. r.salt \in DOMAIN retired =>
          /\ r.start <= retired[r.salt] /\ retired[r.salt] \in Nat /\ now <= r.start + RequestTimeout
    BY <1>1, <1>4, <1>0 DEF ConfigInv, RetiredInv, RowsInv, TimeInv
  <2>3. r.salt \in DOMAIN retired =>
          /\ e.until <= retired[r.salt] + RequestTimeout + ConfigTimeout
          /\ r.start <= retired[r.salt] + RequestTimeout + ConfigTimeout
    BY <1>0, <2>1, <2>2, CodeAssumption, BoundsAssumption
  <2> HIDE DEF e
  <2>4. cached' # Null =>
          /\ now' < cached'.until /\ cached'.until <= now' + ConfigTimeout
          /\ cached'.value \in DOMAIN retired
               => cached'.until <= retired[cached'.value] + RequestTimeout + ConfigTimeout
    BY <2>1, <2>3, <1>1 DEF ConfigInv, RetiredInv
  <2> QED BY <2>3, <2>4, <1>1, <1>2, <1>4 DEF ConfigInv, RetiredInv, Others
<1>7. SinceInv'
  BY <1>1, <1>2 DEF ConfigInv, SinceInv, Others
<1>8. ASSUME ~raced' PROVE CacheCurrent' /\ SaltsCurrent'
  <2>0. CacheCurrent /\ SaltsCurrent /\ r.salt = Current /\ cached'.value \in {0, Current}
    BY <1>8, <1>1 DEF ConfigInv, RaceInv
  <2>1. Current > 0
    BY <2>0, <1>4 DEF SaltsCurrent
  <2>2. cached' # Null => cached'.value = Current
    <3>1. CASE cached' = e
      BY <3>1, <2>0
    <3>2. CASE cached' = cached
      BY <3>2, <2>0, <1>0 DEF CacheCurrent
    <3> QED BY <3>1, <3>2, <1>1
  <2>3. CacheCurrent'
    <3>1. \A v \in Workers : pc'[v] # "idle" => req'[v].since <= Current
      BY <1>1, <1>7 DEF SinceInv
    <3>2. \A v \in Workers : pc'[v] = "use" => req'[v].salt <= Current
      BY <2>0, <1>0, <1>2 DEF SaltsCurrent, Others
    <3>3. \A code \in shown : code[1] <= Current
      BY <2>0 DEF SaltsCurrent
    <3> QED BY <2>1, <2>2, <3>1, <3>2, <3>3, <1>0, <1>1 DEF CacheCurrent
  <2>4. SaltsCurrent'
    BY <2>0, <1>0, <1>1, <1>2, <1>4 DEF SaltsCurrent, Others
  <2> QED BY <2>3, <2>4
<1>9. RaceInv'
  BY <1>8 DEF RaceInv
<1> QED BY <1>3, <1>5, <1>6, <1>7, <1>9 DEF ConfigInv

\* A code is shown with the salt of the config that the request holds.
LEMMA ShowCodeKeeps ==
  ASSUME Types, ConfigInv, NEW w \in Workers, ShowCode(w)
  PROVE  ConfigInv'
<1> DEFINE code == <<req[w].salt, WindowIndex(now)>>
<1>0. WorkerTypes /\ code \in Nat \X Nat /\ code[1] = req[w].salt
  BY DivBounds, CodeAssumption DEF Types, WorkerTypes, ConfigTypes, Request, WindowIndex
<1>1. /\ UNCHANGED <<now, rows, cached, salts, retired, raced>> /\ Current' = Current
      /\ shown' = shown \cup {code} /\ pc[w] = "use"
  BY DEF ShowCode, Current
<1>2. pc'[w] = "idle" /\ Others(w)
  BY <1>0, IdleType, GotoWithStep DEF ShowCode, Reply, PCs, Others
<1>3. TimeInv'
  BY <1>1, <1>2 DEF ConfigInv, TimeInv, Others
<1>4. ~FromTable(w)' /\ \A v \in Workers \ {w} : FromTable(v)' = FromTable(v)
  BY <1>2 DEF FromTable, Others
<1>5. RowsInv'
  BY <1>1, <1>2, <1>4 DEF ConfigInv, RowsInv, Others
<1>6. RetiredInv'
  BY <1>1, <1>2, <1>4 DEF ConfigInv, RetiredInv, Others
<1>7. SinceInv'
  BY <1>1, <1>2 DEF ConfigInv, SinceInv, Others
<1>8. ASSUME ~raced PROVE CacheCurrent' /\ SaltsCurrent'
  <2>0. CacheCurrent /\ SaltsCurrent
    BY <1>8 DEF ConfigInv, RaceInv
  <2>1. (\E v \in Workers : pc[v] = "clear") => \E v \in Workers : pc'[v] = "clear"
    BY <1>1, <1>2 DEF Others
  <2> HIDE DEF code
  <2>2. CacheCurrent'
    BY <2>0, <2>1, <1>0, <1>1, <1>2 DEF CacheCurrent, Others
  <2>3. \A v \in Workers : pc[v] # "idle" /\ req[v].code \in shown' => req[v].code \in shown
    BY <1>0, <1>1, CodeAssumption DEF ConfigInv, SinceInv
  <2>4. SaltsCurrent'
    BY <2>0, <2>3, <1>0, <1>1, <1>2, <1>4 DEF SaltsCurrent, Others, FromTable
  <2> QED BY <2>2, <2>4
<1>9. RaceInv'
  BY <1>8, <1>1 DEF RaceInv
<1> QED BY <1>3, <1>5, <1>6, <1>7, <1>9 DEF ConfigInv

\* The types and ConfigInv hold at the start and are kept by every step.
LEMMA ConfigInitially == Init => Types /\ ConfigInv
<1> SUFFICES ASSUME Init PROVE Types /\ ConfigInv
  OBVIOUS
<1>1. rows = <<>> \/ rows = <<1>>
  BY BoundsAssumption DEF Init
<1>2. /\ now = 0 /\ salts = Len(rows) /\ cached = Null /\ shown = {} /\ raced = FALSE
      /\ retired = [x \in {} |-> 0]
      /\ \A v \in Workers : pc[v] = "idle" /\ req[v] = Idle
      /\ Idle.salt = 0
  BY DEF Init, Idle
<1>3. ConfigTypes
  <2>1. rows \in Seq(Nat) /\ Len(rows) \in Nat
    <3>1. CASE rows = <<>>
      BY <3>1
    <3>2. CASE rows = <<1>>
      BY <3>2
    <3> QED BY <1>1, <3>1, <3>2
  <2> QED BY <1>2, <2>1, IdleType DEF ConfigTypes
<1>4. LimitTypes
  BY BoundsAssumption DEF Init, LimitTypes
<1>5. WorkerTypes
  BY IdleType DEF Init, WorkerTypes, PCs
<1>6. RowsInv
  BY <1>1, <1>2 DEF RowsInv, FromTable
<1> QED BY <1>2, <1>3, <1>4, <1>5, <1>6
  DEF Types, ConfigInv, TimeInv, RetiredInv, SinceInv, RaceInv, CacheCurrent, SaltsCurrent, FromTable

\* Every step keeps the invariant of the configuration.
LEMMA ConfigStep == Types /\ ConfigInv /\ [Next]_vars => (Types /\ ConfigInv)'
<1> SUFFICES ASSUME Types, ConfigInv, [Next]_vars PROVE Types' /\ ConfigInv'
  OBVIOUS
<1>1. ASSUME NEW w \in Workers, Receive(w) PROVE Types' /\ ConfigInv'
  BY <1>1, ReceiveTypes, ReceiveKeeps
<1>2. ASSUME NEW w \in Workers, Registration(w) PROVE Types' /\ ConfigInv'
  BY <1>2, RegistrationQuiet, QuietKeeps
<1>3. ASSUME NEW w \in Workers, Code(w) PROVE Types' /\ ConfigInv'
  <2>1. Types'
    BY <1>3, CodeTypes
  <2> QED BY <2>1, <1>3, GetConfigKeeps, LoadConfigKeeps, CreateConfigKeeps, SaveSaltKeeps,
             ClearConfigKeeps, StoreConfigKeeps, ShowCodeKeeps DEF Code
<1>4. ASSUME NEW w \in Workers, Killed(w) PROVE Types' /\ ConfigInv'
  BY <1>4, KilledTypes, KilledKeeps
<1>5. CASE Tick
  BY <1>5, TickTypes, TickKeeps
<1>6. CASE UNCHANGED vars
  BY <1>6 DEF vars, config, limits, Types, ConfigTypes, LimitTypes, WorkerTypes, ConfigInv, TimeInv,
     RowsInv, RetiredInv, SinceInv, RaceInv, CacheCurrent, SaltsCurrent, FromTable, Current
<1> QED BY <1>1, <1>2, <1>3, <1>4, <1>5, <1>6 DEF Next

\* Every variable keeps its type, and the salts, the cached config and the shown codes stay
\* related as ConfigInv says.
THEOREM ConfigIsInvariant == Spec => [](Types /\ ConfigInv)
BY ConfigInitially, ConfigStep, PTL DEF Spec

\* rotate_registration_code, _registration_config_values: a replaced code is refused at once
\* unless one of the named races happened, and whatever happened it is dead when the timeout
\* of the cached config and two request timeouts have passed.
THEOREM RotatedCodesDie == Spec => []RotatedCodeDies
<1>1. Types /\ ConfigInv => RotatedCodeDies
  <2> SUFFICES ASSUME Types, ConfigInv, NEW w \in Workers, pc[w] = "save_user"
               PROVE  /\ raced \/ req[w].salt >= req[w].since
                      /\ req[w].salt \in DOMAIN retired
                           => now - retired[req[w].salt] <= ConfigTimeout + 2 * RequestTimeout
    BY DEF RotatedCodeDies
  <2>0. req[w].salt \in Nat /\ req[w].since \in Nat /\ req[w].start \in Nat /\ now \in Nat
    BY DEF Types, WorkerTypes, ConfigTypes, Request
  <2>1. raced \/ req[w].salt >= req[w].since
    BY <2>0 DEF ConfigInv, RaceInv, SaltsCurrent
  <2>2. ASSUME req[w].salt \in DOMAIN retired
        PROVE  now - retired[req[w].salt] <= ConfigTimeout + 2 * RequestTimeout
    <3>1. /\ req[w].start <= retired[req[w].salt] + RequestTimeout + ConfigTimeout
          /\ now <= req[w].start + RequestTimeout
          /\ retired[req[w].salt] \in Nat
      BY <2>2, <2>0 DEF ConfigInv, RetiredInv, TimeInv, RowsInv
    <3>2. \A t, start \in Nat : start <= t + RequestTimeout + ConfigTimeout /\ now <= start + RequestTimeout
            => now - t <= ConfigTimeout + 2 * RequestTimeout
      BY <2>0, CodeAssumption, BoundsAssumption
    <3> QED BY <3>1, <3>2, <2>0
  <2> QED BY <2>1, <2>2
<1> QED BY <1>1, ConfigIsInvariant, PTL

\* Only the worker that takes a step moves.
LEMMA OneMoves ==
  ASSUME Types, NEW w \in Workers, Receive(w) \/ Registration(w) \/ Code(w) \/ Killed(w)
  PROVE  Others(w)
BY ReceiveTypes, RegistrationQuiet, CodeTypes, KilledTypes DEF ReceiveStep, QuietStep

\* get_current_registration_code_info against validate_registration_code: a code that was
\* shown, whose salt is in force and whose window has not passed is not refused, unless the
\* cached config was not that of the first row.
THEOREM ShownCodesWork == Spec => ShownCodeWorks
<1>1. ASSUME Types, ConfigInv, Next, NEW w \in Workers,
             pc[w] = "use", pc'[w] = "add", CodeInForce(req[w].code), ~raced
      PROVE  FALSE
  <2>1. PICK v \in Workers : Receive(v) \/ Registration(v) \/ Code(v) \/ Killed(v)
    BY <1>1 DEF Next, Tick
  <2>2. v = w
    BY <1>1, <2>1, OneMoves DEF Others
  <2>3. Registration(w)
    BY <1>1, <2>1, <2>2, KilledTypes, CodeTypes
    DEF Receive, ReceiveRegistration, ReceiveShow, ReceiveRotate
  <2>4. CheckCode(w)
    BY <1>1, <2>3 DEF Registration, CheckBlocked, CounterAdd, CounterIncr, CounterReread, CounterSet,
       RejectPassword, AcceptPassword, SaveUser, SetBlocked, ClearFailures, ClearBlocked
  <2> DEFINE code == req[w].code
             salt == req[w].salt
  <2>5. code \notin ValidCodes(salt, now)
    <3>1. Goto(w, "save_user") => pc'[w] = "save_user"
      BY <1>1, GotoStep DEF Types, PCs
    <3> QED BY <1>1, <2>4, <3>1 DEF CheckCode
  <2>6. /\ code \in shown /\ code \in Nat \X Nat /\ code[1] = Current /\ salt \in Nat /\ now \in Nat
        /\ Current \in Nat
    BY <1>1, CurrentType DEF CodeInForce, Types, ConfigTypes, WorkerTypes, Request
  <2>7. salt <= Current /\ code[1] <= salt
    BY <1>1, <2>6 DEF ConfigInv, RaceInv, SaltsCurrent
  <2>8. salt = code[1] /\ code = <<code[1], code[2]>> /\ code[2] \in Nat
    BY <2>6, <2>7
  <2>9. code[2] = WindowIndex(now) \/ (AllowPreviousWindow /\ code[2] = WindowIndex(now) - 1)
    BY <1>1, <2>8 DEF CodeInForce
  <2>10. code \in ValidCodes(salt, now)
    <3> HIDE DEF code, salt
    <3> QED BY <2>8, <2>9 DEF ValidCodes
  <2> QED BY <2>5, <2>10
<1>2. Types /\ ConfigInv /\ [Next]_vars =>
        [\A w \in Workers :
           pc[w] = "use" /\ pc'[w] = "add" /\ CodeInForce(req[w].code) => raced]_vars
  BY <1>1
<1> QED BY <1>2, ConfigIsInvariant, PTL DEF Spec, ShownCodeWorks

(***************************************************************************)
(* The cooldown.                                                           *)
(***************************************************************************)

\* That the cache has failed, or a counter expired within an attempt, is not forgotten.
LEMMA FaultsStay ==
  ASSUME Types, Next
  PROVE  (degraded => degraded') /\ (lapsed => lapsed')
<1>1. \A up : Call(up) => (degraded => degraded')
  BY DEF Call
<1>2. CASE Tick
  BY <1>2 DEF Tick
<1>3. ASSUME NEW w \in Workers, Receive(w)
      PROVE  (degraded => degraded') /\ (lapsed => lapsed')
  <2>1. UNCHANGED <<degraded, lapsed>>
    BY <1>3 DEF Receive, ReceiveRegistration, ReceiveShow, ReceiveRotate, limits
  <2> QED BY <2>1
<1>4. ASSUME NEW w \in Workers, Registration(w)
      PROVE  (degraded => degraded') /\ (lapsed => lapsed')
  <2>1. degraded => degraded'
    BY <1>1, <1>4 DEF Registration, CheckBlocked, CounterAdd, CounterIncr, CounterReread, CounterSet,
       RejectPassword, AcceptPassword, CheckCode, SaveUser, SetBlocked, ClearFailures, ClearBlocked
  <2>2. CASE CounterIncr(w)
    BY <2>1, <2>2 DEF CounterIncr
  <2>3. CASE ~CounterIncr(w)
    <3>1. UNCHANGED lapsed
      BY <1>4, <2>3 DEF Registration, CheckBlocked, CounterAdd, CounterReread, CounterSet,
         RejectPassword, AcceptPassword, CheckCode, SaveUser, SetBlocked, ClearFailures, ClearBlocked,
         limits
    <3> QED BY <2>1, <3>1
  <2> QED BY <2>2, <2>3
<1>5. ASSUME NEW w \in Workers, Code(w)
      PROVE  (degraded => degraded') /\ (lapsed => lapsed')
  <2>1. degraded => degraded'
    BY <1>1, <1>5 DEF Code, GetConfig, LoadConfig, CreateConfig, SaveSalt, ClearConfig, StoreConfig,
       ShowCode
  <2>2. UNCHANGED lapsed
    BY <1>5 DEF Code, GetConfig, LoadConfig, CreateConfig, SaveSalt, ClearConfig, StoreConfig,
       ShowCode, limits
  <2> QED BY <2>1, <2>2
<1>6. ASSUME NEW w \in Workers, Killed(w)
      PROVE  (degraded => degraded') /\ (lapsed => lapsed')
  BY <1>6 DEF Killed
<1> QED BY <1>2, <1>3, <1>4, <1>5, <1>6 DEF Next

\* A count adds the wait it earns to the sentence and goes on to write the block, or leaves the
\* sentence as it is.
LEMMA CountedSentence ==
  ASSUME Types, NEW w \in Workers, NEW n \in Nat, Counted(w, n)
  PROVE  \/ UNCHANGED sentence
         \/ /\ pc'[w] = "block"
            /\ sentence' <= req'[w].at + Cooldown(req'[w].n)
<1> DEFINE r == req[w]
           s == [r EXCEPT !.n = n]
<1>0. /\ WorkerTypes /\ r \in Request /\ sentence \in Nat /\ r.at \in Nat
  BY DEF Types, WorkerTypes, LimitTypes, Request
<1>1. CASE UNCHANGED sentence
  BY <1>1
<1>2. CASE ~UNCHANGED sentence
  <2>1. sentence' = Sentence(r.at, n) /\ (IF Cooldown(n) = 0 THEN Reply(w) ELSE GotoWith(w, "block", s))
    BY <1>2 DEF Counted
  <2>2. Cooldown(n) # 0 /\ sentence' <= r.at + Cooldown(n)
    BY <1>0, <1>2, <2>1, SentenceType
  <2>3. s \in Request /\ s.at = r.at /\ s.n = n
    <3> HIDE DEF r
    <3> QED BY <1>0 DEF Request
  <2>4. pc'[w] = "block" /\ req'[w] = s
    <3> HIDE DEF s
    <3> QED BY <1>0, <2>1, <2>2, <2>3, GotoWithStep DEF PCs
  <2> HIDE DEF s
  <2> QED BY <2>2, <2>3, <2>4
<1> QED BY <1>1, <1>2

\* What a step that is neither SetBlocked nor ClearBlocked nor the death of a worker does to the
\* block and the sentence: nothing, or it counts a failure.
LEMMA BlockStays ==
  ASSUME Types, NEW w \in Workers, Receive(w) \/ Registration(w) \/ Code(w),
         ~SetBlocked(w), ~ClearBlocked(w)
  PROVE  /\ UNCHANGED <<blocked, spared>>
         /\ pc[w] # "block"
         /\ \/ UNCHANGED sentence
            \/ pc'[w] = "block" /\ sentence' <= req'[w].at + Cooldown(req'[w].n)
<1>1. CASE Receive(w)
  BY <1>1 DEF Receive, ReceiveRegistration, ReceiveShow, ReceiveRotate, limits
<1>2. CASE Code(w)
  BY <1>2 DEF Code, GetConfig, LoadConfig, CreateConfig, SaveSalt, ClearConfig, StoreConfig,
     ShowCode, limits
<1>3. CASE \/ CheckBlocked(w) \/ CounterReread(w) \/ RejectPassword(w) \/ AcceptPassword(w)
           \/ CheckCode(w) \/ SaveUser(w) \/ ClearFailures(w)
  BY <1>3 DEF CheckBlocked, CounterReread, RejectPassword, AcceptPassword, CheckCode, SaveUser,
     ClearFailures, limits
<1>4. CASE CounterAdd(w)
  <2>1. UNCHANGED <<blocked, spared>> /\ pc[w] # "block" /\ (Counted(w, 0) \/ UNCHANGED sentence)
    BY <1>4 DEF CounterAdd
  <2> QED BY <2>1, CountedSentence
<1>5. CASE CounterIncr(w)
  <2> DEFINE c == counters[req[w].key]
  <2>1. /\ UNCHANGED <<blocked, spared>> /\ pc[w] # "block"
        /\ (req[w].key \in DOMAIN counters /\ Counted(w, c.value + 1)) \/ UNCHANGED sentence
    BY <1>5 DEF CounterIncr
  <2>2. req[w].key \in DOMAIN counters => c.value + 1 \in Nat
    BY DEF Types, LimitTypes, Entry
  <2> QED BY <2>1, <2>2, CountedSentence
<1>6. CASE CounterSet(w)
  <2>1. UNCHANGED <<blocked, spared>> /\ pc[w] # "block" /\ (Counted(w, 0) \/ Counted(w, req[w].n))
    BY <1>6 DEF CounterSet
  <2>2. req[w].n \in Nat
    BY DEF Types, WorkerTypes, Request
  <2> QED BY <2>1, <2>2, CountedSentence
<1> QED BY <1>1, <1>2, <1>3, <1>4, <1>5, <1>6 DEF Registration

\* Who is about to write a block still is when another worker has taken a step.
LEMMA OthersSentence ==
  ASSUME NEW w \in Workers, Others(w), UNCHANGED sentence,
         NEW v \in Workers \ {w}, pc[v] = "block", sentence <= req[v].at + Cooldown(req[v].n)
  PROVE  Sentencing'
BY DEF Others, Sentencing

\* Every step keeps the block as long as the sentence, or a worker about to make it so, or notes
\* why not.
LEMMA CooldownStep == Types /\ CooldownInv /\ [Next]_vars => CooldownInv'
<1> SUFFICES ASSUME Types, CooldownInv, [Next]_vars PROVE CooldownInv'
  OBVIOUS
<1>0. /\ blocked \in Nat /\ sentence \in Nat /\ WorkerTypes
      /\ degraded \in BOOLEAN /\ spared \in BOOLEAN
  BY DEF Types, LimitTypes
<1>1. ASSUME NEW w \in Workers, Next, SetBlocked(w) PROVE CooldownInv'
  <2> DEFINE until == req[w].at + Cooldown(req[w].n)
  <2>1. req[w].at \in Nat /\ req[w].n \in Nat
    BY <1>0 DEF WorkerTypes, Request
  <2>2. until \in Nat
    BY <2>1, CooldownLongest
  <2>3. SUFFICES ASSUME ~degraded', ~spared' PROVE sentence' <= blocked' \/ Sentencing'
    BY DEF CooldownInv
  <2>4. /\ ~degraded /\ ~spared /\ blocked' = until /\ UNCHANGED sentence
        /\ ~(blocked' < blocked)
    BY <1>1, <1>0, <2>3 DEF SetBlocked, Call
  <2>5. Others(w)
    BY <1>1, OneMoves DEF Registration
  <2> HIDE DEF until
  <2>6. CASE sentence <= blocked
    BY <2>6, <2>4, <2>2, <1>0
  <2>7. CASE Sentencing
    <3>1. PICK v \in Workers : pc[v] = "block" /\ sentence <= req[v].at + Cooldown(req[v].n)
      BY <2>7 DEF Sentencing
    <3>2. CASE v = w
      BY <3>1, <3>2, <2>4 DEF until
    <3>3. CASE v # w
      BY <3>1, <3>3, <2>4, <2>5, OthersSentence
    <3> QED BY <3>2, <3>3
  <2> QED BY <2>4, <2>6, <2>7 DEF CooldownInv
<1>2. ASSUME NEW w \in Workers, ClearBlocked(w) PROVE CooldownInv'
  BY <1>2, <1>0 DEF ClearBlocked, CooldownInv
<1>3. ASSUME NEW w \in Workers, Next, Receive(w) \/ Registration(w) \/ Code(w),
             ~SetBlocked(w), ~ClearBlocked(w)
      PROVE  CooldownInv'
  <2>1. /\ UNCHANGED <<blocked, spared>> /\ pc[w] # "block" /\ (degraded => degraded') /\ Others(w)
        /\ \/ UNCHANGED sentence
           \/ pc'[w] = "block" /\ sentence' <= req'[w].at + Cooldown(req'[w].n)
    BY <1>3, BlockStays, FaultsStay, OneMoves
  <2>2. CASE pc'[w] = "block" /\ sentence' <= req'[w].at + Cooldown(req'[w].n)
    BY <2>2 DEF CooldownInv, Sentencing
  <2>3. CASE UNCHANGED sentence
    <3>1. Sentencing => Sentencing'
      BY <2>1, <2>3, OthersSentence DEF Sentencing
    <3> QED BY <2>1, <2>3, <3>1 DEF CooldownInv
  <2> QED BY <2>1, <2>2, <2>3
<1>4. ASSUME NEW w \in Workers, Killed(w) PROVE CooldownInv'
  <2>1. /\ UNCHANGED <<blocked, sentence, degraded>> /\ spared' = (spared \/ pc[w] = "block")
        /\ Others(w)
    BY <1>4, KilledTypes DEF Killed
  <2>2. SUFFICES ASSUME ~spared, pc[w] # "block" PROVE CooldownInv'
    BY <2>1 DEF CooldownInv
  <2>3. Sentencing => Sentencing'
    BY <2>1, <2>2, OthersSentence DEF Sentencing
  <2> QED BY <2>1, <2>2, <2>3 DEF CooldownInv
<1>5. CASE Tick
  BY <1>5 DEF Tick, CooldownInv, Sentencing
<1>6. CASE UNCHANGED vars
  BY <1>6 DEF vars, limits, CooldownInv, Sentencing
<1> QED BY <1>1, <1>2, <1>3, <1>4, <1>5, <1>6 DEF Next

\* register_failure, check_registration_limits: as long as the cache answers, no worker is killed
\* between the count of a failure and its block and no shorter block overwrites a longer one, an
\* attempt passes only when the longest cooldown that the failures counted since the last success
\* have earned is over, or while a worker is between that count and its block.
THEOREM CooldownIsServed == Spec => CooldownServed
<1>1. Init => CooldownInv
  BY DEF Init, CooldownInv
<1>2. Spec => []CooldownInv
  BY <1>1, CooldownStep, ConfigIsInvariant, PTL DEF Spec
<1>3. ASSUME Types, CooldownInv, Next, NEW w \in Workers, pc[w] = "blocked", pc'[w] = "add",
             \A v \in Workers : pc[v] # "block", ~spared, ~degraded'
      PROVE  now >= sentence
  <2>1. PICK v \in Workers : Receive(v) \/ Registration(v) \/ Code(v) \/ Killed(v)
    BY <1>3 DEF Next, Tick
  <2>2. v = w
    BY <1>3, <2>1, OneMoves DEF Others
  <2>3. Registration(w)
    BY <1>3, <2>1, <2>2, KilledTypes, CodeTypes
    DEF Receive, ReceiveRegistration, ReceiveShow, ReceiveRotate
  <2>4. CheckBlocked(w)
    BY <1>3, <2>3 DEF Registration, CounterAdd, CounterIncr, CounterReread, CounterSet, CheckCode,
       RejectPassword, AcceptPassword, SaveUser, SetBlocked, ClearFailures, ClearBlocked
  <2>5. ~Reply(w)
    BY <1>3, IdleType, GotoWithStep DEF Reply, Types, PCs
  <2>6. ~degraded /\ ~(blocked > now)
    BY <1>3, <2>4, <2>5 DEF CheckBlocked, Call
  <2>7. ~Sentencing
    BY <1>3 DEF Sentencing
  <2> QED BY <1>3, <2>6, <2>7 DEF CooldownInv, Types, ConfigTypes, LimitTypes
<1>4. Types /\ CooldownInv /\ [Next]_vars =>
        [\A w \in Workers :
           pc[w] = "blocked" /\ pc'[w] = "add" =>
             \/ now >= sentence
             \/ \E v \in Workers : pc[v] = "block"
             \/ spared \/ degraded']_vars
  BY <1>3
<1> QED BY <1>2, <1>4, ConfigIsInvariant, PTL DEF Spec, CooldownServed

(***************************************************************************)
(* The attempts of an address.                                             *)
(***************************************************************************)

\* A larger number holds a divisor as often or more often.
LEMMA DivMonotone ==
  ASSUME NEW a \in Nat, NEW b \in Nat, NEW d \in Nat \ {0}, a <= b
  PROVE  a \div d <= b \div d
<1> DEFINE p == a \div d
           q == b \div d
<1>1. p \in Nat /\ q \in Nat /\ p * d <= a /\ b < q * d + d
  BY DivBounds
<1>2. \A m, n \in Nat : n < m => n * d + d <= m * d
  OBVIOUS
<1> HIDE DEF p, q
<1>3. ~(q < p)
  BY <1>1, <1>2
<1> QED BY <1>1, <1>3 DEF p, q

\* A number that is larger by the divisor holds it once more.
LEMMA DivNext ==
  ASSUME NEW a \in Nat, NEW d \in Nat \ {0}
  PROVE  (a + d) \div d = a \div d + 1
<1> DEFINE p == a \div d
           q == (a + d) \div d
<1>1. p \in Nat /\ p * d <= a /\ a < p * d + d
  BY DivBounds
<1>2. q \in Nat /\ q * d <= a + d /\ a + d < q * d + d
  <2>1. a + d \in Nat
    OBVIOUS
  <2> QED BY <2>1, DivBounds
<1>3. \A m, n \in Nat : n < m => n * d + d <= m * d
  OBVIOUS
<1>4. (p + 1) * d = p * d + d /\ p * d \in Nat /\ q * d \in Nat
  BY <1>1, <1>2
<1> HIDE DEF p, q
<1>5. ~(q < p + 1) /\ ~(p + 1 < q)
  BY <1>1, <1>2, <1>3, <1>4
<1> QED BY <1>1, <1>2, <1>5 DEF p, q

\* A window starts and ends at a tick.
LEMMA WindowTypes ==
  ASSUME NEW i \in Nat
  PROVE  /\ WindowStart(i) \in Nat /\ WindowEnd(i) \in Nat
         /\ WindowEnd(i) = WindowStart(i) + REGISTER_WINDOW
BY LimitsAssumption DEF WindowStart, WindowEnd

\* Counters follow one another: the count of those that have expired grows with the time, by one
\* with each lifetime, and is bounded as long as requests of the window are served.
LEMMA LivesBounds ==
  ASSUME NEW i \in Nat, NEW t \in Nat, WindowStart(i) <= t
  PROVE  /\ Lives(i, t) \in Nat
         /\ Lives(i, t + (REGISTER_WINDOW + 1)) = Lives(i, t) + 1
         /\ \A u \in Nat : t <= u => Lives(i, t) <= Lives(i, u)
         /\ InTime(i, t) => Lives(i, t) + 1 <= CountersOfAWindow
<1> DEFINE d == REGISTER_WINDOW + 1
           a == t - WindowStart(i)
<1>1. d \in Nat \ {0} /\ a \in Nat /\ WindowStart(i) \in Nat
  BY WindowTypes, LimitsAssumption
<1>2. Lives(i, t) = a \div d /\ a \div d \in Nat
  BY <1>1, DivBounds DEF Lives
<1>3. Lives(i, t + (REGISTER_WINDOW + 1)) = (a + d) \div d
  <2>1. (t + (REGISTER_WINDOW + 1)) - WindowStart(i) = a + d
    BY <1>1
  <2> QED BY <2>1 DEF Lives
<1>4. (a + d) \div d = a \div d + 1
  <2> HIDE DEF a, d
  <2> QED BY <1>1, DivNext
<1>5. ASSUME NEW u \in Nat, t <= u PROVE Lives(i, t) <= Lives(i, u)
  <2> DEFINE b == u - WindowStart(i)
  <2>1. b \in Nat /\ a <= b
    BY <1>1, <1>5
  <2>2. Lives(i, u) = b \div d
    BY DEF Lives
  <2> HIDE DEF a, b, d
  <2> QED BY <1>1, <1>2, <2>1, <2>2, DivMonotone
<1>6. ASSUME InTime(i, t) PROVE Lives(i, t) + 1 <= CountersOfAWindow
  <2> DEFINE b == REGISTER_WINDOW - 1 + RequestTimeout
  <2>1. b \in Nat /\ a <= b
    BY <1>1, <1>6, LimitsAssumption, BoundsAssumption DEF InTime, WindowEnd
  <2>2. CountersOfAWindow = 1 + b \div d
    BY DEF CountersOfAWindow
  <2> HIDE DEF a, b, d
  <2>3. a \div d <= b \div d /\ a \div d \in Nat /\ b \div d \in Nat
    BY <1>1, <2>1, DivMonotone, DivBounds
  <2> QED BY <1>2, <2>2, <2>3
<1> QED BY <1>2, <1>3, <1>4, <1>5, <1>6

\* Each counter lets REGISTER_IP_LIMIT attempts pass.
LEMMA PassedBounds ==
  ASSUME NEW n \in Nat
  PROVE  /\ Passed(n) \in Nat
         /\ Passed(n + 1) = Passed(n) + REGISTER_IP_LIMIT
         /\ \A m \in Nat : n <= m => Passed(n) <= Passed(m)
<1>1. REGISTER_IP_LIMIT \in Nat
  BY LimitsAssumption
<1>2. \A l \in Nat : l * n \in Nat /\ l * (n + 1) = l * n + l
  OBVIOUS
<1>3. \A l, m \in Nat : n <= m => l * n <= l * m
  <2> SUFFICES ASSUME NEW l \in Nat, NEW m \in Nat, n <= m PROVE l * n <= l * m
    OBVIOUS
  <2>1. m - n \in Nat /\ m = n + (m - n)
    OBVIOUS
  <2>2. l * (m - n) \in Nat /\ l * m = l * n + l * (m - n)
    BY <2>1
  <2> QED BY <2>2
<1> QED BY <1>1, <1>2, <1>3 DEF Passed

\* A window may have at least one counter.
LEMMA CountersType == CountersOfAWindow \in Nat
<1>1. REGISTER_WINDOW - 1 + RequestTimeout \in Nat /\ REGISTER_WINDOW + 1 \in Nat \ {0}
  BY LimitsAssumption, BoundsAssumption
<1> QED BY <1>1, DivBounds DEF CountersOfAWindow

\* A counter that is created at time t covers what passed before.
LEMMA NewCovers ==
  ASSUME NEW i \in Nat, NEW t \in Nat, NEW c, NEW a \in Nat, WindowStart(i) <= t,
         c.value = 0, c.until = t + (REGISTER_WINDOW + 1), Uncovered(i, t, a)
  PROVE  Birth(c) = t /\ Covered(i, c, a)
<1>1. Birth(c) = t
  BY LimitsAssumption DEF Birth
<1>2. Lives(i, t) \in Nat
  BY LivesBounds
<1>3. /\ Passed(Lives(i, t)) \in Nat
      /\ Passed(Lives(i, t) + 1) = Passed(Lives(i, t)) + REGISTER_IP_LIMIT
  BY <1>2, PassedBounds
<1>4. a <= Passed(Lives(i, t))
  BY <1>3 DEF Uncovered
<1> QED BY <1>1, <1>3, <1>4, LimitsAssumption DEF Covered

\* A counter counts the attempt that it lets pass, and lets no more than its share pass.
LEMMA CountCovers ==
  ASSUME NEW i \in Nat, NEW c \in Entry, NEW d \in Entry, NEW a \in Nat, NEW b \in Nat,
         d.value = c.value + 1, d.until = c.until, InTime(i, Birth(c)), Covered(i, c, a),
         b = a \/ (b = a + 1 /\ c.value + 1 <= REGISTER_IP_LIMIT),
         a <= Passed(CountersOfAWindow)
  PROVE  Birth(d) = Birth(c) /\ Covered(i, d, b) /\ b <= Passed(CountersOfAWindow)
<1> DEFINE t == Birth(c)
           n == Lives(i, t)
<1>1. Birth(d) = t
  BY DEF Birth
<1>2. t \in Nat /\ WindowStart(i) <= t
  <2>1. WindowStart(i) \in Nat /\ t \in Int
    BY WindowTypes, LimitsAssumption DEF Birth, Entry
  <2>2. WindowStart(i) <= t
    BY DEF InTime
  <2> HIDE DEF t
  <2> QED BY <2>1, <2>2
<1>3. n \in Nat /\ n + 1 <= CountersOfAWindow
  BY <1>2, LivesBounds
<1>4. /\ Passed(n) \in Nat /\ Passed(n + 1) = Passed(n) + REGISTER_IP_LIMIT
      /\ Passed(n + 1) <= Passed(CountersOfAWindow) /\ Passed(CountersOfAWindow) \in Nat
  <2> HIDE DEF n
  <2>1. n + 1 \in Nat
    BY <1>3
  <2> QED BY <2>1, <1>3, PassedBounds, CountersType
<1>5. c.value \in Nat
  BY DEF Entry
<1>6. a <= Passed(n) + c.value /\ a <= Passed(n + 1)
  BY DEF Covered
<1>7. b <= Passed(n) + d.value /\ b <= Passed(n + 1) /\ b <= Passed(CountersOfAWindow)
  <2> HIDE DEF n
  <2> QED BY <1>4, <1>5, <1>6, LimitsAssumption
<1> QED BY <1>1, <1>7 DEF Covered

\* What a counter that expires has covered stays counted.
LEMMA ExpiryUncovers ==
  ASSUME NEW i \in Nat, NEW t \in Nat, NEW c \in Entry, NEW a \in Nat,
         c.until <= t, InTime(i, Birth(c)), Covered(i, c, a)
  PROVE  Uncovered(i, t, a)
<1> DEFINE s == Birth(c)
<1>1. s \in Nat /\ WindowStart(i) <= s /\ s + (REGISTER_WINDOW + 1) = c.until /\ WindowStart(i) \in Nat
  <2>1. WindowStart(i) \in Nat /\ s \in Int /\ s + (REGISTER_WINDOW + 1) = c.until
    BY WindowTypes, LimitsAssumption DEF Birth, Entry
  <2>2. WindowStart(i) <= s
    BY DEF InTime
  <2> HIDE DEF s
  <2> QED BY <2>1, <2>2
<1>2. c.until \in Nat /\ WindowStart(i) <= c.until /\ WindowStart(i) <= t
  <2> HIDE DEF s
  <2> QED BY <1>1, LimitsAssumption DEF Entry
<1>3. Lives(i, c.until) = Lives(i, s) + 1 /\ Lives(i, s) \in Nat
  <2> HIDE DEF s
  <2> QED BY <1>1, LivesBounds
<1>4. Lives(i, c.until) <= Lives(i, t) /\ Lives(i, t) \in Nat /\ Lives(i, c.until) \in Nat
  BY <1>2, LivesBounds
<1>5. Passed(Lives(i, c.until)) <= Passed(Lives(i, t))
  BY <1>4, PassedBounds
<1>6. a <= Passed(Lives(i, c.until))
  BY <1>3 DEF Covered
<1>7. Passed(Lives(i, c.until)) \in Nat /\ Passed(Lives(i, t)) \in Nat
  BY <1>4, PassedBounds
<1> QED BY <1>2, <1>5, <1>6, <1>7 DEF Uncovered

\* What passed stays counted as time goes by.
LEMMA TimeUncovers ==
  ASSUME NEW i \in Nat, NEW t \in Nat, NEW a \in Nat, Uncovered(i, t, a)
  PROVE  Uncovered(i, t + 1, a)
<1>1. CASE a = 0
  BY <1>1 DEF Uncovered
<1>2. CASE WindowStart(i) <= t /\ a <= Passed(Lives(i, t))
  <2>1. t + 1 \in Nat /\ t <= t + 1 /\ WindowStart(i) <= t + 1 /\ WindowStart(i) \in Nat
    BY <1>2, WindowTypes
  <2>2. Lives(i, t) <= Lives(i, t + 1) /\ Lives(i, t) \in Nat /\ Lives(i, t + 1) \in Nat
    BY <1>2, <2>1, LivesBounds
  <2>3. Passed(Lives(i, t)) <= Passed(Lives(i, t + 1))
    BY <2>2, PassedBounds
  <2>4. Passed(Lives(i, t)) \in Nat /\ Passed(Lives(i, t + 1)) \in Nat
    BY <2>2, PassedBounds
  <2> QED BY <1>2, <2>1, <2>3, <2>4 DEF Uncovered
<1> QED BY <1>1, <1>2 DEF Uncovered

NotIp(key) == \A i \in Nat : key # <<"ip", i>>

\* A key of the cache counts the attempts of an address in a window, or something else.
LEMMA KeyCases ==
  ASSUME NEW key \in Key
  PROVE  /\ NotIp(key) \/ \E i \in Nat : key = <<"ip", i>>
         /\ key[1] # "ip" => NotIp(key)
         /\ key[1] = "ip" => ~NotIp(key)
BY DEF Key, NotIp, NoKey

\* A step that counts no attempt of an address.
UncountedStep(w) ==
  /\ UNCHANGED <<now, counters, admitted>>
  /\ pc'[w] \notin CounterPCs \/ NotIp(req'[w].key)
  /\ Others(w)

\* A count: what it does to the attempts that passed.
LEMMA CountedAttempts ==
  ASSUME Types, NEW w \in Workers, NEW n \in Nat, Counted(w, n)
  PROVE  /\ pc'[w] \notin CounterPCs \/ NotIp(req'[w].key)
         /\ NotIp(req[w].key) => UNCHANGED admitted
         /\ \A i \in Nat : req[w].key = <<"ip", i>> =>
              \/ UNCHANGED admitted
              \/ n <= REGISTER_IP_LIMIT /\ admitted' = [admitted EXCEPT ![i] = @ + 1]
<1> DEFINE r == req[w]
<1>0. WorkerTypes /\ r \in Request /\ r.key \in Key
  BY DEF Types, WorkerTypes, Request
<1>1. CASE r.key[1] = "ip"
  <2>0. PICK i \in Nat : r.key = <<"ip", i>>
    BY <1>0, <1>1, KeyCases
  <2>00. \A j \in Nat : r.key = <<"ip", j>> => j = i
    BY <2>0
  <2> DEFINE key == <<"user", r.user, r.key[2]>>
             s == [r EXCEPT !.key = key]
  <2>1. key \in Key /\ NotIp(key)
    BY <1>0, <2>0 DEF Key, Request, NotIp
  <2>2. s \in Request /\ s.key = key
    <3> HIDE DEF r, key
    <3> QED BY <1>0, <2>1, RequestWrites DEF Request
  <2>3. ~NotIp(r.key)
    BY <2>0 DEF NotIp
  <2>4. CASE Reply(w) /\ UNCHANGED admitted
    <3>1. pc'[w] = "idle"
      BY <2>4, <1>0, IdleType, GotoWithStep DEF Reply, PCs
    <3> QED BY <2>3, <2>4, <3>1 DEF CounterPCs
  <2>5. CASE /\ ~(n > REGISTER_IP_LIMIT)
             /\ admitted' = [admitted EXCEPT ![r.key[2]] = @ + 1] /\ GotoWith(w, "add", s)
    <3>1. req'[w] = s
      <4> HIDE DEF s
      <4> QED BY <2>5, <2>2, <1>0, GotoWithStep DEF PCs
    <3>2. admitted' = [admitted EXCEPT ![i] = @ + 1] /\ n <= REGISTER_IP_LIMIT
      BY <2>0, <2>5, LimitsAssumption
    <3>3. NotIp(req'[w].key)
      <4> HIDE DEF s
      <4> QED BY <3>1, <2>1, <2>2
    <3> QED BY <3>2, <3>3, <2>3, <2>00
  <2> QED BY <2>4, <2>5, <1>1 DEF Counted
<1>2. CASE r.key[1] # "ip"
  <2>1. NotIp(r.key) /\ UNCHANGED admitted
    BY <1>0, <1>2, KeyCases DEF Counted
  <2>2. pc'[w] \notin CounterPCs
    <3> DEFINE s == [r EXCEPT !.at = 0, !.key = NoKey, !.n = 0]
               t == [r EXCEPT !.n = n]
    <3>1. s \in Request /\ t \in Request
      <4>1. NoKey \in Key
        BY DEF Key
      <4> HIDE DEF r
      <4> QED BY <4>1, <1>0, RequestWrites
    <3>2. Reply(w) \/ GotoWith(w, "register", s) \/ GotoWith(w, "block", t)
      BY <1>2 DEF Counted
    <3> HIDE DEF s, t
    <3> QED BY <3>1, <3>2, <1>0, IdleType, GotoWithStep DEF Reply, PCs, CounterPCs
  <2> QED BY <2>1, <2>2 DEF NotIp
<1> QED BY <1>1, <1>2

\* Who counts an attempt began in its window, and is not killed yet.
LEMMA WindowOpen ==
  ASSUME Types, TimeInv, WindowInv,
         NEW w \in Workers, NEW i \in Nat, pc[w] \in CounterPCs, req[w].key = <<"ip", i>>
  PROVE  InTime(i, now)
<1>1. pc[w] # "idle" /\ req[w].start \in Nat /\ req[w].at \in Nat /\ now \in Nat
  BY DEF CounterPCs, Types, WorkerTypes, ConfigTypes, Request
<1>2. now <= req[w].start + RequestTimeout
  BY <1>1 DEF TimeInv
<1>3. /\ req[w].start <= req[w].at /\ req[w].at <= now
      /\ WindowStart(i) <= req[w].at /\ req[w].at < WindowEnd(i)
  BY DEF WindowInv
<1>4. WindowStart(i) \in Nat /\ WindowEnd(i) \in Nat
  BY WindowTypes
<1> QED BY <1>1, <1>2, <1>3, <1>4, BoundsAssumption DEF InTime

\* A step that touches no counter of an address keeps both invariants.
LEMMA UncountedKeeps ==
  ASSUME Types, WindowInv, LimitInv, NEW w \in Workers, UncountedStep(w), degraded => degraded',
         lapsed => lapsed'
  PROVE  WindowInv' /\ LimitInv'
<1>1. WindowInv'
  BY DEF WindowInv, UncountedStep, Others, NotIp
<1>2. LimitInv'
  BY DEF LimitInv, CountInv, UncountedStep, Others, NotIp, CounterPCs
<1> QED BY <1>1, <1>2

\* The steps of a registration that count no attempt.
LEMMA UncountedRegistration ==
  ASSUME Types, NEW w \in Workers,
         \/ RejectPassword(w) \/ AcceptPassword(w) \/ CheckCode(w) \/ SaveUser(w)
         \/ SetBlocked(w) \/ ClearBlocked(w)
  PROVE  UncountedStep(w)
<1> DEFINE s == [req[w] EXCEPT !.at = now, !.key = <<"fail", 0>>]
<1>0. WorkerTypes /\ Registration(w)
  BY DEF Types, Registration
<1>1. Others(w)
  BY <1>0, RegistrationQuiet DEF QuietStep
<1>2. s \in Request /\ NotIp(s.key)
  <2>1. <<"fail", 0>> \in Key /\ NotIp(<<"fail", 0>>)
    BY DEF Key, NotIp
  <2>2. req[w] \in Request /\ now \in Nat
    BY DEF Types, WorkerTypes, ConfigTypes
  <2>3. \A r \in Request : LET q == [r EXCEPT !.at = now, !.key = <<"fail", 0>>]
                         IN  q \in Request /\ q.key = <<"fail", 0>>
    BY <2>1, <2>2, RequestWrites DEF Request
  <2> QED BY <2>1, <2>2, <2>3
<1>3. \A label \in PCs \ CounterPCs : Goto(w, label) => pc'[w] \notin CounterPCs
  BY <1>0, GotoStep
<1>4. Reply(w) => pc'[w] \notin CounterPCs
  BY <1>0, IdleType, GotoWithStep DEF Reply, PCs, CounterPCs
<1>5. Fail(w) => NotIp(req'[w].key)
  <2>1. Fail(w) => GotoWith(w, "add", s)
    BY DEF Fail
  <2> HIDE DEF s
  <2> QED BY <2>1, <1>0, <1>2, GotoWithStep DEF PCs
<1>6. {"config", "save_user", "saved"} \subseteq PCs \ CounterPCs
  BY DEF PCs, CounterPCs
<1>7. pc'[w] \notin CounterPCs \/ NotIp(req'[w].key)
  BY <1>3, <1>4, <1>5, <1>6 DEF RejectPassword, AcceptPassword, CheckCode, SaveUser, SetBlocked,
     ClearBlocked
<1>8. UNCHANGED <<now, counters, admitted>>
  BY DEF RejectPassword, AcceptPassword, CheckCode, SaveUser, SetBlocked, ClearBlocked, limits
<1> QED BY <1>1, <1>7, <1>8 DEF UncountedStep

\* Receiving, showing and being killed touch no counter of an address.
LEMMA UncountedRest ==
  ASSUME Types, NEW w \in Workers, Receive(w) \/ Code(w) \/ Killed(w)
  PROVE  UncountedStep(w)
<1>1. CASE Receive(w)
  <2>1. PICK label \in {"blocked", "config", "load"} : ReceiveStep(w, label)
    BY <1>1, ReceiveTypes
  <2> QED BY <2>1 DEF ReceiveStep, UncountedStep, limits, CounterPCs
<1>2. CASE Code(w)
  <2>1. pc'[w] \notin CounterPCs /\ Others(w)
    BY <1>2, CodeTypes DEF CounterPCs
  <2>2. UNCHANGED <<now, counters, admitted>>
    BY <1>2 DEF Code, GetConfig, LoadConfig, CreateConfig, SaveSalt, ClearConfig, StoreConfig,
       ShowCode, limits
  <2> QED BY <2>1, <2>2 DEF UncountedStep
<1>3. CASE Killed(w)
  BY <1>3, KilledTypes DEF Killed, UncountedStep, limits, CounterPCs
<1> QED BY <1>1, <1>2, <1>3

\* An attempt that is not blocked takes the window of its own time.
LEMMA CheckBlockedKeeps ==
  ASSUME Types, ConfigInv, WindowInv, LimitInv, NEW w \in Workers, CheckBlocked(w), degraded => degraded',
         lapsed => lapsed'
  PROVE  WindowInv' /\ LimitInv'
<1> DEFINE i == now \div REGISTER_WINDOW
           s == [req[w] EXCEPT !.at = now, !.key = <<"ip", i>>]
<1>0. /\ WorkerTypes /\ req[w] \in Request /\ now \in Nat /\ pc[w] = "blocked"
      /\ UNCHANGED <<now, counters, admitted>>
  BY DEF CheckBlocked, Types, WorkerTypes, ConfigTypes, limits
<1>1. i \in Nat /\ WindowStart(i) <= now /\ now < WindowEnd(i)
  BY <1>0, DivBounds, LimitsAssumption DEF WindowStart, WindowEnd
<1>2. req[w].start <= now
  BY <1>0 DEF ConfigInv, TimeInv
<1>3. s \in Request /\ s.key = <<"ip", i>> /\ s.at = now /\ s.start = req[w].start
  <2>1. \A r \in Request, key \in Key :
          LET q == [r EXCEPT !.at = now, !.key = key]
          IN  q \in Request /\ q.key = key /\ q.at = now /\ q.start = r.start
    BY <1>0 DEF Request
  <2>2. <<"ip", i>> \in Key
    BY <1>1 DEF Key
  <2> QED BY <1>0, <2>1, <2>2
<1>4. \/ pc'[w] = "idle" /\ Others(w)
      \/ pc'[w] = "add" /\ req'[w] = s /\ Others(w)
  <2>1. Reply(w) \/ GotoWith(w, "add", s)
    BY DEF CheckBlocked
  <2> HIDE DEF s
  <2> QED BY <2>1, <1>0, <1>3, IdleType, GotoWithStep DEF Reply, PCs, Others
<1> HIDE DEF s, i
<1>5. \A j \in Nat : s.key = <<"ip", j>> => j = i
  BY <1>1, <1>3
<1>6. WindowInv'
  BY <1>0, <1>1, <1>2, <1>3, <1>4, <1>5 DEF WindowInv, Others, CounterPCs
<1>7. LimitInv'
  BY <1>0, <1>4 DEF LimitInv, CountInv, Others
<1> QED BY <1>6, <1>7

\* A success forgets failures, not attempts.
LEMMA ClearFailuresKeeps ==
  ASSUME Types, WindowInv, LimitInv, NEW w \in Workers, ClearFailures(w), degraded => degraded',
         lapsed => lapsed'
  PROVE  WindowInv' /\ LimitInv'
<1>0. WorkerTypes /\ UNCHANGED <<now, admitted>>
  BY DEF Types, ClearFailures
<1>1. pc'[w] = "unblock" /\ Others(w)
  BY <1>0, GotoStep DEF ClearFailures, Others, PCs
<1>2. \A i \in Nat : /\ <<"ip", i>> \in DOMAIN counters' <=> <<"ip", i>> \in DOMAIN counters
                     /\ <<"ip", i>> \in DOMAIN counters => counters'[<<"ip", i>>] = counters[<<"ip", i>>]
  BY DEF ClearFailures
<1>3. WindowInv'
  BY <1>0, <1>1 DEF WindowInv, Others, CounterPCs
<1>4. LimitInv'
  BY <1>0, <1>1, <1>2, BoundsAssumption DEF LimitInv, CountInv, Others
<1> QED BY <1>3, <1>4

\* A counter is only read again after a call failed or the counter expired.
LEMMA CounterRereadKeeps ==
  ASSUME Types, WindowInv, LimitInv, NEW w \in Workers, CounterReread(w), degraded => degraded',
         lapsed => lapsed'
  PROVE  WindowInv' /\ LimitInv'
<1>0. WorkerTypes /\ UNCHANGED <<now, counters, admitted>> /\ pc[w] = "reread"
  BY DEF Types, CounterReread, limits
<1>1. Others(w) /\ pc'[w] \in PCs
  BY RegistrationQuiet DEF Registration, QuietStep, QuietPCs
<1>2. req'[w].key = req[w].key /\ req'[w].at = req[w].at /\ req'[w].start = req[w].start
  <2>1. PICK n : req' = [req EXCEPT ![w] = [req[w] EXCEPT !.n = n]]
    BY DEF CounterReread, GotoWith
  <2>2. \A r \in Request : LET q == [r EXCEPT !.n = n]
                         IN  q.key = r.key /\ q.at = r.at /\ q.start = r.start
    BY DEF Request
  <2>3. req'[w] = [req[w] EXCEPT !.n = n] /\ req[w] \in Request
    BY <2>1, <1>0 DEF WorkerTypes
  <2> QED BY <2>2, <2>3
<1>3. WindowInv'
  BY <1>0, <1>1, <1>2 DEF WindowInv, Others, CounterPCs
<1>4. ~degraded /\ ~lapsed => NotIp(req[w].key)
  BY <1>0 DEF LimitInv, CountInv, NotIp
<1>5. LimitInv'
  BY <1>0, <1>1, <1>2, <1>4 DEF LimitInv, CountInv, Others, NotIp
<1> QED BY <1>3, <1>5

\* A counter is only set after a call failed or the counter expired.
LEMMA CounterSetKeeps ==
  ASSUME Types, WindowInv, LimitInv, NEW w \in Workers, CounterSet(w), degraded => degraded',
         lapsed => lapsed'
  PROVE  WindowInv' /\ LimitInv'
<1> DEFINE r == req[w]
<1>0. r \in Request /\ r.n \in Nat /\ UNCHANGED now /\ pc[w] = "set"
  BY DEF Types, WorkerTypes, Request, CounterSet
<1>1. Others(w)
  BY RegistrationQuiet DEF Registration, QuietStep
<1>2. /\ Counted(w, r.n) \/ Counted(w, 0)
      /\ (\E until : SetCounter(r.key, r.n, until)) \/ UNCHANGED counters
  BY Zenon DEF CounterSet
<1>3. /\ pc'[w] \notin CounterPCs \/ NotIp(req'[w].key)
      /\ NotIp(r.key) => UNCHANGED admitted
  BY <1>0, <1>2, CountedAttempts
<1>4. WindowInv'
  BY <1>0, <1>1, <1>3 DEF WindowInv, Others, NotIp
<1>5. ASSUME ~degraded, ~lapsed PROVE CountInv'
  <2>1. NotIp(r.key) /\ CountInv
    BY <1>0, <1>5 DEF LimitInv, CountInv, NotIp
  <2>2. \A i \in Nat : /\ <<"ip", i>> \in DOMAIN counters' <=> <<"ip", i>> \in DOMAIN counters
                       /\ <<"ip", i>> \in DOMAIN counters => counters'[<<"ip", i>>] = counters[<<"ip", i>>]
    BY <2>1, <1>2 DEF SetCounter, NotIp
  <2> QED BY <2>1, <2>2, <1>0, <1>1, <1>3, BoundsAssumption DEF CountInv, Others, NotIp, CounterPCs
<1> QED BY <1>4, <1>5 DEF LimitInv

\* cache.add: the first attempt after a counter expired starts the next one.
LEMMA CounterAddKeeps ==
  ASSUME Types, TimeInv, WindowInv, LimitInv, NEW w \in Workers, CounterAdd(w), degraded => degraded',
         lapsed => lapsed'
  PROVE  WindowInv' /\ LimitInv'
<1> DEFINE r == req[w]
<1>0. /\ WorkerTypes /\ r \in Request /\ r.key \in Key /\ now \in Nat
      /\ admitted \in [0..MaxTime -> Nat]
      /\ UNCHANGED now /\ pc[w] = "add"
  BY DEF Types, WorkerTypes, ConfigTypes, LimitTypes, Request, CounterAdd
<1>1. Others(w)
  BY RegistrationQuiet DEF Registration, QuietStep
<1>2. PICK up \in BOOLEAN :
        /\ Call(up)
        /\ \/ ~up /\ Counted(w, 0) /\ UNCHANGED counters
           \/ /\ r.key \notin DOMAIN counters /\ SetCounter(r.key, 0, now + Timeout(r.key))
              /\ Goto(w, "incr_new") /\ UNCHANGED admitted
           \/ r.key \in DOMAIN counters /\ Goto(w, "incr") /\ UNCHANGED <<counters, admitted>>
  BY Zenon DEF CounterAdd
<1>3. CASE ~up /\ Counted(w, 0) /\ UNCHANGED counters
  <2>1. pc'[w] \notin CounterPCs \/ NotIp(req'[w].key)
    BY <1>3, CountedAttempts
  <2>2. WindowInv'
    BY <1>0, <1>1, <2>1 DEF WindowInv, Others, NotIp
  <2> QED BY <2>2, <1>2, <1>3 DEF LimitInv, Call
<1>4. CASE /\ r.key \notin DOMAIN counters /\ SetCounter(r.key, 0, now + Timeout(r.key))
           /\ Goto(w, "incr_new") /\ UNCHANGED admitted
  <2>1. pc'[w] = "incr_new" /\ req'[w] = r
    BY <1>4, <1>0, GotoStep DEF PCs
  <2>2. WindowInv'
    BY <1>0, <1>1, <2>1 DEF WindowInv, Others, CounterPCs
  <2>3. /\ DOMAIN counters' = DOMAIN counters \cup {r.key}
        /\ counters'[r.key].value = 0 /\ counters'[r.key].until = now + Timeout(r.key)
        /\ \A k \in DOMAIN counters : counters'[k] = counters[k]
    BY <1>4 DEF SetCounter
  <2>4. ASSUME ~degraded, ~lapsed PROVE CountInv'
    <3>0. CountInv
      BY <2>4 DEF LimitInv
    <3>1. ASSUME NEW i \in Nat, r.key = <<"ip", i>>
          PROVE  InTime(i, now) /\ Timeout(r.key) = REGISTER_WINDOW + 1
      BY <3>1, <1>0, WindowOpen DEF CounterPCs, Timeout
    <3>2. ASSUME NEW i \in 0..MaxTime
          PROVE  /\ <<"ip", i>> \in DOMAIN counters' => Covered(i, counters'[<<"ip", i>>], admitted'[i])
                 /\ <<"ip", i>> \notin DOMAIN counters' => Uncovered(i, now', admitted'[i])
                 /\ admitted'[i] <= Passed(CountersOfAWindow)
      <4>0. i \in Nat /\ admitted[i] \in Nat
        BY BoundsAssumption, <1>0
      <4>1. CASE r.key = <<"ip", i>>
        <5>1. Uncovered(i, now, admitted[i]) /\ admitted[i] <= Passed(CountersOfAWindow)
          BY <3>0, <4>1, <1>4 DEF CountInv
        <5>2. WindowStart(i) <= now
          BY <3>1, <4>0, <4>1 DEF InTime
        <5>3. Covered(i, counters'[<<"ip", i>>], admitted[i])
          <6> DEFINE c == counters'[<<"ip", i>>]
          <6>1. c.value = 0 /\ c.until = now + (REGISTER_WINDOW + 1)
            BY <2>3, <3>1, <4>0, <4>1
          <6> HIDE DEF c
          <6>2. Covered(i, c, admitted[i])
            BY <1>0, <4>0, <5>1, <5>2, <6>1, NewCovers
          <6> QED BY <6>2 DEF c
        <5> QED BY <5>1, <5>3, <4>1, <2>3, <1>4
      <4>2. CASE r.key # <<"ip", i>>
        BY <4>2, <2>3, <3>0, <1>0, <1>4 DEF CountInv
      <4> QED BY <4>1, <4>2
    <3>3. ASSUME NEW i \in Nat, <<"ip", i>> \in DOMAIN counters'
          PROVE  InTime(i, Birth(counters'[<<"ip", i>>]))
      <4>1. CASE r.key = <<"ip", i>>
        <5>1. counters'[<<"ip", i>>].until = now + (REGISTER_WINDOW + 1)
          BY <2>3, <3>1, <4>1
        <5>2. Birth(counters'[<<"ip", i>>]) = now
          BY <5>1, <1>0, LimitsAssumption DEF Birth
        <5> QED BY <5>2, <3>1, <4>1
      <4>2. CASE r.key # <<"ip", i>>
        BY <3>3, <4>2, <2>3, <3>0 DEF CountInv
      <4> QED BY <4>1, <4>2
    <3>4. \A v \in Workers : \A i \in Nat :
            req'[v].key = <<"ip", i>> => pc'[v] \notin {"reread", "set"}
      BY <2>1, <3>0, <1>1 DEF CountInv, Others
    <3> QED BY <3>2, <3>3, <3>4 DEF CountInv
  <2> QED BY <2>2, <2>4, <1>2 DEF LimitInv, Call
<1>5. CASE r.key \in DOMAIN counters /\ Goto(w, "incr") /\ UNCHANGED <<counters, admitted>>
  <2>1. pc'[w] = "incr" /\ req'[w] = r
    BY <1>5, <1>0, GotoStep DEF PCs
  <2>2. WindowInv'
    BY <1>0, <1>1, <2>1 DEF WindowInv, Others, CounterPCs
  <2>3. LimitInv'
    BY <1>0, <1>1, <1>5, <2>1 DEF LimitInv, CountInv, Others
  <2> QED BY <2>2, <2>3
<1> QED BY <1>2, <1>3, <1>4, <1>5

\* cache.incr: the counter counts every attempt that it admits.
LEMMA CounterIncrKeeps ==
  ASSUME Types, Types', WindowInv, LimitInv, NEW w \in Workers, CounterIncr(w), degraded => degraded',
         lapsed => lapsed'
  PROVE  WindowInv' /\ LimitInv'
<1> DEFINE r == req[w]
           c == counters[r.key]
<1>0. /\ WorkerTypes /\ r \in Request /\ r.key \in Key /\ admitted \in [0..MaxTime -> Nat]
      /\ UNCHANGED now /\ pc[w] \in {"incr_new", "incr"}
      /\ r.key \in DOMAIN counters => c \in Entry /\ c.value \in Nat /\ c.until \in Nat
  BY DEF Types, WorkerTypes, LimitTypes, Request, CounterIncr, Entry
<1>1. Others(w)
  BY RegistrationQuiet DEF Registration, QuietStep
<1>2. PICK up \in BOOLEAN :
        /\ Call(up)
        /\ \/ /\ r.key \in DOMAIN counters
              /\ SetCounter(r.key, c.value + 1, c.until) /\ Counted(w, c.value + 1)
           \/ /\ ~up \/ lapsed'
              /\ GotoWith(w, "set", [r EXCEPT !.n = 1]) \/ Goto(w, "reread")
              /\ UNCHANGED <<counters, admitted>>
  BY Zenon DEF CounterIncr
<1>3. CASE /\ r.key \in DOMAIN counters
           /\ SetCounter(r.key, c.value + 1, c.until) /\ Counted(w, c.value + 1)
  <2>1. /\ pc'[w] \notin CounterPCs \/ NotIp(req'[w].key)
        /\ NotIp(r.key) => UNCHANGED admitted
        /\ \A i \in Nat : r.key = <<"ip", i>> =>
             \/ UNCHANGED admitted
             \/ c.value + 1 <= REGISTER_IP_LIMIT /\ admitted' = [admitted EXCEPT ![i] = @ + 1]
    BY <1>0, <1>3, CountedAttempts
  <2>2. WindowInv'
    BY <1>0, <1>1, <2>1 DEF WindowInv, Others, NotIp
  <2>3. /\ DOMAIN counters' = DOMAIN counters
        /\ counters'[r.key].value = c.value + 1 /\ counters'[r.key].until = c.until
        /\ \A k \in DOMAIN counters \ {r.key} : counters'[k] = counters[k]
        /\ \A k \in DOMAIN counters' : counters'[k] \in Entry
    BY <1>3 DEF SetCounter, Types, LimitTypes
  <2> HIDE DEF c
  <2>4. ASSUME ~degraded, ~lapsed PROVE CountInv'
    <3>0. CountInv
      BY <2>4 DEF LimitInv
    <3> DEFINE d == counters'[r.key]
    <3>1. ASSUME NEW i \in 0..MaxTime
          PROVE  /\ <<"ip", i>> \in DOMAIN counters' => Covered(i, counters'[<<"ip", i>>], admitted'[i])
                 /\ <<"ip", i>> \notin DOMAIN counters' => Uncovered(i, now', admitted'[i])
                 /\ admitted'[i] <= Passed(CountersOfAWindow)
      <4>0. i \in Nat /\ admitted[i] \in Nat /\ admitted'[i] \in Nat
        BY BoundsAssumption, <1>0 DEF Types, LimitTypes
      <4>1. CASE r.key = <<"ip", i>>
        <5>1. /\ Covered(i, c, admitted[i]) /\ InTime(i, Birth(c))
              /\ admitted[i] <= Passed(CountersOfAWindow)
          BY <3>0, <4>0, <4>1, <1>3 DEF CountInv, c
        <5>2. \/ admitted'[i] = admitted[i]
              \/ admitted'[i] = admitted[i] + 1 /\ c.value + 1 <= REGISTER_IP_LIMIT
          BY <2>1, <4>0, <4>1, <1>0
        <5>3. c \in Entry /\ d \in Entry /\ d.value = c.value + 1 /\ d.until = c.until
          BY <1>0, <1>3, <2>3
        <5> HIDE DEF d
        <5>4. Covered(i, d, admitted'[i]) /\ admitted'[i] <= Passed(CountersOfAWindow)
          BY <4>0, <5>1, <5>2, <5>3, CountCovers
        <5> QED BY <5>4, <4>1, <2>3, <1>3 DEF d
      <4>2. CASE r.key # <<"ip", i>>
        <5>1. admitted'[i] = admitted[i]
          <6>1. CASE NotIp(r.key)
            BY <6>1, <2>1
          <6>2. ASSUME NEW j \in Nat, r.key = <<"ip", j>> PROVE admitted'[i] = admitted[i]
            <7>1. j # i
              BY <4>2, <6>2
            <7> QED BY <7>1, <6>2, <2>1, <1>0
          <6> QED BY <6>1, <6>2, <1>0, KeyCases
        <5> QED BY <5>1, <4>2, <2>3, <3>0, <1>0 DEF CountInv
      <4> QED BY <4>1, <4>2
    <3>2. ASSUME NEW i \in Nat, <<"ip", i>> \in DOMAIN counters'
          PROVE  InTime(i, Birth(counters'[<<"ip", i>>]))
      <4>1. Birth(counters'[<<"ip", i>>]) = Birth(counters[<<"ip", i>>])
        BY <2>3, <3>2 DEF Birth, c
      <4> QED BY <4>1, <3>0, <3>2, <2>3 DEF CountInv
    <3>3. \A v \in Workers : \A i \in Nat :
            req'[v].key = <<"ip", i>> => pc'[v] \notin {"reread", "set"}
      BY <2>1, <3>0, <1>1 DEF CountInv, Others, NotIp, CounterPCs
    <3> QED BY <3>1, <3>2, <3>3 DEF CountInv
  <2> QED BY <2>2, <2>4, <1>2 DEF LimitInv
<1>4. CASE /\ ~up \/ lapsed'
           /\ GotoWith(w, "set", [r EXCEPT !.n = 1]) \/ Goto(w, "reread")
           /\ UNCHANGED <<counters, admitted>>
  <2>1. req'[w].key = r.key /\ req'[w].at = r.at /\ req'[w].start = r.start
    <3>1. \A q \in Request : LET p == [q EXCEPT !.n = 1]
                           IN  p \in Request /\ p.key = q.key /\ p.at = q.at /\ p.start = q.start
      BY DEF Request
    <3>2. req'[w] = [r EXCEPT !.n = 1] \/ req'[w] = r
      BY <1>4, <1>0 DEF GotoWith, Goto, WorkerTypes
    <3> QED BY <3>1, <3>2, <1>0
  <2>2. WindowInv'
    BY <1>0, <1>1, <2>1 DEF WindowInv, Others, CounterPCs
  <2>3. LimitInv'
    BY <1>2, <1>4 DEF LimitInv, Call
  <2> QED BY <2>2, <2>3
<1> QED BY <1>2, <1>3, <1>4

\* A counter that expires has let no more than its share pass.
LEMMA TickCounts ==
  ASSUME Types, Types', WindowInv, LimitInv, Tick
  PROVE  WindowInv' /\ LimitInv'
<1>0. now \in Nat /\ now' = now + 1 /\ UNCHANGED <<admitted, pc, req, degraded, lapsed>>
  BY DEF Tick, Types, ConfigTypes
<1>1. /\ \A k \in DOMAIN counters : counters[k] \in Entry /\ counters[k].until \in Nat
      /\ \A k : k \in DOMAIN counters' <=> k \in DOMAIN counters /\ counters[k].until > now'
      /\ \A k \in DOMAIN counters' : counters'[k] = counters[k]
  BY DEF Tick, Types, LimitTypes, Entry
<1>2. WindowInv'
  <2>1. \A v \in Workers : req[v].at \in Nat
    BY DEF Types, WorkerTypes, Request
  <2> QED BY <1>0, <2>1 DEF WindowInv
<1>3. ASSUME ~degraded, ~lapsed PROVE CountInv'
  <2>0. CountInv
    BY <1>3 DEF LimitInv
  <2>1. \A i \in 0..MaxTime : i \in Nat /\ admitted[i] \in Nat
    BY BoundsAssumption DEF Types, LimitTypes
  <2>2. ASSUME NEW i \in 0..MaxTime, <<"ip", i>> \notin DOMAIN counters'
        PROVE  Uncovered(i, now + 1, admitted[i])
    <3>1. CASE <<"ip", i>> \in DOMAIN counters
      <4> DEFINE c == counters[<<"ip", i>>]
      <4>1. c \in Entry /\ c.until <= now + 1
        BY <3>1, <2>2, <1>0, <1>1
      <4>2. InTime(i, Birth(c)) /\ Covered(i, c, admitted[i])
        BY <3>1, <2>0, <2>1 DEF CountInv
      <4>3. now + 1 \in Nat
        BY <1>0
      <4> HIDE DEF c
      <4> QED BY <4>1, <4>2, <4>3, <2>1, ExpiryUncovers
    <3>2. CASE <<"ip", i>> \notin DOMAIN counters
      <4>1. Uncovered(i, now, admitted[i])
        BY <3>2, <2>0 DEF CountInv
      <4> QED BY <4>1, <2>1, <1>0, TimeUncovers
    <3> QED BY <3>1, <3>2
  <2>3. \A i \in Nat : <<"ip", i>> \in DOMAIN counters' => <<"ip", i>> \in DOMAIN counters
    BY <1>1
  <2> QED BY <2>0, <2>1, <2>2, <2>3, <1>0, <1>1 DEF CountInv
<1> QED BY <1>0, <1>2, <1>3 DEF LimitInv

\* check_registration_limits and _incr_counter: as long as the cache answers and no counter expires
\* within an attempt, a window lets no more than REGISTER_IP_LIMIT attempts pass for each of the
\* counters that it can have one after the other, however many requests count at once, however
\* long they take and whichever of them are killed.
THEOREM AttemptsAreBounded == Spec => []AttemptsBounded
<1> DEFINE Inv == WindowInv /\ LimitInv
<1>1. Init => Inv
  <2> SUFFICES ASSUME Init PROVE Inv
    OBVIOUS
  <2>1. \A w \in Workers : pc[w] = "idle"
    BY DEF Init
  <2>2. \A i \in 0..MaxTime : admitted[i] = 0
    BY DEF Init
  <2>3. DOMAIN counters = {}
    BY DEF Init
  <2>4. Passed(CountersOfAWindow) \in Nat
    BY CountersType, PassedBounds
  <2> QED BY <2>1, <2>2, <2>3, <2>4 DEF WindowInv, LimitInv, CountInv, CounterPCs, Uncovered
<1>2. Types /\ ConfigInv /\ Types' /\ ConfigInv' /\ Inv /\ [Next]_vars => Inv'
  <2> SUFFICES ASSUME Types, ConfigInv, Types', ConfigInv', WindowInv, LimitInv, [Next]_vars
               PROVE  WindowInv' /\ LimitInv'
    OBVIOUS
  <2>1. CASE UNCHANGED vars
    BY <2>1 DEF vars, limits, WindowInv, LimitInv, CountInv
  <2>2. CASE Tick
    BY <2>2, TickCounts DEF ConfigInv
  <2>3. ASSUME NEW w \in Workers, Next, Receive(w) \/ Code(w) \/ Killed(w)
        PROVE  WindowInv' /\ LimitInv'
    BY <2>3, FaultsStay, UncountedRest, UncountedKeeps
  <2>4. ASSUME NEW w \in Workers, Next, Registration(w)
        PROVE  WindowInv' /\ LimitInv'
    <3>1. (degraded => degraded') /\ (lapsed => lapsed')
      BY <2>4, FaultsStay
    <3>2. CASE \/ RejectPassword(w) \/ AcceptPassword(w) \/ CheckCode(w) \/ SaveUser(w)
               \/ SetBlocked(w) \/ ClearBlocked(w)
      BY <3>1, <3>2, UncountedRegistration, UncountedKeeps
    <3> QED BY <2>4, <3>1, <3>2, CheckBlockedKeeps, ClearFailuresKeeps, CounterRereadKeeps, CounterSetKeeps,
               CounterAddKeeps, CounterIncrKeeps DEF Registration, ConfigInv
  <2> QED BY <2>1, <2>2, <2>3, <2>4 DEF Next
<1>3. Types /\ Inv => AttemptsBounded
  <2> SUFFICES ASSUME Types, Inv, ~degraded, ~lapsed, NEW i \in DOMAIN admitted
               PROVE  admitted[i] <= REGISTER_IP_LIMIT * CountersOfAWindow
    BY DEF AttemptsBounded
  <2>1. i \in 0..MaxTime
    BY DEF Types, LimitTypes
  <2> QED BY <2>1 DEF LimitInv, CountInv, Passed
<1> QED BY <1>1, <1>2, <1>3, ConfigIsInvariant, PTL DEF Spec

=============================================================================
