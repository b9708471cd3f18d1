----------------------- MODULE ChartOfAccountsProofs -----------------------
(***************************************************************************)
(* Proofs about ChartOfAccounts, for any workers, companies, parents,      *)
(* names and databases to start from.                                      *)
(***************************************************************************)
EXTENDS ChartOfAccounts, FiniteSetTheorems, WellFoundedInduction, TLAPS

(***************************************************************************)
(* The inductive invariant.  Codes and legs are chosen steps before they   *)
(* are written, without a lock.  What protects them is what nobody can     *)
(* take back: keys are given out once, parents stay, and an account that   *)
(* belonged to a company goes on doing so until one of the two is deleted  *)
(* (Settled).                                                              *)
(***************************************************************************)

\* The account is still the company's, or one of the two was deleted since.
Settled(c, a) ==
  a \in DOMAIN accounts =>
    accounts[a].company = c \/ a \in revived \/ c \notin DOMAIN companies \/ c \in revived

Row(ps, cs) == [parent : ps, code : 0..LastCode, name : Names, company : cs, auto : BOOLEAN]

\* What an opening, a closing, a creation or an import has put together so far.
ByNameInv(r) ==
  /\ r.company = New \/ r.company \in usedCompanies
  /\ r.newParents \subseteq Parents
  /\ r.sha \in Contents \cup {None}
  /\ r.kind = "import" => r.company = New /\ r.sha \in Contents
  /\ r.specs \in Seq(Parents \X Names)
  /\ r.made \in Seq(Row(Parents, Companies \cup {New}))
  /\ \A i \in DOMAIN r.made : r.made[i].parent \in parents \cup r.newParents
  /\ \A i, j \in DOMAIN r.made :
       (r.made[i].parent = r.made[j].parent /\ r.made[i].code = r.made[j].code) => i = j
  /\ r.adopted \subseteq r.legs /\ r.legs \subseteq 1..nextAccount
  /\ r.company = New => r.legs = r.adopted
  /\ r.company # New => \A a \in r.legs \ r.adopted : Settled(r.company, a)
  /\ DOMAIN r.names \subseteq 1..nextAccount
  /\ \A a \in DOMAIN r.names :
       r.names[a][2] # New /\ (r.names[a][2] = r.company => Settled(r.company, a))

\* What a request r that goes on at a label holds.
Holds(label, r) ==
  /\ DOMAIN r = DOMAIN Idle
  /\ label = "create" => r.company \in Companies /\ r.row \in Row(parents, {r.company})
  /\ label = "update" => r.account \in 1..nextAccount /\ r.row \in Row(parents, Companies)
  /\ label \in {"save", "drop"} => r.company \in usedCompanies \ DOMAIN slugs
  /\ label = "post" => /\ r.company \in usedCompanies
                       /\ r.legs \subseteq 1..nextAccount /\ r.legs # {}
                       /\ \A a \in r.legs : Settled(r.company, a)
  /\ label = "chart" => r.newParents \subseteq Parents
  /\ label \in {"parents", "names", "resolve", "commit"} => ByNameInv(r)
  /\ label \in {"parents", "names"} => r.made = << >>
  /\ label = "resolve" => \A i \in DOMAIN r.specs : r.specs[i][1] \in parents \cup r.newParents

RequestInv == \A w \in Workers : Holds(pc[w], req[w])

\* Demos keep the content they were imported from: nobody writes or deletes them.
SlugInv == \A c \in DOMAIN slugs : c \in DOMAIN companies /\ companies[c] \in Contents

Tables == TypeOK /\ CodesUnique /\ PostingsStayValid /\ SlugInv /\ nextAccount \in Nat

IInv == Tables /\ DOMAIN pc = Workers /\ DOMAIN req = Workers /\ RequestInv

\* The databases that a run starts from.
LEMMA InitIInv == Init => IInv
<1> SUFFICES ASSUME Init PROVE IInv
  OBVIOUS
<1>1. PICK s \in Starts : /\ parents = s.parents /\ accounts = s.accounts
                          /\ entries = s.entries /\ companies = s.companies
  BY DEF Init
<1>2. accounts \in Seq(Row(parents, DOMAIN companies \cup {None}))
  BY <1>1, StartsAssumption DEF Row
<1>3. Len(accounts) \in Nat /\ DOMAIN accounts = 1..Len(accounts)
  BY <1>2
<1>4. nextAccount = Len(accounts)
  BY <1>3, FS_Interval DEF Init
<1>5. \A a \in DOMAIN accounts : accounts[a] \in Row(parents, DOMAIN companies \cup {None})
  BY <1>2, <1>3
<1>6. TypeOK
  <2>1. parents \subseteq Parents /\ DOMAIN companies \subseteq Companies
        /\ \A c \in DOMAIN companies : companies[c] = None
    BY <1>1, StartsAssumption
  <2>2. \A e \in entries : e.legs # {} /\ e.opening \in BOOLEAN
    BY <1>1, StartsAssumption
  <2>3. DOMAIN slugs = {} /\ usedCompanies = DOMAIN companies /\ requests = 0
    BY DEF Init
  <2> QED
    BY <1>3, <1>4, <1>5, <2>1, <2>2, <2>3, BoundsAssumption DEF TypeOK, Row
<1>7. CodesUnique
  <2>1. \A a, b \in DOMAIN accounts :
          (accounts[a].parent = accounts[b].parent /\ accounts[a].code = accounts[b].code) => a = b
    BY <1>1, StartsAssumption
  <2> QED
    BY <2>1 DEF CodesUnique
<1>8. PostingsStayValid
  <2>1. \A e \in entries : /\ e.company \in DOMAIN companies
                           /\ e.legs \subseteq DOMAIN accounts
                           /\ \A a \in e.legs : accounts[a].company = e.company
    <3> SUFFICES ASSUME NEW e \in entries
                 PROVE  /\ e.company \in DOMAIN companies
                        /\ e.legs \subseteq DOMAIN accounts
                        /\ \A a \in e.legs : accounts[a].company = e.company
      OBVIOUS
    <3>1. /\ e.company \in DOMAIN s.companies
          /\ e.legs \subseteq DOMAIN s.accounts
          /\ \A a \in e.legs : s.accounts[a].company = e.company
      BY <1>1, StartsAssumption, Zenon
    <3> QED
      BY <1>1, <3>1
  <2> QED
    BY <2>1 DEF PostingsStayValid
<1>9. SlugInv
  BY DEF Init, SlugInv
<1>10. RequestInv
  BY DEF Init, RequestInv, Holds
<1> QED
  BY <1>3, <1>4, <1>6, <1>7, <1>8, <1>9, <1>10 DEF IInv, Tables, Init

\* What the tables never take back, and a request in flight may rely on.
Stable ==
  /\ parents \subseteq parents'
  /\ usedCompanies \subseteq usedCompanies'
  /\ nextAccount' \in Nat /\ nextAccount <= nextAccount'
  /\ DOMAIN slugs' \cap usedCompanies \subseteq DOMAIN slugs
  /\ \A c \in usedCompanies, a \in 1..nextAccount : Settled(c, a) => Settled(c, a)'

\* A request that does nothing keeps what it holds while others write.
LEMMA OthersKeep ==
  ASSUME IInv, Stable, NEW v \in Workers, pc'[v] = pc[v], req'[v] = req[v]
  PROVE  Holds(pc[v], req[v])'
<1> DEFINE r == req[v]
<1>1. Holds(pc[v], r) /\ nextAccount \in Nat
  BY DEF IInv, RequestInv, Tables
<1>2. \A c \in usedCompanies, a \in 1..nextAccount : Settled(c, a) => Settled(c, a)'
  BY DEF Stable
<1>3. 1..nextAccount \subseteq 1..nextAccount'
  BY <1>1 DEF Stable
<1>4. CASE pc[v] \in {"parents", "names", "resolve", "commit"}
  <2>1. ByNameInv(r)
    BY <1>1, <1>4 DEF Holds
  <2>2. ASSUME NEW a \in 1..nextAccount, r.company # New, Settled(r.company, a)
        PROVE  Settled(req[v].company, a)'
    <3>1. r.company \in usedCompanies
      BY <2>1, <2>2 DEF ByNameInv
    <3> QED
      BY <1>2, <2>2, <3>1 DEF Settled
  <2>3. ByNameInv(req[v])'
    BY <1>3, <2>1, <2>2 DEF ByNameInv, Stable
  <2> QED
    BY <1>1, <1>4, <2>3 DEF Holds, Stable
<1>5. CASE pc[v] = "post"
  <2>1. \A a \in r.legs : Settled(req[v].company, a)'
    BY <1>1, <1>2, <1>5 DEF Holds, Settled
  <2> QED
    BY <1>1, <1>3, <1>5, <2>1 DEF Holds, Stable
<1>6. CASE pc[v] \notin {"parents", "names", "resolve", "commit", "post"}
  BY <1>1, <1>3, <1>6 DEF Holds, Stable, Row
<1> QED
  BY <1>4, <1>5, <1>6

\* A step that writes nothing only has to say what its request holds afterwards.
LEMMA QuietStep ==
  ASSUME IInv, NEW w \in Workers, NEW label, NEW r, GotoWith(w, label, r),
         UNCHANGED <<tables, history>>, requests' \in 0..MaxRequests, Holds(label, r)
  PROVE  IInv'
<1>1. UNCHANGED <<parents, companies, slugs, usedCompanies, nextAccount, accounts, entries, revived>>
  BY DEF tables, history
<1>2. Tables'
  BY <1>1 DEF IInv, Tables, TypeOK, CodesUnique, PostingsStayValid, SlugInv
<1>3. DOMAIN pc' = Workers /\ DOMAIN req' = Workers
  BY DEF GotoWith, IInv
<1>4. RequestInv'
  <2> SUFFICES ASSUME NEW v \in Workers PROVE Holds(pc[v], req[v])'
    BY DEF RequestInv
  <2>1. CASE v = w
    <3>1. pc'[v] = label /\ req'[v] = r
      BY <2>1 DEF GotoWith, IInv
    <3> QED
      BY <1>1, <3>1 DEF Holds, ByNameInv, Settled
  <2>2. CASE v # w
    <3>1. pc'[v] = pc[v] /\ req'[v] = req[v]
      BY <2>2 DEF GotoWith, IInv
    <3>2. Stable
      BY <1>1 DEF Stable, Settled, IInv, Tables
    <3> QED
      BY <3>1, <3>2, OthersKeep
  <2> QED
    BY <2>1, <2>2
<1> QED
  BY <1>2, <1>3, <1>4 DEF IInv

\* A request that has just been received.
LEMMA ReceivedStep ==
  ASSUME IInv, NEW w \in Workers, NEW label, NEW r, Receive(w, label, r), Holds(label, r)
  PROVE  IInv'
<1>1. requests' \in 0..MaxRequests
  BY BoundsAssumption DEF Receive, IInv, Tables, TypeOK
<1> QED
  BY <1>1, QuietStep DEF Receive

\* An account of a company is settled when it is read.
LEMMA ReadSettled ==
  ASSUME IInv, NEW a \in DOMAIN accounts, accounts[a].company # None
  PROVE  /\ a \in 1..nextAccount
         /\ accounts[a].company \in DOMAIN companies /\ accounts[a].company \in usedCompanies
         /\ Settled(accounts[a].company, a)
         /\ accounts[a] \in Row(parents, Companies)
<1>1. /\ DOMAIN accounts \subseteq 1..nextAccount
      /\ accounts[a] \in Row(parents, DOMAIN companies \cup {None})
      /\ DOMAIN companies \subseteq usedCompanies /\ usedCompanies \subseteq Companies
  BY DEF IInv, Tables, TypeOK, Row
<1> QED
  BY <1>1 DEF Row, Settled

\* A company that may be written exists and is no demo.
LEMMA WritableFacts ==
  ASSUME IInv, NEW c, Writable(c)
  PROVE  c \in DOMAIN companies /\ c \in usedCompanies /\ c \in Companies /\ c \notin DOMAIN slugs
         /\ c # None /\ c # New
  BY NoneAssumption DEF Writable, IInv, Tables, TypeOK, SlugInv

\* What a request holds that is about to look its accounts up by name.
LEMMA FreshByName ==
  ASSUME IInv, NEW r, DOMAIN r = DOMAIN Idle, r.company = New \/ r.company \in usedCompanies,
         r.newParents = {}, r.sha \in Contents \cup {None},
         r.kind = "import" => r.company = New /\ r.sha \in Contents,
         r.specs \in Seq(Parents \X Names), r.made = << >>, r.adopted = {}, r.legs = {},
         r.names = << >>
  PROVE  Holds("names", r) /\ Holds("parents", r)
  BY DEF Holds, ByNameInv

\* Every request that is received holds what its first step needs.
LEMMA ReceiveStep ==
  ASSUME IInv, NEW w \in Workers, ReceiveAny(w)
  PROVE  IInv'
<1>0. parents \subseteq Parents
  BY DEF IInv, Tables, TypeOK
<1>1. CASE ReceiveCreate(w)
  <2>1. PICK c \in Companies, p \in parents, code \in 0..LastCode, n \in Names :
          Receive(w, "create", [Idle EXCEPT !.kind = "create", !.company = c,
            !.row = [parent |-> p, code |-> code, name |-> n, company |-> c, auto |-> FALSE]])
    BY <1>1 DEF ReceiveCreate
  <2> DEFINE r == [Idle EXCEPT !.kind = "create", !.company = c,
            !.row = [parent |-> p, code |-> code, name |-> n, company |-> c, auto |-> FALSE]]
  <2>2. Holds("create", r)
    BY <2>1 DEF Holds, Idle, Row
  <2> QED
    BY <2>1, <2>2, ReceivedStep
<1>2. CASE ReceiveUpdate(w)
  <2>1. PICK a \in DOMAIN accounts, code \in 0..LastCode, n \in Names :
          /\ Writable(accounts[a].company)
          /\ Receive(w, "update", [Idle EXCEPT !.kind = "update", !.account = a,
               !.row = [accounts[a] EXCEPT !.code = code, !.name = n, !.auto = FALSE]])
    BY <1>2 DEF ReceiveUpdate
  <2> DEFINE r == [Idle EXCEPT !.kind = "update", !.account = a,
               !.row = [accounts[a] EXCEPT !.code = code, !.name = n, !.auto = FALSE]]
  <2>2. a \in 1..nextAccount /\ accounts[a] \in Row(parents, Companies)
    BY <2>1, ReadSettled, WritableFacts
  <2>3. r.account = a /\ r.row \in Row(parents, Companies) /\ DOMAIN r = DOMAIN Idle
    BY <2>1, <2>2 DEF Idle, Row
  <2>4. Holds("update", r)
    BY <2>2, <2>3 DEF Holds
  <2> HIDE DEF r
  <2> QED
    BY <2>1, <2>4, ReceivedStep DEF r
<1>3. CASE ReceiveDelete(w)
  <2>1. PICK a \in DOMAIN accounts :
          Receive(w, "delete", [Idle EXCEPT !.kind = "delete", !.account = a])
    BY <1>3 DEF ReceiveDelete
  <2>2. Holds("delete", [Idle EXCEPT !.kind = "delete", !.account = a])
    BY DEF Holds, Idle
  <2> QED
    BY <2>1, <2>2, ReceivedStep
<1>4. CASE ReceivePost(w)
  <2>1. PICK a \in DOMAIN accounts :
          /\ Writable(accounts[a].company)
          /\ Receive(w, "post", [Idle EXCEPT !.kind = "post", !.company = accounts[a].company, !.legs = {a}])
    BY <1>4 DEF ReceivePost
  <2>2. a \in 1..nextAccount /\ accounts[a].company \in usedCompanies /\ Settled(accounts[a].company, a)
    BY <2>1, ReadSettled, WritableFacts
  <2>3. Holds("post", [Idle EXCEPT !.kind = "post", !.company = accounts[a].company, !.legs = {a}])
    BY <2>2 DEF Holds, Idle
  <2> QED
    BY <2>1, <2>3, ReceivedStep
<1>5. CASE ReceiveUpdateCompany(w)
  <2>1. PICK c \in DOMAIN companies :
          Writable(c) /\ Receive(w, "save", [Idle EXCEPT !.kind = "save", !.company = c])
    BY <1>5 DEF ReceiveUpdateCompany
  <2>2. Holds("save", [Idle EXCEPT !.kind = "save", !.company = c])
    BY <2>1, WritableFacts DEF Holds, Idle
  <2> QED
    BY <2>1, <2>2, ReceivedStep
<1>6. CASE ReceiveDeleteCompany(w)
  <2>1. PICK c \in DOMAIN companies :
          Writable(c) /\ Receive(w, "drop", [Idle EXCEPT !.kind = "drop", !.company = c])
    BY <1>6 DEF ReceiveDeleteCompany
  <2>2. Holds("drop", [Idle EXCEPT !.kind = "drop", !.company = c])
    BY <2>1, WritableFacts DEF Holds, Idle
  <2> QED
    BY <2>1, <2>2, ReceivedStep
<1>7. CASE ReceiveNew(w)
  <2>1. PICK specs \in OpeningSpecs \cup {<<>>} :
          Receive(w, "names", [Idle EXCEPT !.kind = "new", !.company = New, !.specs = specs])
    BY <1>7 DEF ReceiveNew
  <2>2. specs \in Seq(Parents \X Names)
    <3>1. CASE specs \in OpeningSpecs
      BY <3>1, SpecsAssumption
    <3>2. CASE specs = <<>>
      BY <3>2
    <3> QED
      BY <3>1, <3>2
  <2> DEFINE r == [Idle EXCEPT !.kind = "new", !.company = New, !.specs = specs]
  <2>3. /\ DOMAIN r = DOMAIN Idle /\ r.kind = "new" /\ r.company = New /\ r.specs = specs
        /\ r.sha = None /\ r.newParents = {} /\ r.made = <<>> /\ r.adopted = {} /\ r.legs = {}
        /\ r.names = <<>>
    BY DEF Idle
  <2> HIDE DEF r
  <2>4. Holds("names", r)
    BY <2>2, <2>3, FreshByName
  <2> QED
    BY <2>1, <2>4, ReceivedStep DEF r
<1>8. CASE ReceiveOpening(w)
  <2>1. PICK c \in DOMAIN companies, specs \in OpeningSpecs :
          Writable(c) /\ Receive(w, "names", [Idle EXCEPT !.kind = "open", !.company = c, !.specs = specs])
    BY <1>8 DEF ReceiveOpening
  <2>2. specs \in Seq(Parents \X Names) /\ c \in usedCompanies
    BY <2>1, SpecsAssumption, WritableFacts
  <2> DEFINE r == [Idle EXCEPT !.kind = "open", !.company = c, !.specs = specs]
  <2>3. /\ DOMAIN r = DOMAIN Idle /\ r.kind = "open" /\ r.company = c /\ r.specs = specs
        /\ r.sha = None /\ r.newParents = {} /\ r.made = <<>> /\ r.adopted = {} /\ r.legs = {}
        /\ r.names = <<>>
    BY DEF Idle
  <2> HIDE DEF r
  <2>4. Holds("names", r)
    BY <2>2, <2>3, FreshByName
  <2> QED
    BY <2>1, <2>4, ReceivedStep DEF r
<1>9. CASE ReceiveClosing(w)
  <2>1. PICK c \in DOMAIN companies :
          Writable(c) /\ Receive(w, "parents", [Idle EXCEPT !.kind = "close", !.company = c, !.specs = ClosingSpecs])
    BY <1>9 DEF ReceiveClosing
  <2>2. ClosingSpecs \in Seq(Parents \X Names) /\ c \in usedCompanies
    BY <2>1, SpecsAssumption, WritableFacts
  <2> DEFINE r == [Idle EXCEPT !.kind = "close", !.company = c, !.specs = ClosingSpecs]
  <2>3. /\ DOMAIN r = DOMAIN Idle /\ r.kind = "close" /\ r.company = c /\ r.specs = ClosingSpecs
        /\ r.sha = None /\ r.newParents = {} /\ r.made = <<>> /\ r.adopted = {} /\ r.legs = {}
        /\ r.names = <<>>
    BY DEF Idle
  <2> HIDE DEF r
  <2>4. Holds("parents", r)
    BY <2>2, <2>3, FreshByName
  <2> QED
    BY <2>1, <2>4, ReceivedStep DEF r
<1>10. CASE ReceiveImport(w)
  <2>1. PICK sha \in Contents, specs \in OpeningSpecs :
          Receive(w, "names", [Idle EXCEPT !.kind = "import", !.company = New, !.sha = sha,
                                           !.specs = specs, !.seen = changes[New]])
    BY <1>10 DEF ReceiveImport
  <2>2. specs \in Seq(Parents \X Names)
    BY <2>1, SpecsAssumption
  <2> DEFINE r == [Idle EXCEPT !.kind = "import", !.company = New, !.sha = sha,
                                !.specs = specs, !.seen = changes[New]]
  <2>3. /\ DOMAIN r = DOMAIN Idle /\ r.kind = "import" /\ r.company = New /\ r.specs = specs
        /\ r.sha = sha /\ r.newParents = {} /\ r.made = <<>> /\ r.adopted = {} /\ r.legs = {}
        /\ r.names = <<>>
    BY DEF Idle
  <2> HIDE DEF r
  <2>4. Holds("names", r)
    BY <2>2, <2>3, FreshByName
  <2> QED
    BY <2>1, <2>4, ReceivedStep DEF r
<1>11. CASE ReceiveLoadChart(w)
  <2>1. Receive(w, "chart", [Idle EXCEPT !.kind = "chart", !.newParents = Parents \ parents])
    BY <1>11 DEF ReceiveLoadChart
  <2>2. Holds("chart", [Idle EXCEPT !.kind = "chart", !.newParents = Parents \ parents])
    BY DEF Holds, Idle
  <2> QED
    BY <2>1, <2>2, ReceivedStep
<1> QED
  BY <1>1, <1>2, <1>3, <1>4, <1>5, <1>6, <1>7, <1>8, <1>9, <1>10, <1>11 DEF ReceiveAny

-----------------------------------------------------------------------------
(* Requests that look their accounts up by name.                           *)

\* What such a request holds at its label.
LEMMA ByNameHolds ==
  ASSUME IInv, NEW w \in Workers, pc[w] \in {"parents", "names", "resolve", "commit"}
  PROVE  /\ DOMAIN req[w] = DOMAIN Idle /\ ByNameInv(req[w])
         /\ pc[w] \in {"parents", "names"} => req[w].made = <<>>
         /\ pc[w] = "resolve" => \A i \in DOMAIN req[w].specs :
              req[w].specs[i][1] \in parents \cup req[w].newParents
  BY DEF IInv, RequestInv, Holds

\* A closing notes the parents it will have to make.
LEMMA EnsureParentsStep ==
  ASSUME IInv, NEW w \in Workers, EnsureParents(w)
  PROVE  IInv'
<1> DEFINE r == req[w]
           q == [r EXCEPT !.newParents = ClosingParents \ parents]
<1>1. DOMAIN r = DOMAIN Idle /\ ByNameInv(r) /\ r.made = <<>>
  BY ByNameHolds DEF EnsureParents
<1>2. /\ DOMAIN q = DOMAIN Idle /\ q.newParents = ClosingParents \ parents
      /\ q.kind = r.kind /\ q.company = r.company /\ q.sha = r.sha /\ q.specs = r.specs
      /\ q.made = r.made /\ q.adopted = r.adopted /\ q.legs = r.legs /\ q.names = r.names
  BY <1>1 DEF Idle
<1>3. GotoWith(w, "names", q) /\ UNCHANGED <<tables, requests, history>>
  BY DEF EnsureParents
<1> HIDE DEF r, q
<1>4. Holds("names", q)
  BY <1>1, <1>2, ParentsAssumption DEF Holds, ByNameInv
<1>5. requests' \in 0..MaxRequests
  BY <1>3 DEF IInv, Tables, TypeOK
<1> QED
  BY <1>3, <1>4, <1>5, QuietStep

\* The names are read together with the companies that own them: those are settled.
LEMMA LoadNamesStep ==
  ASSUME IInv, NEW w \in Workers, LoadNames(w)
  PROVE  IInv'
<1> DEFINE r == req[w]
           wanted == {r.specs[i][1] : i \in DOMAIN r.specs}
           names == [a \in {b \in DOMAIN accounts : accounts[b].parent \in wanted} |->
                       <<Key(accounts[a]), accounts[a].company>>]
           seen == IF r.company = New THEN r.seen ELSE changes[r.company]
           q == [r EXCEPT !.names = names, !.seen = seen]
<1>1. DOMAIN r = DOMAIN Idle /\ ByNameInv(r)
  BY ByNameHolds DEF LoadNames
<1>2. /\ DOMAIN q = DOMAIN Idle /\ q.newParents = r.newParents
      /\ q.kind = r.kind /\ q.company = r.company /\ q.sha = r.sha /\ q.specs = r.specs
      /\ q.made = r.made /\ q.adopted = r.adopted /\ q.legs = r.legs /\ q.names = names
  BY <1>1 DEF Idle
<1>3. GotoWith(w, "resolve", q) /\ UNCHANGED <<tables, requests, history>>
  BY DEF LoadNames
<1>4. wanted \subseteq parents \cup r.newParents
  BY DEF LoadNames
<1>5. ASSUME NEW a \in DOMAIN names
      PROVE  /\ a \in 1..nextAccount
             /\ names[a][2] # New /\ (names[a][2] = r.company => Settled(r.company, a))
  <2>1. names[a][2] = accounts[a].company /\ a \in DOMAIN accounts
    OBVIOUS
  <2>2. a \in 1..nextAccount /\ accounts[a].company \in Companies \cup {None}
    BY <2>1 DEF IInv, Tables, TypeOK
  <2> QED
    BY <2>1, <2>2, NoneAssumption DEF Settled
<1>6. \A i \in DOMAIN r.specs : r.specs[i][1] \in parents \cup r.newParents
  BY <1>4
<1> HIDE DEF names, r, q
<1>7. Holds("resolve", q)
  BY <1>1, <1>2, <1>5, <1>6 DEF Holds, ByNameInv
<1>8. requests' \in 0..MaxRequests
  BY <1>3 DEF IInv, Tables, TypeOK
<1> QED
  BY <1>3, <1>7, <1>8, QuietStep

\* The specs that are left are specs that were asked for.
LEMMA TailSpecs ==
  ASSUME NEW S, NEW specs \in Seq(S \X Names), specs # <<>>, NEW P,
         \A i \in DOMAIN specs : specs[i][1] \in P
  PROVE  /\ Head(specs) \in S \X Names /\ Head(specs)[1] \in P
         /\ Tail(specs) \in Seq(S \X Names)
         /\ \A i \in DOMAIN Tail(specs) : Tail(specs)[i][1] \in P
<1>1. Len(specs) \in Nat \ {0} /\ Head(specs) = specs[1] /\ 1 \in DOMAIN specs
  OBVIOUS
<1>2. Tail(specs) \in Seq(S \X Names)
  OBVIOUS
<1>3. ASSUME NEW i \in DOMAIN Tail(specs)
      PROVE  Tail(specs)[i][1] \in P
  <2>1. i + 1 \in DOMAIN specs /\ Tail(specs)[i] = specs[i + 1]
    BY <1>1, <1>3
  <2> QED
    BY <2>1
<1> QED
  BY <1>1, <1>2, <1>3

\* UseAccount: the account is the company's own, or it is nobody's and is taken over.
LEMMA UseAccountStep ==
  ASSUME IInv, NEW w \in Workers, pc[w] = "resolve", req[w].specs # <<>>,
         NEW key, NEW a \in 1..nextAccount, NEW adopts \in BOOLEAN,
         adopts \/ (req[w].company # New /\ Settled(req[w].company, a)),
         UseAccount(w, key, a, adopts), UNCHANGED <<tables, requests, history>>
  PROVE  IInv'
<1> DEFINE r == req[w]
           adopted == IF adopts THEN r.adopted \cup {a} ELSE r.adopted
           q == [r EXCEPT !.specs = Tail(r.specs), !.keys = r.keys \cup {key},
                          !.legs = r.legs \cup {a}, !.adopted = adopted]
<1>1. /\ DOMAIN r = DOMAIN Idle /\ ByNameInv(r)
      /\ \A i \in DOMAIN r.specs : r.specs[i][1] \in parents \cup r.newParents
  BY ByNameHolds
<1>2. /\ DOMAIN q = DOMAIN Idle /\ q.newParents = r.newParents
      /\ q.kind = r.kind /\ q.company = r.company /\ q.sha = r.sha /\ q.specs = Tail(r.specs)
      /\ q.made = r.made /\ q.adopted = adopted /\ q.legs = r.legs \cup {a} /\ q.names = r.names
  BY <1>1 DEF Idle
<1>3. GotoWith(w, "resolve", q)
  BY <1>1 DEF UseAccount, Idle
<1>4. r.specs \in Seq(Parents \X Names) /\ r.specs # <<>>
  BY <1>1 DEF ByNameInv
<1> HIDE DEF r, q
<1>5. /\ q.specs \in Seq(Parents \X Names)
      /\ \A i \in DOMAIN q.specs : q.specs[i][1] \in parents \cup q.newParents
  BY <1>1, <1>2, <1>4, TailSpecs
<1>6. /\ q.adopted \subseteq q.legs /\ q.legs \subseteq 1..nextAccount
      /\ q.company = New => q.legs = q.adopted
      /\ q.company # New => \A b \in q.legs \ q.adopted : Settled(q.company, b)
  BY <1>1, <1>2 DEF ByNameInv, r
<1>7. Holds("resolve", q)
  BY <1>1, <1>2, <1>5, <1>6 DEF Holds, ByNameInv
<1>8. requests' \in 0..MaxRequests
  BY DEF IInv, Tables, TypeOK
<1> QED
  BY <1>3, <1>7, <1>8, QuietStep

\* Min: a set of naturals has a least member.
LEMMA MinMember ==
  ASSUME NEW S, S \subseteq Nat, S # {}
  PROVE  Min(S) \in S
<1>1. PICK x \in S : \A y \in S : ~(<<y, x>> \in OpToRel(<, Nat))
  BY WFMin, NatLessThanWellFounded
<1>2. ASSUME NEW y \in S
      PROVE  x =< y
  <2>1. x \in Nat /\ y \in Nat
    OBVIOUS
  <2>2. ~(y < x)
    BY <1>1, <2>1, Zenon DEF OpToRel
  <2> QED
    BY <2>1, <2>2
<1> QED
  BY <1>2 DEF Min

\* _next_child_full_code: a code of two digits that is free.
LEMMA NextCodeFree ==
  ASSUME NEW r, NEW p, NEW code \in NextCodes(r, p)
  PROVE  code \in 0..LastCode /\ code \notin TakenCodes(r, p)
<1> DEFINE free == (1..LastCode) \ TakenCodes(r, p)
<1>1. free # {} /\ code = Min(free)
  BY DEF NextCodes
<1>2. free \subseteq Nat
  BY BoundsAssumption
<1>3. Min(free) \in free
  <2> HIDE DEF free
  <2> QED
    BY <1>1, <1>2, MinMember
<1> QED
  BY <1>1, <1>3, BoundsAssumption

\* MakeAccount: a row under a parent that will be there, with a code that the request's other
\* rows do not have.
LEMMA MakeAccountStep ==
  ASSUME IInv, NEW w \in Workers, pc[w] = "resolve", req[w].specs # <<>>,
         MakeAccount(w, Head(req[w].specs)), UNCHANGED <<tables, requests, history>>
  PROVE  IInv'
<1> DEFINE r == req[w]
           key == Head(r.specs)
<1>1. PICK code \in NextCodes(r, key[1]) :
        GotoWith(w, "resolve",
          [r EXCEPT !.specs = Tail(r.specs), !.keys = r.keys \cup {key},
                    !.made = Append(r.made, [parent |-> key[1], code |-> code, name |-> key[2],
                                             company |-> r.company, auto |-> TRUE])])
  BY ByNameHolds DEF MakeAccount, Idle
<1> DEFINE row == [parent |-> key[1], code |-> code, name |-> key[2],
                   company |-> r.company, auto |-> TRUE]
           q == [r EXCEPT !.specs = Tail(r.specs), !.keys = r.keys \cup {key},
                          !.made = Append(r.made, row)]
<1>2. /\ DOMAIN r = DOMAIN Idle /\ ByNameInv(r)
      /\ \A i \in DOMAIN r.specs : r.specs[i][1] \in parents \cup r.newParents
  BY ByNameHolds
<1>3. /\ DOMAIN q = DOMAIN Idle /\ q.newParents = r.newParents
      /\ q.kind = r.kind /\ q.company = r.company /\ q.sha = r.sha /\ q.specs = Tail(r.specs)
      /\ q.made = Append(r.made, row) /\ q.adopted = r.adopted /\ q.legs = r.legs
      /\ q.names = r.names
  BY <1>2 DEF Idle
<1>4. r.specs \in Seq(Parents \X Names) /\ r.specs # <<>>
  BY <1>2 DEF ByNameInv
<1>5. /\ key \in Parents \X Names /\ key[1] \in parents \cup r.newParents
      /\ Tail(r.specs) \in Seq(Parents \X Names)
      /\ \A i \in DOMAIN Tail(r.specs) : Tail(r.specs)[i][1] \in parents \cup r.newParents
  <2> HIDE DEF r
  <2> QED
    BY <1>2, <1>4, TailSpecs
<1>6. code \in 0..LastCode /\ code \notin TakenCodes(r, key[1])
  BY <1>1, NextCodeFree
<1>7. /\ row \in Row(Parents, Companies \cup {New})
      /\ row.parent = key[1] /\ row.code = code
  <2>1. r.company \in Companies \cup {New}
    BY <1>2 DEF ByNameInv, IInv, Tables, TypeOK
  <2> QED
    BY <1>5, <1>6, <2>1 DEF Row
<1> HIDE DEF r, q, row, key
<1>8. r.made \in Seq(Row(Parents, Companies \cup {New}))
  BY <1>2 DEF ByNameInv
<1>9. /\ q.made \in Seq(Row(Parents, Companies \cup {New}))
      /\ Len(q.made) = Len(r.made) + 1
      /\ \A i \in DOMAIN r.made : q.made[i] = r.made[i]
      /\ q.made[Len(r.made) + 1] = row
      /\ DOMAIN q.made = DOMAIN r.made \cup {Len(r.made) + 1}
      /\ Len(r.made) + 1 \notin DOMAIN r.made
  BY <1>3, <1>7, <1>8
<1>10. \A i \in DOMAIN r.made : ~(r.made[i].parent = row.parent /\ r.made[i].code = row.code)
  BY <1>6, <1>7 DEF TakenCodes
<1>11. \A i \in DOMAIN q.made : q.made[i].parent \in parents \cup q.newParents
  BY <1>2, <1>3, <1>5, <1>7, <1>9 DEF ByNameInv
<1>12. \A i, j \in DOMAIN q.made :
         (q.made[i].parent = q.made[j].parent /\ q.made[i].code = q.made[j].code) => i = j
  <2>1. \A i, j \in DOMAIN r.made :
          (r.made[i].parent = r.made[j].parent /\ r.made[i].code = r.made[j].code) => i = j
    BY <1>2 DEF ByNameInv
  <2> QED
    BY <1>9, <1>10, <2>1
<1>13. Holds("resolve", q)
  BY <1>2, <1>3, <1>5, <1>9, <1>11, <1>12 DEF Holds, ByNameInv
<1>14. requests' \in 0..MaxRequests
  BY DEF IInv, Tables, TypeOK
<1>15. GotoWith(w, "resolve", q)
  BY <1>1 DEF q, row
<1> QED
  BY <1>13, <1>14, <1>15, QuietStep

\* One spec: nothing to do, an own account, one that is taken over, or a new one.
LEMMA ResolveStep ==
  ASSUME IInv, NEW w \in Workers, Resolve(w)
  PROVE  IInv'
<1> DEFINE r == req[w]
           key == Head(r.specs)
           named == {a \in DOMAIN r.names : r.names[a][1] = key}
           own == OwnNamed(r, key)
<1>1. pc[w] = "resolve" /\ r.specs # <<>> /\ UNCHANGED <<tables, requests, history>>
  BY DEF Resolve
<1>2. /\ DOMAIN r = DOMAIN Idle /\ ByNameInv(r)
      /\ \A i \in DOMAIN r.specs : r.specs[i][1] \in parents \cup r.newParents
  BY <1>1, ByNameHolds
<1>3. \/ GotoWith(w, "resolve", [r EXCEPT !.specs = Tail(r.specs)])
      \/ \E a \in own : UseAccount(w, key, a, FALSE)
      \/ MakeAccount(w, key)
      \/ \E a \in named : ByName(w, key, a)
  BY <1>2 DEF Resolve, Idle
<1>4. CASE GotoWith(w, "resolve", [r EXCEPT !.specs = Tail(r.specs)])
  <2> DEFINE q == [r EXCEPT !.specs = Tail(r.specs)]
  <2>1. /\ DOMAIN q = DOMAIN Idle /\ q.newParents = r.newParents
        /\ q.kind = r.kind /\ q.company = r.company /\ q.sha = r.sha /\ q.specs = Tail(r.specs)
        /\ q.made = r.made /\ q.adopted = r.adopted /\ q.legs = r.legs /\ q.names = r.names
    BY <1>2 DEF Idle
  <2>2. r.specs \in Seq(Parents \X Names)
    BY <1>2 DEF ByNameInv
  <2>3. requests' \in 0..MaxRequests
    BY <1>1 DEF IInv, Tables, TypeOK
  <2>4. GotoWith(w, "resolve", q)
    BY <1>4
  <2> HIDE DEF r, q
  <2>5. /\ q.specs \in Seq(Parents \X Names)
        /\ \A i \in DOMAIN q.specs : q.specs[i][1] \in parents \cup q.newParents
    BY <1>1, <1>2, <2>1, <2>2, TailSpecs
  <2>6. Holds("resolve", q)
    BY <1>2, <2>1, <2>5 DEF Holds, ByNameInv
  <2> QED
    BY <1>1, <2>3, <2>4, <2>6, QuietStep
<1>5. CASE \E a \in own : UseAccount(w, key, a, FALSE)
  <2>1. PICK a \in own : UseAccount(w, key, a, FALSE)
    BY <1>5
  <2>2. a \in 1..nextAccount /\ r.company # New /\ Settled(r.company, a)
    <3>1. a \in DOMAIN r.names /\ r.names[a][2] = r.company
      BY <2>1 DEF OwnNamed
    <3> QED
      BY <1>2, <3>1 DEF ByNameInv
  <2> QED
    BY <1>1, <2>1, <2>2, UseAccountStep
<1>6. CASE MakeAccount(w, key)
  BY <1>1, <1>6, MakeAccountStep
<1>7. CASE \E a \in named : ByName(w, key, a)
  <2>1. PICK a \in named : ByName(w, key, a)
    BY <1>7
  <2>2. a \in 1..nextAccount
    BY <1>2 DEF ByNameInv
  <2>3. CASE CompanyNow(a) = r.company /\ UseAccount(w, key, a, FALSE)
    <3>1. r.company # New /\ Settled(r.company, a)
      <4>1. a \in DOMAIN accounts => accounts[a].company \in Companies \cup {None}
        BY DEF IInv, Tables, TypeOK
      <4>2. r.company # New
        BY <2>3, <4>1, NoneAssumption DEF CompanyNow
      <4> QED
        BY <2>3, <4>2 DEF CompanyNow, Settled
    <3> QED
      BY <1>1, <2>2, <2>3, <3>1, UseAccountStep
  <2>4. CASE UseAccount(w, key, a, TRUE)
    BY <1>1, <2>2, <2>4, UseAccountStep
  <2>5. CASE MakeAccount(w, key)
    BY <1>1, <2>5, MakeAccountStep
  <2> QED
    BY <2>1, <2>3, <2>4, <2>5 DEF ByName
<1> QED
  BY <1>3, <1>4, <1>5, <1>6, <1>7

\* The slug of a demo changes nothing that the tables rely on.
LEMMA ResolvedStep ==
  ASSUME IInv, NEW w \in Workers, Resolved(w)
  PROVE  IInv'
<1> DEFINE r == req[w]
           slug == Min((1..Cardinality(Companies) + 1) \ {slugs[c] : c \in DOMAIN slugs})
           q == [r EXCEPT !.slug = slug]
<1>1. pc[w] = "resolve" /\ UNCHANGED <<tables, requests, history>>
  BY DEF Resolved
<1>2. DOMAIN r = DOMAIN Idle /\ ByNameInv(r)
  BY <1>1, ByNameHolds
<1>3. requests' \in 0..MaxRequests
  BY <1>1 DEF IInv, Tables, TypeOK
<1>4. CASE GotoWith(w, "commit", q)
  <2>1. /\ DOMAIN q = DOMAIN Idle /\ q.newParents = r.newParents
        /\ q.kind = r.kind /\ q.company = r.company /\ q.sha = r.sha /\ q.specs = r.specs
        /\ q.made = r.made /\ q.adopted = r.adopted /\ q.legs = r.legs /\ q.names = r.names
    BY <1>2 DEF Idle
  <2> HIDE DEF r, q
  <2>2. Holds("commit", q)
    BY <1>2, <2>1 DEF Holds, ByNameInv
  <2> QED
    BY <1>1, <1>3, <1>4, <2>2, QuietStep
<1>5. CASE GotoWith(w, "commit", r)
  <2>1. Holds("commit", r)
    BY <1>2 DEF Holds
  <2> QED
    BY <1>1, <1>3, <1>5, <2>1, QuietStep
<1> QED
  BY <1>4, <1>5 DEF Resolved

-----------------------------------------------------------------------------
(* Commits.                                                                *)

\* A commit has to keep the tables right, and what the other requests rely on.
LEMMA WriterStep ==
  ASSUME IInv, NEW w \in Workers, Done(w), Stable, Tables'
  PROVE  IInv'
<1>1. DOMAIN pc' = Workers /\ DOMAIN req' = Workers
  BY DEF Done, GotoWith, IInv
<1>2. RequestInv'
  <2> SUFFICES ASSUME NEW v \in Workers PROVE Holds(pc[v], req[v])'
    BY DEF RequestInv
  <2>1. CASE v = w
    <3>1. pc'[v] = "idle" /\ req'[v] = Idle
      BY <2>1 DEF Done, GotoWith, IInv
    <3> QED
      BY <3>1 DEF Holds
  <2>2. CASE v # w
    <3>1. pc'[v] = pc[v] /\ req'[v] = req[v]
      BY <2>2 DEF Done, GotoWith, IInv
    <3> QED
      BY <3>1, OthersKeep
  <2> QED
    BY <2>1, <2>2
<1> QED
  BY <1>1, <1>2 DEF IInv

\* The tables, with the type of an account as a set of rows.
LEMMA TableFacts ==
  ASSUME IInv
  PROVE  /\ parents \subseteq Parents
         /\ DOMAIN companies \subseteq usedCompanies /\ usedCompanies \subseteq Companies
         /\ \A c \in DOMAIN companies : companies[c] \in Contents \cup {None}
         /\ DOMAIN slugs \subseteq DOMAIN companies
         /\ nextAccount \in Nat /\ DOMAIN accounts \subseteq 1..nextAccount
         /\ \A a \in DOMAIN accounts : accounts[a] \in Row(parents, DOMAIN companies \cup {None})
         /\ \A e \in entries : e.legs # {} /\ e.opening \in BOOLEAN
         /\ requests \in 0..MaxRequests
         /\ CodesUnique /\ PostingsStayValid /\ SlugInv
  BY DEF IInv, Tables, TypeOK, Row

\* create_account: a key that no account had and a code that is free.
LEMMA CreateAccountStep ==
  ASSUME IInv, NEW w \in Workers, CreateAccount(w)
  PROVE  IInv'
<1> DEFINE r == req[w]
           n == nextAccount + 1
<1>1. r.company \in Companies /\ r.row \in Row(parents, {r.company})
  BY DEF IInv, RequestInv, Holds, CreateAccount
<1>2. /\ r.row.code \notin CodesUnder(r.row.parent) /\ r.company \in DOMAIN companies
      /\ nextAccount' = n
      /\ accounts' = [a \in DOMAIN accounts \cup {n} |-> IF a = n THEN r.row ELSE accounts[a]]
      /\ Done(w)
      /\ UNCHANGED <<parents, companies, slugs, usedCompanies, entries, revived, requests>>
  BY DEF CreateAccount, UniqueCodes, Done
<1>3. nextAccount \in Nat /\ n \in Nat /\ DOMAIN accounts \subseteq 1..nextAccount
      /\ n \notin DOMAIN accounts
  BY TableFacts
<1> HIDE DEF r
<1>4. /\ DOMAIN accounts' = DOMAIN accounts \cup {n} /\ accounts'[n] = r.row
      /\ \A a \in DOMAIN accounts : accounts'[a] = accounts[a]
  BY <1>2, <1>3
<1>5. Stable
  BY <1>2, <1>3, <1>4 DEF Stable, Settled
<1>6. TypeOK'
  <2>1. \A a \in DOMAIN accounts' : accounts'[a] \in Row(parents, DOMAIN companies \cup {None})
    BY <1>1, <1>2, <1>4, TableFacts DEF Row
  <2>2. DOMAIN accounts' \subseteq 1..nextAccount'
    BY <1>2, <1>3, <1>4
  <2> QED
    BY <1>2, <2>1, <2>2, TableFacts DEF TypeOK, Row
<1>7. CodesUnique'
  <2>1. \A a \in DOMAIN accounts :
          ~(accounts[a].parent = r.row.parent /\ accounts[a].code = r.row.code)
    BY <1>2 DEF CodesUnder
  <2> QED
    BY <1>4, <2>1, TableFacts DEF CodesUnique
<1>8. PostingsStayValid'
  BY <1>2, <1>4, TableFacts DEF PostingsStayValid
<1>9. SlugInv'
  BY <1>2, TableFacts DEF SlugInv
<1>10. Tables'
  BY <1>2, <1>3, <1>6, <1>7, <1>8, <1>9 DEF Tables
<1> QED
  BY <1>2, <1>5, <1>10, WriterStep

\* update_account: the account keeps its owner; one that has gone comes back as revived.
LEMMA UpdateAccountStep ==
  ASSUME IInv, NEW w \in Workers, UpdateAccount(w)
  PROVE  IInv'
<1> DEFINE r == req[w]
           n == r.account
           gone == n \notin DOMAIN accounts
           row == IF gone THEN Reinserted(r.row) ELSE [r.row EXCEPT !.company = accounts[n].company]
<1>1. n \in 1..nextAccount /\ r.row \in Row(parents, Companies)
  BY DEF IInv, RequestInv, Holds, UpdateAccount
<1>2. /\ \A a \in DOMAIN accounts \ {n} :
           <<accounts[a].parent, accounts[a].code>> # <<r.row.parent, r.row.code>>
      /\ accounts' = [a \in DOMAIN accounts \cup {n} |-> IF a = n THEN row ELSE accounts[a]]
      /\ revived' = IF gone THEN revived \cup {n} ELSE revived
      /\ Done(w)
      /\ UNCHANGED <<parents, companies, slugs, usedCompanies, nextAccount, entries, requests>>
  BY DEF UpdateAccount, Done
<1>3. nextAccount \in Nat /\ DOMAIN accounts \subseteq 1..nextAccount
  BY TableFacts
<1>4. /\ row \in Row(parents, DOMAIN companies \cup {None})
      /\ row.parent = r.row.parent /\ row.code = r.row.code
      /\ ~gone => row.company = accounts[n].company
  <2>1. CASE gone
    BY <1>1, <2>1 DEF Reinserted, Row
  <2>2. CASE ~gone
    <3>1. accounts[n].company \in DOMAIN companies \cup {None}
      BY <2>2, TableFacts DEF Row
    <3> QED
      BY <1>1, <2>2, <3>1 DEF Row
  <2> QED
    BY <2>1, <2>2
<1> HIDE DEF r, n, row
<1>5. /\ DOMAIN accounts' = DOMAIN accounts \cup {n} /\ accounts'[n] = row
      /\ \A a \in DOMAIN accounts \ {n} : accounts'[a] = accounts[a]
  BY <1>2
<1>6. /\ revived \subseteq revived'
      /\ \A a \in DOMAIN accounts : accounts'[a].company = accounts[a].company
      /\ \A a \in DOMAIN accounts' \ DOMAIN accounts : a \in revived'
  BY <1>2, <1>4, <1>5
<1>7. Stable
  BY <1>2, <1>3, <1>5, <1>6 DEF Stable, Settled
<1>8. TypeOK'
  <2>1. \A a \in DOMAIN accounts' : accounts'[a] \in Row(parents, DOMAIN companies \cup {None})
    BY <1>4, <1>5, TableFacts
  <2>2. DOMAIN accounts' \subseteq 1..nextAccount
    BY <1>1, <1>3, <1>5
  <2> QED
    BY <1>2, <2>1, <2>2, TableFacts DEF TypeOK, Row
<1>9. CodesUnique'
  BY <1>2, <1>4, <1>5, TableFacts DEF CodesUnique
<1>10. PostingsStayValid'
  BY <1>2, <1>5, <1>6, TableFacts DEF PostingsStayValid
<1>11. SlugInv'
  BY <1>2, TableFacts DEF SlugInv
<1>12. Tables'
  BY <1>2, <1>3, <1>8, <1>9, <1>10, <1>11 DEF Tables
<1> QED
  BY <1>2, <1>7, <1>12, WriterStep

\* delete_account: an account without legs takes no entry with it.
LEMMA DeleteAccountStep ==
  ASSUME IInv, NEW w \in Workers, DeleteAccount(w)
  PROVE  IInv'
<1> DEFINE n == req[w].account
<1>1. /\ \A e \in entries : n \notin e.legs
      /\ accounts' = [b \in DOMAIN accounts \ {n} |-> accounts[b]]
      /\ Done(w)
      /\ UNCHANGED <<parents, companies, slugs, usedCompanies, nextAccount, entries, revived, requests>>
  BY DEF DeleteAccount, HasLegs, Done, history
<1> HIDE DEF n
<1>2. DOMAIN accounts' \subseteq DOMAIN accounts /\ \A a \in DOMAIN accounts' : accounts'[a] = accounts[a]
  BY <1>1
<1>3. Stable
  BY <1>1, <1>2, TableFacts DEF Stable, Settled
<1>4. TypeOK'
  BY <1>1, <1>2, TableFacts DEF TypeOK, Row
<1>5. CodesUnique'
  BY <1>2, TableFacts DEF CodesUnique
<1>6. PostingsStayValid'
  BY <1>1, TableFacts DEF PostingsStayValid
<1>7. SlugInv'
  BY <1>1, TableFacts DEF SlugInv
<1>8. Tables'
  BY <1>1, <1>4, <1>5, <1>6, <1>7, TableFacts DEF Tables
<1> QED
  BY <1>1, <1>3, <1>8, WriterStep

\* create_journal_entry: the accounts were settled when they were checked.
LEMMA PostStep ==
  ASSUME IInv, NEW w \in Workers, Post(w)
  PROVE  IInv'
<1> DEFINE r == req[w]
           entry == [company |-> r.company, legs |-> r.legs, opening |-> FALSE]
<1>1. /\ r.legs # {} /\ \A a \in r.legs : Settled(r.company, a)
  BY DEF IInv, RequestInv, Holds, Post
<1>2. /\ r.company \in DOMAIN companies /\ r.legs \subseteq DOMAIN accounts
      /\ entries' = entries \cup {entry}
      /\ Done(w)
      /\ UNCHANGED <<parents, companies, slugs, usedCompanies, nextAccount, accounts, revived, requests>>
  BY DEF Post, Done, history
<1> HIDE DEF r
<1>3. Stable
  BY <1>2, TableFacts DEF Stable, Settled
<1>4. TypeOK'
  <2>1. \A e \in entries' : e.legs # {} /\ e.opening \in BOOLEAN
    <3>1. entry.legs # {}
      BY <1>1
    <3>2. entry.opening \in BOOLEAN
      OBVIOUS
    <3> HIDE DEF entry
    <3> QED
      BY <1>2, <3>1, <3>2, TableFacts
  <2> QED
    BY <1>2, <2>1, TableFacts DEF TypeOK, Row
<1>5. CodesUnique' /\ SlugInv'
  BY <1>2, TableFacts DEF CodesUnique, SlugInv
<1>6. PostingsStayValid'
  <2>1. /\ entry.company \in DOMAIN companies /\ entry.legs \subseteq DOMAIN accounts
        /\ entry.company \in revived \/ \A a \in entry.legs : accounts[a].company = entry.company \/ a \in revived
    BY <1>1, <1>2 DEF Settled
  <2> QED
    BY <1>2, <2>1, TableFacts DEF PostingsStayValid
<1>7. Tables'
  BY <1>2, <1>4, <1>5, <1>6, TableFacts DEF Tables
<1> QED
  BY <1>2, <1>3, <1>7, WriterStep

\* update_company: a company that has gone comes back as revived.
LEMMA UpdateCompanyStep ==
  ASSUME IInv, NEW w \in Workers, UpdateCompany(w)
  PROVE  IInv'
<1> DEFINE n == req[w].company
<1>1. n \in usedCompanies /\ n \notin DOMAIN slugs
  BY DEF IInv, RequestInv, Holds, UpdateCompany
<1>2. /\ companies' = [d \in DOMAIN companies \cup {n} |-> IF d = n THEN None ELSE companies[d]]
      /\ revived' = IF n \in DOMAIN companies THEN revived ELSE revived \cup {n}
      /\ Done(w)
      /\ UNCHANGED <<parents, slugs, usedCompanies, nextAccount, accounts, entries, requests>>
  BY DEF UpdateCompany, Done
<1> HIDE DEF n
<1>3. /\ DOMAIN companies' = DOMAIN companies \cup {n} /\ companies'[n] = None
      /\ \A c \in DOMAIN companies \ {n} : companies'[c] = companies[c]
      /\ revived \subseteq revived' /\ \A c \in DOMAIN companies' \ DOMAIN companies : c \in revived'
  BY <1>2
<1>4. Stable
  BY <1>2, <1>3, TableFacts DEF Stable, Settled
<1>5. TypeOK'
  BY <1>1, <1>2, <1>3, TableFacts DEF TypeOK, Row
<1>6. CodesUnique' /\ SlugInv'
  BY <1>1, <1>2, <1>3, TableFacts DEF CodesUnique, SlugInv
<1>7. PostingsStayValid'
  BY <1>2, <1>3, TableFacts DEF PostingsStayValid
<1>8. Tables'
  BY <1>2, <1>5, <1>6, <1>7, TableFacts DEF Tables
<1> QED
  BY <1>2, <1>4, <1>8, WriterStep

\* delete_company: a company without entries goes, its accounts become nobody's.
LEMMA DeleteCompanyStep ==
  ASSUME IInv, NEW w \in Workers, DeleteCompany(w)
  PROVE  IInv'
<1> DEFINE n == req[w].company
<1>1. n \in usedCompanies /\ n \notin DOMAIN slugs
  BY DEF IInv, RequestInv, Holds, DeleteCompany
<1>2. /\ \A e \in entries : e.company # n
      /\ companies' = [d \in DOMAIN companies \ {n} |-> companies[d]]
      /\ accounts' = [a \in DOMAIN accounts |->
                        IF accounts[a].company = n THEN [accounts[a] EXCEPT !.company = None]
                                                   ELSE accounts[a]]
      /\ Done(w)
      /\ UNCHANGED <<parents, slugs, usedCompanies, nextAccount, entries, revived, requests>>
  BY DEF DeleteCompany, EntriesOf, Done, history
<1> HIDE DEF n
<1>3. DOMAIN companies' = DOMAIN companies \ {n} /\ \A c \in DOMAIN companies' : companies'[c] = companies[c]
  BY <1>2
<1>4. \A a \in DOMAIN accounts :
        /\ accounts'[a].company = IF accounts[a].company = n THEN None ELSE accounts[a].company
        /\ accounts'[a].parent = accounts[a].parent /\ accounts'[a].code = accounts[a].code
        /\ accounts'[a] \in Row(parents, (DOMAIN companies \ {n}) \cup {None})
  <2> SUFFICES ASSUME NEW a \in DOMAIN accounts
               PROVE  /\ accounts'[a].company = IF accounts[a].company = n THEN None ELSE accounts[a].company
                      /\ accounts'[a].parent = accounts[a].parent /\ accounts'[a].code = accounts[a].code
                      /\ accounts'[a] \in Row(parents, (DOMAIN companies \ {n}) \cup {None})
    OBVIOUS
  <2>1. accounts[a] \in Row(parents, DOMAIN companies \cup {None})
    BY TableFacts
  <2>2. accounts'[a] = IF accounts[a].company = n THEN [accounts[a] EXCEPT !.company = None] ELSE accounts[a]
    BY <1>2
  <2> QED
    BY <2>1, <2>2 DEF Row
<1>5. DOMAIN accounts' = DOMAIN accounts
  BY <1>2
<1>6. Stable
  <2>1. \A c \in usedCompanies, a \in 1..nextAccount : Settled(c, a) => Settled(c, a)'
    BY <1>2, <1>3, <1>4, <1>5 DEF Settled
  <2> QED
    BY <1>2, <2>1, TableFacts DEF Stable
<1>7. TypeOK'
  BY <1>1, <1>2, <1>3, <1>4, <1>5, TableFacts DEF TypeOK, Row
<1>8. CodesUnique' /\ SlugInv'
  BY <1>1, <1>2, <1>3, <1>4, <1>5, TableFacts DEF CodesUnique, SlugInv
<1>9. PostingsStayValid'
  BY <1>2, <1>3, <1>4, <1>5, TableFacts DEF PostingsStayValid
<1>10. Tables'
  BY <1>2, <1>7, <1>8, <1>9, TableFacts DEF Tables
<1> QED
  BY <1>2, <1>6, <1>10, WriterStep

\* load_chart_of_accounts only adds parents.
LEMMA LoadChartStep ==
  ASSUME IInv, NEW w \in Workers, LoadChart(w)
  PROVE  IInv'
<1>1. req[w].newParents \subseteq Parents
  BY DEF IInv, RequestInv, Holds, LoadChart
<1>2. /\ parents' = parents \cup req[w].newParents
      /\ Done(w)
      /\ UNCHANGED <<companies, slugs, usedCompanies, nextAccount, accounts, entries, revived, requests>>
  BY DEF LoadChart, Done, history
<1>3. Stable
  BY <1>2, TableFacts DEF Stable, Settled
<1>4. TypeOK'
  BY <1>1, <1>2, TableFacts DEF TypeOK, Row
<1>5. CodesUnique' /\ SlugInv' /\ PostingsStayValid'
  BY <1>2, TableFacts DEF CodesUnique, SlugInv, PostingsStayValid
<1>6. Tables'
  BY <1>2, <1>4, <1>5, TableFacts DEF Tables
<1> QED
  BY <1>2, <1>3, <1>6, WriterStep

\* CommitByName: its rows have keys that no account had, its codes are free and differ, and the
\* accounts that it takes over are nobody's.
LEMMA CommitByNameStep ==
  ASSUME IInv, NEW w \in Workers, CommitByName(w)
  PROVE  IInv'
<1> DEFINE r == req[w]
           made == {nextAccount + i : i \in DOMAIN r.made}
           isNew == r.company = New
<1>1. ByNameInv(r)
  BY ByNameHolds DEF CommitByName
<1>2. /\ MayCommit(r)
      /\ nextAccount' = nextAccount + Len(r.made)
      /\ parents' = parents \cup r.newParents
      /\ Done(w) /\ UNCHANGED <<revived, requests>>
  BY DEF CommitByName, Done
<1>3. PICK c \in IF isNew THEN Companies \ usedCompanies ELSE {r.company} :
        /\ companies' = [d \in DOMAIN companies \cup {c} |->
                           IF d = c /\ isNew THEN r.sha ELSE companies[d]]
        /\ usedCompanies' = usedCompanies \cup {c}
        /\ slugs' = IF r.kind = "import" THEN [d \in DOMAIN slugs \cup {c} |-> IF d = c THEN r.slug ELSE slugs[d]]
                                         ELSE slugs
        /\ accounts' = [a \in DOMAIN accounts \cup made |->
                          CASE a \in made -> [r.made[a - nextAccount] EXCEPT !.company = c]
                            [] a \in r.adopted -> [accounts[a] EXCEPT !.company = c]
                            [] OTHER -> accounts[a]]
        /\ entries' = IF r.legs \cup made = {} THEN entries
                      ELSE entries \cup {[company |-> c, legs |-> r.legs \cup made, opening |-> r.kind # "close"]}
  BY DEF CommitByName
<1> DEFINE entry == [company |-> c, legs |-> r.legs \cup made, opening |-> r.kind # "close"]
<1>4. /\ r.legs \subseteq DOMAIN accounts /\ \A a \in r.adopted : accounts[a].company = None
      /\ r.adopted \subseteq DOMAIN accounts
      /\ isNew \/ c \in DOMAIN companies
  BY <1>1, <1>2, <1>3 DEF MayCommit, ByNameInv
<1>5. nextAccount \in Nat /\ DOMAIN accounts \subseteq 1..nextAccount
  BY TableFacts
<1>6. /\ r.made \in Seq(Row(Parents, Companies \cup {New}))
      /\ Len(r.made) \in Nat /\ DOMAIN r.made = 1..Len(r.made)
  BY <1>1 DEF ByNameInv
<1>7. /\ made \subseteq 1..nextAccount' /\ made \cap (1..nextAccount) = {}
      /\ nextAccount' \in Nat /\ nextAccount <= nextAccount'
      /\ \A a \in made : a - nextAccount \in DOMAIN r.made
      /\ \A a, b \in made : a - nextAccount = b - nextAccount => a = b
  <2> HIDE DEF r
  <2> QED
    BY <1>2, <1>5, <1>6
<1>8. /\ c \in Companies /\ (isNew => c \notin usedCompanies)
      /\ (~isNew => c \in DOMAIN companies /\ c = r.company) /\ c # None
  BY <1>3, <1>4, NoneAssumption, TableFacts
<1> HIDE DEF r, made
<1>9. /\ DOMAIN accounts' = DOMAIN accounts \cup made
      /\ \A a \in made : accounts'[a] = [r.made[a - nextAccount] EXCEPT !.company = c]
      /\ \A a \in DOMAIN accounts : accounts'[a] = IF a \in r.adopted THEN [accounts[a] EXCEPT !.company = c]
                                                                    ELSE accounts[a]
  <2>1. \A a \in DOMAIN accounts : a \notin made
    BY <1>5, <1>7
  <2>2. DOMAIN accounts' = DOMAIN accounts \cup made
    BY <1>3
  <2>3. ASSUME NEW a \in made
        PROVE  accounts'[a] = [r.made[a - nextAccount] EXCEPT !.company = c]
    <3>1. a \notin r.adopted
      BY <1>4, <2>1
    <3> QED
      BY <1>3, <2>3, <3>1
  <2>4. ASSUME NEW a \in DOMAIN accounts, a \in r.adopted
        PROVE  accounts'[a] = [accounts[a] EXCEPT !.company = c]
    BY <1>3, <2>1, <2>4
  <2>5. ASSUME NEW a \in DOMAIN accounts, a \notin r.adopted
        PROVE  accounts'[a] = accounts[a]
    BY <1>3, <2>1, <2>5
  <2> QED
    BY <2>2, <2>3, <2>4, <2>5
<1>10. ASSUME NEW a \in made
       PROVE  /\ accounts'[a] \in Row(parents', {c})
              /\ accounts'[a].company = c
              /\ accounts'[a].parent = r.made[a - nextAccount].parent
              /\ accounts'[a].code = r.made[a - nextAccount].code
  <2>1. a - nextAccount \in DOMAIN r.made
    BY <1>7
  <2>2. r.made[a - nextAccount] \in Row(Parents, Companies \cup {New})
    BY <1>6, <2>1
  <2>3. r.made[a - nextAccount].parent \in parents'
    BY <1>1, <1>2, <2>1 DEF ByNameInv, r
  <2> QED
    BY <1>9, <2>2, <2>3 DEF Row
<1>11. ASSUME NEW a \in DOMAIN accounts
       PROVE  /\ accounts'[a] \in Row(parents, DOMAIN companies \cup {None, c})
              /\ accounts'[a].company = IF a \in r.adopted THEN c ELSE accounts[a].company
              /\ accounts'[a].parent = accounts[a].parent
              /\ accounts'[a].code = accounts[a].code
  <2>1. accounts[a] \in Row(parents, DOMAIN companies \cup {None})
    BY TableFacts
  <2> QED
    BY <1>9, <2>1 DEF Row
<1>12. DOMAIN companies' = DOMAIN companies \cup {c}
  BY <1>3
<1>13. Stable
  <2>1. ASSUME NEW d \in usedCompanies, NEW a \in 1..nextAccount, Settled(d, a)
        PROVE  Settled(d, a)'
    <3>1. CASE a \in DOMAIN accounts'
      <4>1. a \in DOMAIN accounts /\ a \notin made
        BY <1>7, <1>9, <3>1
      <4>2. CASE a \in revived \/ d \in revived
        BY <1>2, <4>2 DEF Settled
      <4>3. CASE d \notin DOMAIN companies
        <5>1. d \notin DOMAIN companies'
          BY <1>8, <1>12, <4>3
        <5> QED
          BY <5>1 DEF Settled
      <4>4. CASE accounts[a].company = d /\ d \in DOMAIN companies
        <5>1. d # None
          BY <4>4, NoneAssumption, TableFacts
        <5>2. a \notin r.adopted
          BY <1>4, <4>4, <5>1
        <5> QED
          BY <1>11, <4>1, <4>4, <5>2 DEF Settled
      <4> QED
        BY <2>1, <4>1, <4>2, <4>3, <4>4 DEF Settled
    <3>2. CASE a \notin DOMAIN accounts'
      BY <3>2 DEF Settled
    <3> QED
      BY <3>1, <3>2
  <2>2. DOMAIN slugs' \cap usedCompanies \subseteq DOMAIN slugs
    <3>1. r.kind = "import" => c \notin usedCompanies
      BY <1>1, <1>8 DEF ByNameInv, r
    <3> QED
      BY <1>3, <3>1
  <2>3. usedCompanies \subseteq usedCompanies' /\ parents \subseteq parents'
    BY <1>2, <1>3
  <2> QED
    BY <1>7, <2>1, <2>2, <2>3 DEF Stable
<1>14. TypeOK'
  <2>1. \A a \in DOMAIN accounts' : accounts'[a] \in Row(parents', DOMAIN companies' \cup {None})
    BY <1>2, <1>9, <1>10, <1>11, <1>12 DEF Row
  <2>2. DOMAIN accounts' \subseteq 1..nextAccount'
    BY <1>5, <1>7, <1>9
  <2>3. \A d \in DOMAIN companies' : companies'[d] \in Contents \cup {None}
    <3>1. isNew => r.sha \in Contents \cup {None}
      BY <1>1 DEF ByNameInv, r
    <3> QED
      BY <1>3, <1>8, <3>1, TableFacts
  <2>4. DOMAIN companies' \subseteq usedCompanies' /\ usedCompanies' \subseteq Companies
    BY <1>3, <1>8, <1>12, TableFacts
  <2>5. DOMAIN slugs' \subseteq DOMAIN companies'
    BY <1>3, <1>12, TableFacts
  <2>6. \A e \in entries' : e.legs # {} /\ e.opening \in BOOLEAN
    <3>1. r.legs \cup made # {} => entry.legs # {}
      OBVIOUS
    <3>2. entry.opening \in BOOLEAN
      OBVIOUS
    <3>3. entries' = IF r.legs \cup made = {} THEN entries ELSE entries \cup {entry}
      BY <1>3
    <3> HIDE DEF entry
    <3> QED
      BY <3>1, <3>2, <3>3, TableFacts
  <2>7. parents' \subseteq Parents
    BY <1>1, <1>2, TableFacts DEF ByNameInv, r
  <2> QED
    BY <1>2, <2>1, <2>2, <2>3, <2>4, <2>5, <2>6, <2>7, TableFacts DEF TypeOK, Row
<1>15. CodesUnique'
  <2> SUFFICES ASSUME NEW a \in DOMAIN accounts', NEW b \in DOMAIN accounts',
                      accounts'[a].parent = accounts'[b].parent, accounts'[a].code = accounts'[b].code
               PROVE  a = b
    BY DEF CodesUnique
  <2>1. ASSUME NEW x \in made, NEW y \in DOMAIN accounts
        PROVE  ~(accounts'[x].parent = accounts'[y].parent /\ accounts'[x].code = accounts'[y].code)
    <3>1. x - nextAccount \in DOMAIN r.made
      BY <1>7
    <3>2. r.made[x - nextAccount].code \notin CodesUnder(r.made[x - nextAccount].parent)
      BY <1>2, <3>1 DEF MayCommit, UniqueCodes, r
    <3>3. ~(accounts[y].parent = r.made[x - nextAccount].parent
            /\ accounts[y].code = r.made[x - nextAccount].code)
      BY <3>2 DEF CodesUnder
    <3> QED
      BY <1>10, <1>11, <3>3
  <2>2. CASE a \in made /\ b \in made
    <3>1. a - nextAccount \in DOMAIN r.made /\ b - nextAccount \in DOMAIN r.made
      BY <1>7, <2>2
    <3>2. /\ r.made[a - nextAccount].parent = r.made[b - nextAccount].parent
          /\ r.made[a - nextAccount].code = r.made[b - nextAccount].code
      BY <1>10, <2>2
    <3>3. a - nextAccount = b - nextAccount
      BY <1>1, <3>1, <3>2 DEF ByNameInv, r
    <3> QED
      BY <1>7, <2>2, <3>3
  <2>3. CASE a \in DOMAIN accounts /\ b \in DOMAIN accounts
    BY <1>11, <2>3, TableFacts DEF CodesUnique
  <2> QED
    BY <1>9, <2>1, <2>2, <2>3
<1>16. PostingsStayValid'
  <2>1. ASSUME NEW e \in entries
        PROVE  /\ e.company \in DOMAIN companies' /\ e.legs \subseteq DOMAIN accounts'
               /\ e.company \in revived \/ \A a \in e.legs : accounts'[a].company = e.company \/ a \in revived
    <3>1. /\ e.company \in DOMAIN companies /\ e.legs \subseteq DOMAIN accounts
          /\ e.company \in revived \/ \A a \in e.legs : accounts[a].company = e.company \/ a \in revived
      BY TableFacts DEF PostingsStayValid
    <3>2. e.company # None
      BY <3>1, NoneAssumption, TableFacts
    <3> QED
      BY <1>4, <1>9, <1>11, <1>12, <3>1, <3>2
  <2>2. /\ entry.company \in DOMAIN companies' /\ entry.legs \subseteq DOMAIN accounts'
        /\ entry.company \in revived
           \/ \A a \in entry.legs : accounts'[a].company = entry.company \/ a \in revived
    <3>1. entry.company = c /\ entry.legs = r.legs \cup made
      OBVIOUS
    <3>2. ASSUME NEW a \in r.legs \ r.adopted
          PROVE  accounts[a].company = c \/ a \in revived \/ c \in revived
      <4>1. ~isNew
        BY <1>1, <3>2 DEF ByNameInv, r
      <4>2. Settled(c, a)
        BY <1>1, <1>8, <4>1, <3>2 DEF ByNameInv, r
      <4> QED
        BY <1>4, <1>8, <4>1, <4>2 DEF Settled
    <3>3. c \in revived \/ \A a \in r.legs \cup made : accounts'[a].company = c \/ a \in revived
      BY <1>4, <1>10, <1>11, <3>2
    <3> QED
      BY <1>4, <1>9, <1>12, <3>1, <3>3
  <2> HIDE DEF entry
  <2>3. \A e \in entries' : e \in entries \/ e = entry
    BY <1>3 DEF entry
  <2> QED
    BY <1>2, <2>1, <2>2, <2>3 DEF PostingsStayValid
<1>17. SlugInv'
  <2> SUFFICES ASSUME NEW d \in DOMAIN slugs' PROVE d \in DOMAIN companies' /\ companies'[d] \in Contents
    BY DEF SlugInv
  <2>1. CASE d \in DOMAIN slugs
    <3>1. d \in DOMAIN companies /\ companies[d] \in Contents
      BY <2>1, TableFacts DEF SlugInv
    <3> QED
      BY <1>3, <1>8, <3>1, TableFacts
  <2>2. CASE d \notin DOMAIN slugs
    <3>1. r.kind = "import" /\ d = c
      BY <1>3, <2>2
    <3>2. isNew /\ r.sha \in Contents
      BY <1>1, <3>1 DEF ByNameInv, r
    <3> QED
      BY <1>3, <3>1, <3>2
  <2> QED
    BY <2>1, <2>2
<1>18. Tables'
  BY <1>7, <1>14, <1>15, <1>16, <1>17 DEF Tables
<1> QED
  BY <1>2, <1>13, <1>18, WriterStep

-----------------------------------------------------------------------------
(* The theorems.                                                           *)

\* A rollback leaves the tables alone.
LEMMA FailStep ==
  ASSUME IInv, NEW w \in Workers, Fail(w)
  PROVE  IInv'
<1>1. GotoWith(w, "idle", Idle) /\ UNCHANGED <<tables, requests, history>>
  BY DEF Fail, Done
<1>2. Holds("idle", Idle)
  BY DEF Holds
<1>3. requests' \in 0..MaxRequests
  BY <1>1 DEF IInv, Tables, TypeOK
<1> QED
  BY <1>1, <1>2, <1>3, QuietStep

\* Every step keeps the inductive invariant.
LEMMA NextIInv == IInv /\ [Next]_vars => IInv'
<1> SUFFICES ASSUME IInv, [Next]_vars PROVE IInv'
  OBVIOUS
<1>1. CASE Next
  <2>1. PICK w \in Workers : ReceiveAny(w) \/ Step(w)
    BY <1>1 DEF Next
  <2>2. CASE ReceiveAny(w)
    BY <2>2, ReceiveStep
  <2>3. CASE Step(w)
    BY <2>3, EnsureParentsStep, LoadNamesStep, ResolveStep, ResolvedStep, CommitByNameStep,
       CreateAccountStep, UpdateAccountStep, DeleteAccountStep, PostStep, UpdateCompanyStep,
       DeleteCompanyStep, LoadChartStep, FailStep DEF Step
  <2> QED
    BY <2>1, <2>2, <2>3
<1>2. CASE UNCHANGED vars
  <2>1. UNCHANGED <<parents, companies, slugs, usedCompanies, nextAccount, accounts, entries,
                    pc, req, requests, revived>>
    BY <1>2 DEF vars, tables, history
  <2>2. Tables'
    BY <2>1 DEF IInv, Tables, TypeOK, CodesUnique, PostingsStayValid, SlugInv
  <2>3. Stable
    BY <2>1, TableFacts DEF Stable, Settled
  <2>4. RequestInv'
    BY <2>1, <2>3, OthersKeep DEF RequestInv
  <2> QED
    BY <2>1, <2>2, <2>4 DEF IInv
<1> QED
  BY <1>1, <1>2

\* The inductive invariant always holds.
THEOREM AlwaysIInv == Spec => []IInv
<1>1. Init => IInv
  BY InitIInv
<1>2. IInv /\ [Next]_vars => IInv'
  BY NextIInv
<1> QED
  BY <1>1, <1>2, PTL DEF Spec

\* Accounts always belong to companies that exist, or to nobody, and have a code of two digits
\* under a parent that exists, whatever requests look up and delete at the same time.
THEOREM TypeCorrect == Spec => []TypeOK
<1>1. IInv => TypeOK
  BY DEF IInv, Tables
<1> QED
  BY <1>1, AlwaysIInv, PTL

\* _next_child_full_code, _validate_code_unique: no two accounts share a code, for any number of
\* requests that look for a free one at the same time.
THEOREM CodesNeverShared == Spec => []CodesUnique
<1>1. IInv => CodesUnique
  BY DEF IInv, Tables
<1> QED
  BY <1>1, AlwaysIInv, PTL

\* delete_account, delete_company, the taking over of nobody's accounts: what is posted stays
\* with accounts of its own company, unless save() brought one of the two back.
THEOREM PostingsValid == Spec => []PostingsStayValid
<1>1. IInv => PostingsStayValid
  BY DEF IInv, Tables
<1> QED
  BY <1>1, AlwaysIInv, PTL

\* A step that brings nothing back has nothing to say.
LEMMA NothingReturns ==
  ASSUME (DOMAIN companies)' \cap usedCompanies \subseteq DOMAIN companies,
         DOMAIN accounts' \cap (1..nextAccount) \subseteq DOMAIN accounts
  PROVE  /\ \A c \in (DOMAIN companies)' \cap usedCompanies : c \notin DOMAIN companies =>
              /\ \A a \in DOMAIN accounts' : accounts'[a].company # c
              /\ \A e \in entries' : e.company # c
         /\ \A a \in DOMAIN accounts' \cap (1..nextAccount) : a \notin DOMAIN accounts =>
              accounts'[a].company = None /\ \A e \in entries' : a \notin e.legs
  OBVIOUS

\* update_company and update_account bring back what was deleted meanwhile without anything
\* that belonged to it.
THEOREM ReturnsWithNothing == Spec => ReturnsBare
<1> DEFINE Bare ==
      /\ \A c \in (DOMAIN companies)' \cap usedCompanies : c \notin DOMAIN companies =>
           /\ \A a \in DOMAIN accounts' : accounts'[a].company # c
           /\ \A e \in entries' : e.company # c
      /\ \A a \in DOMAIN accounts' \cap (1..nextAccount) : a \notin DOMAIN accounts =>
           accounts'[a].company = None /\ \A e \in entries' : a \notin e.legs
<1>1. IInv /\ [Next]_vars => [Bare]_vars
  <2> SUFFICES ASSUME IInv, Next PROVE Bare
    OBVIOUS
  <2>1. PICK w \in Workers : ReceiveAny(w) \/ Step(w)
    BY DEF Next
  <2>2. CASE UNCHANGED <<companies, accounts>>
    BY <2>2, NothingReturns
  <2>3. CASE UpdateCompany(w)
    <3> DEFINE n == req[w].company
    <3>1. /\ DOMAIN companies' = DOMAIN companies \cup {n} /\ UNCHANGED <<accounts, entries>>
      BY <2>3 DEF UpdateCompany
    <3>2. n \in usedCompanies
      BY <2>3 DEF UpdateCompany, IInv, RequestInv, Holds
    <3>3. n # None
      BY <3>2, NoneAssumption, TableFacts
    <3>4. ASSUME n \notin DOMAIN companies
          PROVE  /\ \A a \in DOMAIN accounts : accounts[a].company # n
                 /\ \A e \in entries : e.company # n
      BY <3>3, <3>4, TableFacts DEF Row, PostingsStayValid
    <3> HIDE DEF n
    <3> QED
      BY <3>1, <3>4
  <2>4. CASE UpdateAccount(w)
    <3> DEFINE n == req[w].account
    <3>1. UNCHANGED <<companies, entries>> /\ DOMAIN accounts' = DOMAIN accounts \cup {n}
      BY <2>4 DEF UpdateAccount
    <3>2. n \notin DOMAIN accounts => accounts'[n] = Reinserted(req[w].row)
      BY <2>4 DEF UpdateAccount
    <3>3. Reinserted(req[w].row).company = None
      BY <2>4 DEF UpdateAccount, IInv, RequestInv, Holds, Row, Reinserted
    <3>4. n \notin DOMAIN accounts => \A e \in entries : n \notin e.legs
      BY TableFacts DEF PostingsStayValid
    <3> HIDE DEF n
    <3> QED
      BY <3>1, <3>2, <3>3, <3>4
  <2>5. CASE CreateAccount(w)
    <3>1. UNCHANGED companies /\ DOMAIN accounts' = DOMAIN accounts \cup {nextAccount + 1}
      BY <2>5 DEF CreateAccount
    <3>2. DOMAIN accounts' \cap (1..nextAccount) \subseteq DOMAIN accounts
      BY <3>1, TableFacts
    <3> QED
      BY <3>1, <3>2, NothingReturns
  <2>6. CASE DeleteAccount(w)
    <3>1. UNCHANGED companies /\ DOMAIN accounts' \subseteq DOMAIN accounts
      BY <2>6 DEF DeleteAccount
    <3> QED
      BY <3>1, NothingReturns
  <2>7. CASE DeleteCompany(w)
    <3>1. DOMAIN companies' \subseteq DOMAIN companies /\ DOMAIN accounts' = DOMAIN accounts
      BY <2>7 DEF DeleteCompany
    <3> QED
      BY <3>1, NothingReturns
  <2>8. CASE CommitByName(w)
    <3> DEFINE r == req[w]
               made == {nextAccount + i : i \in DOMAIN r.made}
    <3>1. PICK c \in IF r.company = New THEN Companies \ usedCompanies ELSE {r.company} :
            DOMAIN companies' = DOMAIN companies \cup {c} /\ DOMAIN accounts' = DOMAIN accounts \cup made
      BY <2>8 DEF CommitByName
    <3>2. c \notin usedCompanies \/ c \in DOMAIN companies
      BY <2>8, <3>1 DEF CommitByName, MayCommit
    <3>3. r.made \in Seq(Row(Parents, Companies \cup {New}))
      BY <2>8, ByNameHolds DEF CommitByName, ByNameInv
    <3> HIDE DEF r
    <3>4. made \cap (1..nextAccount) = {}
      BY <3>3, TableFacts
    <3> HIDE DEF made
    <3> QED
      BY <3>1, <3>2, <3>4, NothingReturns
  <2>9. CASE ReceiveAny(w)
    BY <2>2, <2>9 DEF ReceiveAny, ReceiveCreate, ReceiveUpdate, ReceiveDelete, ReceivePost,
       ReceiveUpdateCompany, ReceiveDeleteCompany, ReceiveNew, ReceiveOpening, ReceiveClosing,
       ReceiveImport, ReceiveLoadChart, Receive, tables
  <2>10. CASE EnsureParents(w) \/ LoadNames(w) \/ Resolve(w) \/ Resolved(w) \/ Post(w)
              \/ LoadChart(w) \/ Fail(w)
    <3>1. UNCHANGED <<companies, accounts>>
      BY <2>10 DEF EnsureParents, LoadNames, Resolve, Resolved, Post, LoadChart, Fail, tables
    <3> QED
      BY <2>2, <3>1
  <2> QED
    BY <2>1, <2>3, <2>4, <2>5, <2>6, <2>7, <2>8, <2>9, <2>10 DEF Step
<1> QED
  BY <1>1, AlwaysIInv, PTL DEF Spec, ReturnsBare
-----------------------------------------------------------------------------
(***************************************************************************)
(* Nothing is made twice.  A request reads the names, decides in memory    *)
(* what it has to make or to take over, and commits later; what it decided *)
(* is right at the commit if nobody gave its company accounts meanwhile    *)
(* (changes), because accounts of a company only come with such a commit   *)
(* and an account that was not edited keeps its name.                      *)
(***************************************************************************)

\* What a request will write under a name: one account for each name that it resolved, and only
\* for names that it did not find with the company.
Decided(r) ==
  /\ r.adopted \subseteq DOMAIN r.names
  /\ \A a \in r.adopted : r.names[a][1] \in r.keys /\ OwnNamed(r, r.names[a][1]) = {}
  /\ \A a, b \in r.adopted : r.names[a][1] = r.names[b][1] => a = b
  /\ \A i \in DOMAIN r.made : Key(r.made[i]) \in r.keys /\ OwnNamed(r, Key(r.made[i])) = {}
  /\ \A i, j \in DOMAIN r.made : Key(r.made[i]) = Key(r.made[j]) => i = j
  /\ \A i \in DOMAIN r.made, a \in r.adopted : Key(r.made[i]) # r.names[a][1]

\* The parents that the request looks or looked under.
LookedUnder(r) == {r.specs[i][1] : i \in DOMAIN r.specs} \cup {k[1] : k \in r.keys}

\* What the request read still names the accounts, and all those of its company, unless somebody
\* gave it more.
NamesCurrent(r) ==
  /\ \A a \in DOMAIN r.names \cap DOMAIN accounts :
       accounts[a].auto => r.names[a][1] = Key(accounts[a])
  /\ r.company # New =>
       /\ r.seen \in Nat /\ r.seen <= changes[r.company]
       /\ r.seen = changes[r.company] =>
            \A a \in DOMAIN accounts :
              (accounts[a].auto /\ accounts[a].company = r.company /\ accounts[a].parent \in LookedUnder(r))
                => a \in DOMAIN r.names /\ r.names[a] = <<Key(accounts[a]), r.company>>

\* An import has seen the demos that there are, unless there was another one.
DemosCurrent(label, r) ==
  /\ r.seen \in Nat /\ r.seen <= changes[New]
  /\ r.seen = changes[New] =>
       /\ \A c \in DOMAIN slugs : companies[c] # r.sha
       /\ label = "commit" => \A c \in DOMAIN slugs : slugs[c] # r.slug

\* What a request r that goes on at a label knows of names and demos.
Knows(label, r) ==
  /\ label \in {"create", "update"} => ~r.row.auto
  /\ label \in {"parents", "names"} => r.keys = {} /\ r.made = << >> /\ r.adopted = {}
  /\ label = "parents" => r.kind = "close"
  /\ label \in {"resolve", "commit"} => Decided(r) /\ NamesCurrent(r)
  /\ (label \in {"names", "resolve", "commit"} /\ r.kind = "import") => DemosCurrent(label, r)

OnceInv ==
  /\ NothingMadeTwice
  /\ changes \in [Companies \cup {New} -> Nat]
  /\ \A w \in Workers : Knows(pc[w], req[w])

\* What no step takes back of names and demos: an account that was not edited keeps its name, a
\* company that got no accounts has none that it had not, and demos only come with an import.
NamesStable ==
  /\ changes' \in [Companies \cup {New} -> Nat]
  /\ \A k \in Companies \cup {New} : changes[k] <= changes'[k]
  /\ \A a \in DOMAIN accounts' \cap (1..nextAccount) : accounts'[a].auto =>
       /\ a \in DOMAIN accounts /\ accounts[a].auto
       /\ accounts[a].parent = accounts'[a].parent /\ accounts[a].name = accounts'[a].name
  /\ \A c \in Companies : changes'[c] = changes[c] =>
       \A a \in DOMAIN accounts' : accounts'[a].company = c =>
         a \in DOMAIN accounts /\ accounts[a].company = c
  /\ changes'[New] = changes[New] =>
       slugs' = slugs /\ \A c \in DOMAIN slugs : companies'[c] = companies[c]

\* A request that does nothing knows what it knew, or that it is outdated.
LEMMA OthersKnow ==
  ASSUME IInv, OnceInv, NamesStable, NEW v \in Workers, pc'[v] = pc[v], req'[v] = req[v]
  PROVE  Knows(pc[v], req[v])'
<1> PICK r : r = req[v]
  OBVIOUS
<1> PICK label : label = pc[v]
  OBVIOUS
<1>1. Knows(label, r) /\ changes \in [Companies \cup {New} -> Nat]
  BY DEF OnceInv
<1>2. ASSUME label \in {"resolve", "commit"}
      PROVE  NamesCurrent(r)'
  <2>1. /\ r.company = New \/ r.company \in Companies
        /\ DOMAIN r.names \subseteq 1..nextAccount
    BY <1>2, ByNameHolds, TableFacts DEF ByNameInv
  <2>2. NamesCurrent(r)
    BY <1>1, <1>2 DEF Knows
  <2>3. ASSUME NEW a \in DOMAIN r.names \cap DOMAIN accounts', accounts'[a].auto
        PROVE  r.names[a][1] = Key(accounts[a])'
    BY <2>1, <2>2, <2>3 DEF NamesCurrent, NamesStable, Key
  <2>4. ASSUME r.company # New
        PROVE  r.seen \in Nat /\ r.seen <= changes'[r.company]
    BY <1>1, <2>1, <2>2, <2>4 DEF NamesCurrent, NamesStable
  <2>5. ASSUME r.company # New, r.seen = changes'[r.company], NEW a \in DOMAIN accounts',
               accounts'[a].auto, accounts'[a].company = r.company, accounts'[a].parent \in LookedUnder(r)
        PROVE  a \in DOMAIN r.names /\ r.names[a] = <<Key(accounts[a])', r.company>>
    <3>1. r.company \in Companies /\ changes[r.company] = r.seen
      BY <1>1, <2>1, <2>2, <2>5 DEF NamesCurrent, NamesStable
    <3>2. a \in DOMAIN accounts /\ accounts[a].company = r.company
      BY <2>5, <3>1 DEF NamesStable
    <3>3. a \in 1..nextAccount
      BY <3>2, TableFacts
    <3>4. /\ accounts[a].auto
          /\ accounts[a].parent = accounts'[a].parent /\ accounts[a].name = accounts'[a].name
      BY <2>5, <3>3 DEF NamesStable
    <3>5. a \in DOMAIN r.names /\ r.names[a] = <<Key(accounts[a]), r.company>>
      BY <2>2, <2>5, <3>1, <3>2, <3>4 DEF NamesCurrent
    <3> QED
      BY <3>4, <3>5 DEF Key
  <2> QED
    BY <2>3, <2>4, <2>5 DEF NamesCurrent
<1>3. ASSUME DemosCurrent(label, r)
      PROVE  DemosCurrent(label, r)'
  BY <1>1, <1>3 DEF DemosCurrent, NamesStable
<1>4. Knows(label, r)'
  BY <1>1, <1>2, <1>3 DEF Knows
<1> QED
  BY <1>4

\* The invariant after a step, from what its own request knows.
LEMMA KnowledgeKept ==
  ASSUME IInv, OnceInv, NEW w \in Workers, NEW label, NEW r, GotoWith(w, label, r), NamesStable,
         Knows(label, r)', NothingMadeTwice'
  PROVE  OnceInv'
<1>1. ASSUME NEW v \in Workers
      PROVE  Knows(pc[v], req[v])'
  <2>1. CASE v = w
    <3>1. pc'[v] = label /\ req'[v] = r
      BY <2>1 DEF GotoWith, IInv
    <3> QED
      BY <3>1
  <2>2. CASE v # w
    <3>1. pc'[v] = pc[v] /\ req'[v] = req[v]
      BY <2>2 DEF GotoWith, IInv
    <3> QED
      BY <3>1, OthersKnow
  <2> QED
    BY <2>1, <2>2
<1>2. changes' \in [Companies \cup {New} -> Nat]
  BY DEF NamesStable
<1> QED
  BY <1>1, <1>2 DEF OnceInv

\* A step that writes nothing only has to say what its request knows.
LEMMA QuietKnowledge ==
  ASSUME IInv, OnceInv, NEW w \in Workers, NEW label, NEW r, GotoWith(w, label, r),
         UNCHANGED <<tables, history>>, Knows(label, r)
  PROVE  OnceInv'
<1>1. UNCHANGED <<companies, slugs, nextAccount, accounts, changes, outdated>>
  BY DEF tables, history
<1>2. NamesStable
  BY <1>1 DEF NamesStable, OnceInv
<1>3. NothingMadeTwice'
  BY <1>1 DEF OnceInv, NothingMadeTwice, NamesResolvedOnce, DemosDistinct, Key
<1>4. Knows(label, r)'
  BY <1>1 DEF Knows, NamesCurrent, DemosCurrent, Key
<1> QED
  BY <1>2, <1>3, <1>4, KnowledgeKept

\* The databases that a run starts from have every name once.
LEMMA InitOnce == Init => OnceInv
<1> SUFFICES ASSUME Init PROVE OnceInv
  OBVIOUS
<1>1. PICK s \in Starts : accounts = s.accounts
  BY DEF Init
<1>2. NamesResolvedOnce
  <2>1. \A a, b \in DOMAIN s.accounts :
         (/\ s.accounts[a].auto /\ s.accounts[b].auto
          /\ s.accounts[a].company # None /\ s.accounts[a].company = s.accounts[b].company
          /\ s.accounts[a].parent = s.accounts[b].parent /\ s.accounts[a].name = s.accounts[b].name)
           => a = b
    BY StartsAssumption, Zenon
  <2> QED
    BY <1>1, <2>1 DEF NamesResolvedOnce, Key
<1>3. DemosDistinct
  BY DEF Init, DemosDistinct
<1>4. changes \in [Companies \cup {New} -> Nat]
  BY DEF Init
<1>5. \A w \in Workers : Knows(pc[w], req[w])
  <2> SUFFICES ASSUME NEW w \in Workers PROVE Knows(pc[w], req[w])
    OBVIOUS
  <2>1. pc[w] = "idle"
    BY DEF Init
  <2> QED
    BY <2>1 DEF Knows
<1> QED
  BY <1>2, <1>3, <1>4, <1>5 DEF OnceInv, NothingMadeTwice

\* A request that is received has made and read nothing; an import has looked for its content.
LEMMA ReceiveKnows ==
  ASSUME IInv, OnceInv, NEW w \in Workers, ReceiveAny(w)
  PROVE  OnceInv'
<1>1. ASSUME NEW label, NEW r, Receive(w, label, r), Knows(label, r)
      PROVE  OnceInv'
  BY <1>1, QuietKnowledge DEF Receive
<1>2. ASSUME NEW r, r.kind # "import", r.keys = {}, r.made = << >>, r.adopted = {}
      PROVE  Knows("names", r) /\ (r.kind = "close" => Knows("parents", r))
  BY <1>2 DEF Knows
<1>3. ASSUME NEW label \in {"delete", "post", "save", "drop", "chart"}, NEW r
      PROVE  Knows(label, r)
  BY DEF Knows
<1>4. CASE ReceiveCreate(w)
  <2>1. PICK c \in Companies, p \in parents, code \in 0..LastCode, n \in Names :
          Receive(w, "create", [Idle EXCEPT !.kind = "create", !.company = c,
            !.row = [parent |-> p, code |-> code, name |-> n, company |-> c, auto |-> FALSE]])
    BY <1>4 DEF ReceiveCreate
  <2> PICK r : r = [Idle EXCEPT !.kind = "create", !.company = c,
            !.row = [parent |-> p, code |-> code, name |-> n, company |-> c, auto |-> FALSE]]
    OBVIOUS
  <2>2. ~r.row.auto
    BY DEF Idle
  <2> QED
    BY <1>1, <2>1, <2>2 DEF Knows
<1>5. CASE ReceiveUpdate(w)
  <2>1. PICK a \in DOMAIN accounts, code \in 0..LastCode, n \in Names :
          Receive(w, "update", [Idle EXCEPT !.kind = "update", !.account = a,
               !.row = [accounts[a] EXCEPT !.code = code, !.name = n, !.auto = FALSE]])
    BY <1>5 DEF ReceiveUpdate
  <2> PICK r : r = [Idle EXCEPT !.kind = "update", !.account = a,
               !.row = [accounts[a] EXCEPT !.code = code, !.name = n, !.auto = FALSE]]
    OBVIOUS
  <2>2. ~r.row.auto
    <3>1. accounts[a] \in Row(parents, DOMAIN companies \cup {None})
      BY TableFacts
    <3> QED
      BY <3>1 DEF Idle, Row
  <2> QED
    BY <1>1, <2>1, <2>2 DEF Knows
<1>6. CASE ReceiveDelete(w) \/ ReceivePost(w) \/ ReceiveUpdateCompany(w) \/ ReceiveDeleteCompany(w)
           \/ ReceiveLoadChart(w)
  BY <1>1, <1>3, <1>6 DEF ReceiveDelete, ReceivePost, ReceiveUpdateCompany, ReceiveDeleteCompany,
     ReceiveLoadChart
<1>7. CASE ReceiveNew(w)
  <2>1. PICK specs : Receive(w, "names", [Idle EXCEPT !.kind = "new", !.company = New, !.specs = specs])
    BY <1>7 DEF ReceiveNew
  <2> PICK r : r = [Idle EXCEPT !.kind = "new", !.company = New, !.specs = specs]
    OBVIOUS
  <2>2. r.kind # "import" /\ r.keys = {} /\ r.made = << >> /\ r.adopted = {}
    BY DEF Idle
  <2> QED
    BY <1>1, <1>2, <2>1, <2>2
<1>8. CASE ReceiveOpening(w)
  <2>1. PICK c, specs : Receive(w, "names", [Idle EXCEPT !.kind = "open", !.company = c, !.specs = specs])
    BY <1>8 DEF ReceiveOpening
  <2> PICK r : r = [Idle EXCEPT !.kind = "open", !.company = c, !.specs = specs]
    OBVIOUS
  <2>2. r.kind # "import" /\ r.keys = {} /\ r.made = << >> /\ r.adopted = {}
    BY DEF Idle
  <2> QED
    BY <1>1, <1>2, <2>1, <2>2
<1>9. CASE ReceiveClosing(w)
  <2>1. PICK c : Receive(w, "parents", [Idle EXCEPT !.kind = "close", !.company = c, !.specs = ClosingSpecs])
    BY <1>9 DEF ReceiveClosing
  <2> PICK r : r = [Idle EXCEPT !.kind = "close", !.company = c, !.specs = ClosingSpecs]
    OBVIOUS
  <2>2. r.kind = "close" /\ r.keys = {} /\ r.made = << >> /\ r.adopted = {}
    BY DEF Idle
  <2> QED
    BY <1>1, <1>2, <2>1, <2>2
<1>10. CASE ReceiveImport(w)
  <2>1. PICK sha, specs :
          /\ ~Imported(sha)
          /\ Receive(w, "names", [Idle EXCEPT !.kind = "import", !.company = New, !.sha = sha,
                                              !.specs = specs, !.seen = changes[New]])
    BY <1>10 DEF ReceiveImport
  <2> PICK r : r = [Idle EXCEPT !.kind = "import", !.company = New, !.sha = sha,
                                !.specs = specs, !.seen = changes[New]]
    OBVIOUS
  <2>2. r.sha = sha /\ r.seen = changes[New] /\ r.keys = {} /\ r.made = << >> /\ r.adopted = {}
    BY DEF Idle
  <2>3. changes[New] \in Nat /\ \A c \in DOMAIN slugs : companies[c] # sha
    BY <2>1, TableFacts DEF Imported, OnceInv
  <2>4. Knows("names", r)
    BY <2>2, <2>3 DEF Knows, DemosCurrent
  <2> QED
    BY <1>1, <2>1, <2>4
<1> QED
  BY <1>4, <1>5, <1>6, <1>7, <1>8, <1>9, <1>10 DEF ReceiveAny

\* A closing that notes its parents has read no names yet.
LEMMA EnsureParentsKnows ==
  ASSUME IInv, OnceInv, NEW w \in Workers, EnsureParents(w)
  PROVE  OnceInv'
<1> PICK r : r = req[w]
  OBVIOUS
<1> PICK q : q = [r EXCEPT !.newParents = ClosingParents \ parents]
  OBVIOUS
<1>1. /\ pc[w] = "parents" /\ GotoWith(w, "names", q) /\ UNCHANGED <<tables, history>>
  BY DEF EnsureParents
<1>2. DOMAIN r = DOMAIN Idle /\ Knows("parents", r)
  BY <1>1, ByNameHolds DEF OnceInv
<1>3. q.kind = r.kind /\ q.keys = r.keys /\ q.made = r.made /\ q.adopted = r.adopted
  BY <1>2 DEF Idle
<1>4. r.kind = "close"
  BY <1>2 DEF Knows
<1>5. Knows("names", q)
  BY <1>2, <1>3, <1>4 DEF Knows
<1> QED
  BY <1>1, <1>5, QuietKnowledge

\* The names that are read are those of the accounts that there are.
LEMMA LoadNamesKnows ==
  ASSUME IInv, OnceInv, NEW w \in Workers, LoadNames(w)
  PROVE  OnceInv'
<1>r. PICK r : r = req[w]
  OBVIOUS
<1> DEFINE wanted == {r.specs[i][1] : i \in DOMAIN r.specs}
<1>names. PICK names : names = [a \in {b \in DOMAIN accounts : accounts[b].parent \in wanted} |->
                            <<Key(accounts[a]), accounts[a].company>>]
  OBVIOUS
<1>seen. PICK seen : seen = IF r.company = New THEN r.seen ELSE changes[r.company]
  OBVIOUS
<1>q. PICK q : q = [r EXCEPT !.names = names, !.seen = seen]
  OBVIOUS
<1>1. pc[w] = "names" /\ UNCHANGED <<tables, history>>
  BY <1>r DEF LoadNames
<1>2. DOMAIN r = DOMAIN Idle /\ Knows("names", r) /\ ByNameInv(r)
  BY <1>1, <1>r, ByNameHolds DEF OnceInv
<1>3. GotoWith(w, "resolve", q)
  BY <1>2, <1>r, <1>names, <1>seen, <1>q DEF LoadNames, Idle
<1>4. /\ q.kind = r.kind /\ q.company = r.company /\ q.sha = r.sha /\ q.specs = r.specs
      /\ q.keys = r.keys /\ q.made = r.made /\ q.adopted = r.adopted
      /\ q.names = names /\ q.seen = seen
  BY <1>2, <1>q DEF Idle
<1>5. r.keys = {} /\ r.made = << >> /\ r.adopted = {}
  BY <1>2 DEF Knows
<1>6. Decided(q)
  BY <1>4, <1>5 DEF Decided
<1>7. NamesCurrent(q)
  <2>1. LookedUnder(q) = wanted
    BY <1>4, <1>5 DEF LookedUnder
  <2>2. \A a \in DOMAIN names : a \in DOMAIN accounts /\ names[a][1] = Key(accounts[a])
    BY <1>names
  <2>3. q.company # New => q.seen = changes[q.company] /\ q.seen \in Nat
    BY <1>2, <1>4, <1>seen, TableFacts DEF ByNameInv, OnceInv
  <2>4. ASSUME q.company # New, NEW a \in DOMAIN accounts, accounts[a].company = q.company,
               accounts[a].parent \in wanted
        PROVE  a \in DOMAIN names /\ names[a] = <<Key(accounts[a]), q.company>>
    BY <1>names, <2>4
  <2> QED
    BY <1>4, <2>1, <2>2, <2>3, <2>4 DEF NamesCurrent
<1>8. q.kind = "import" => DemosCurrent("resolve", q)
  <2> SUFFICES ASSUME q.kind = "import" PROVE DemosCurrent("resolve", q)
    OBVIOUS
  <2>1. DemosCurrent("names", r) /\ r.company = New
    BY <1>2, <1>4 DEF Knows, ByNameInv
  <2> QED
    BY <1>4, <1>seen, <2>1 DEF DemosCurrent
<1>9. Knows("resolve", q)
  BY <1>6, <1>7, <1>8 DEF Knows
<1> QED
  BY <1>1, <1>3, <1>9, QuietKnowledge

\* A spec that is done leaves fewer parents to look under.
LEMMA LooksUnderLess ==
  ASSUME NEW r, NEW q, r.specs \in Seq(Parents \X Names), r.specs # << >>,
         q.specs = Tail(r.specs), q.keys \subseteq r.keys \cup {Head(r.specs)}
  PROVE  LookedUnder(q) \subseteq LookedUnder(r)
<1> DEFINE key == Head(r.specs)
<1>1. key = r.specs[1] /\ 1 \in DOMAIN r.specs
  OBVIOUS
<1>2. key[1] \in {r.specs[i][1] : i \in DOMAIN r.specs}
  BY <1>1
<1>3. {q.specs[i][1] : i \in DOMAIN q.specs} \subseteq {r.specs[i][1] : i \in DOMAIN r.specs}
  <2> SUFFICES ASSUME NEW i \in DOMAIN q.specs
               PROVE  \E j \in DOMAIN r.specs : q.specs[i][1] = r.specs[j][1]
    OBVIOUS
  <2>1. i + 1 \in DOMAIN r.specs /\ q.specs[i] = r.specs[i + 1]
    OBVIOUS
  <2> QED
    BY <2>1
<1>4. {k[1] : k \in q.keys} \subseteq {k[1] : k \in r.keys} \cup {key[1]}
  OBVIOUS
<1> HIDE DEF key
<1> QED
  BY <1>2, <1>3, <1>4 DEF LookedUnder

\* What a request knows of the tables does not depend on what it decided.
LEMMA StillCurrent ==
  ASSUME NEW r, NEW q, NamesCurrent(r), r.kind = "import" => DemosCurrent("resolve", r),
         LookedUnder(q) \subseteq LookedUnder(r), q.kind = r.kind, q.company = r.company,
         q.sha = r.sha, q.names = r.names, q.seen = r.seen, Decided(q)
  PROVE  Knows("resolve", q)
<1>1. NamesCurrent(q)
  BY DEF NamesCurrent
<1>2. q.kind = "import" => DemosCurrent("resolve", q)
  BY DEF DemosCurrent
<1> QED
  BY <1>1, <1>2 DEF Knows

\* UseAccount: the name was not resolved before; an account is only taken over if the company
\* has none of that name.
LEMMA UseAccountKnows ==
  ASSUME IInv, OnceInv, NEW w \in Workers, pc[w] = "resolve", req[w].specs # <<>>,
         NEW key, key = Head(req[w].specs), key \notin req[w].keys, NEW a \in DOMAIN req[w].names,
         NEW adopts \in BOOLEAN,
         adopts => OwnNamed(req[w], key) = {} /\ req[w].names[a][1] = key,
         UseAccount(w, key, a, adopts), UNCHANGED <<tables, requests, history>>
  PROVE  OnceInv'
<1>r. PICK r : r = req[w]
  OBVIOUS
<1>adopted. PICK adopted : adopted = IF adopts THEN r.adopted \cup {a} ELSE r.adopted
  OBVIOUS
<1>q. PICK q : q = [r EXCEPT !.specs = Tail(r.specs), !.keys = r.keys \cup {key},
                           !.legs = r.legs \cup {a}, !.adopted = adopted]
  OBVIOUS
<1>1. DOMAIN r = DOMAIN Idle /\ Knows("resolve", r) /\ ByNameInv(r)
  BY <1>r, ByNameHolds DEF OnceInv
<1>2. GotoWith(w, "resolve", q)
  BY <1>1, <1>r, <1>adopted, <1>q DEF UseAccount, Idle
<1>3. /\ q.kind = r.kind /\ q.company = r.company /\ q.sha = r.sha /\ q.specs = Tail(r.specs)
      /\ q.keys = r.keys \cup {key} /\ q.made = r.made /\ q.adopted = adopted
      /\ q.names = r.names /\ q.seen = r.seen
  BY <1>1, <1>q DEF Idle
<1>4. LookedUnder(q) \subseteq LookedUnder(r)
  BY <1>1, <1>3, <1>r, LooksUnderLess DEF ByNameInv
<1>5. Decided(q)
  <2>1. Decided(r)
    BY <1>1 DEF Knows
  <2>2. \A k : OwnNamed(q, k) = OwnNamed(r, k)
    BY <1>3 DEF OwnNamed
  <2>3. \A b \in r.adopted : /\ b \in DOMAIN q.names /\ q.names[b] = r.names[b]
                             /\ r.names[b][1] \in r.keys /\ OwnNamed(q, r.names[b][1]) = {}
    <3>1. \A b \in r.adopted : /\ b \in DOMAIN r.names
                               /\ r.names[b][1] \in r.keys /\ OwnNamed(r, r.names[b][1]) = {}
      BY <2>1 DEF Decided
    <3> QED
      BY <1>3, <2>2, <3>1
  <2>4. \A b \in q.adopted : b \in r.adopted \/ (adopts /\ b = a)
    BY <1>3, <1>adopted
  <2>5. adopts => /\ a \in DOMAIN q.names /\ q.names[a][1] = key /\ key \notin r.keys
                  /\ OwnNamed(q, key) = {}
    BY <1>3, <1>r, <2>2
  <2>6. \A b \in q.adopted : /\ b \in DOMAIN q.names /\ q.names[b][1] \in q.keys
                             /\ OwnNamed(q, q.names[b][1]) = {}
    <3> SUFFICES ASSUME NEW b \in q.adopted
                 PROVE  /\ b \in DOMAIN q.names /\ q.names[b][1] \in q.keys
                        /\ OwnNamed(q, q.names[b][1]) = {}
      OBVIOUS
    <3>1. CASE b \in r.adopted
      BY <1>3, <2>3, <3>1
    <3>2. CASE adopts /\ b = a
      BY <1>3, <2>5, <3>2
    <3> QED
      BY <2>4, <3>1, <3>2
  <2>7. \A b, c \in q.adopted : q.names[b][1] = q.names[c][1] => b = c
    <3>1. \A b, c \in r.adopted : q.names[b][1] = q.names[c][1] => b = c
      BY <1>3, <2>1 DEF Decided
    <3> QED
      BY <2>3, <2>4, <2>5, <3>1
  <2>8. \A i \in DOMAIN q.made : Key(q.made[i]) \in r.keys /\ OwnNamed(q, Key(q.made[i])) = {}
    <3>1. \A i \in DOMAIN r.made : Key(r.made[i]) \in r.keys /\ OwnNamed(r, Key(r.made[i])) = {}
      BY <2>1 DEF Decided
    <3> QED
      BY <1>3, <2>2, <3>1
  <2>9. \A i, j \in DOMAIN q.made : Key(q.made[i]) = Key(q.made[j]) => i = j
    BY <1>3, <2>1 DEF Decided
  <2>10. \A i \in DOMAIN q.made, b \in q.adopted : Key(q.made[i]) # q.names[b][1]
    <3>1. \A i \in DOMAIN q.made, b \in r.adopted : Key(q.made[i]) # q.names[b][1]
      BY <1>3, <2>1 DEF Decided
    <3> QED
      BY <2>4, <2>5, <2>8, <3>1
  <2> QED
    BY <1>3, <2>6, <2>7, <2>8, <2>9, <2>10 DEF Decided
<1>6. Knows("resolve", q)
  BY <1>1, <1>3, <1>4, <1>5, StillCurrent DEF Knows
<1> QED
  BY <1>2, <1>6, QuietKnowledge

\* MakeAccount: the name was not resolved before and the company has no account of it.
LEMMA MakeAccountKnows ==
  ASSUME IInv, OnceInv, NEW w \in Workers, pc[w] = "resolve", req[w].specs # <<>>,
         Head(req[w].specs) \notin req[w].keys, OwnNamed(req[w], Head(req[w].specs)) = {},
         MakeAccount(w, Head(req[w].specs)), UNCHANGED <<tables, requests, history>>
  PROVE  OnceInv'
<1>r. PICK r : r = req[w]
  OBVIOUS
<1>key. PICK key : key = Head(r.specs)
  OBVIOUS
<1>1. DOMAIN r = DOMAIN Idle /\ Knows("resolve", r) /\ ByNameInv(r)
  BY <1>r, ByNameHolds DEF OnceInv
<1>2. PICK code \in NextCodes(r, key[1]) :
        GotoWith(w, "resolve",
          [r EXCEPT !.specs = Tail(r.specs), !.keys = r.keys \cup {key},
                    !.made = Append(r.made, [parent |-> key[1], code |-> code, name |-> key[2],
                                             company |-> r.company, auto |-> TRUE])])
  BY <1>1, <1>r, <1>key DEF MakeAccount, Idle
<1>row. PICK row : row = [parent |-> key[1], code |-> code, name |-> key[2],
                      company |-> r.company, auto |-> TRUE]
  OBVIOUS
<1>q. PICK q : q = [r EXCEPT !.specs = Tail(r.specs), !.keys = r.keys \cup {key},
                           !.made = Append(r.made, row)]
  OBVIOUS
<1>3. /\ q.kind = r.kind /\ q.company = r.company /\ q.sha = r.sha /\ q.specs = Tail(r.specs)
      /\ q.keys = r.keys \cup {key} /\ q.made = Append(r.made, row) /\ q.adopted = r.adopted
      /\ q.names = r.names /\ q.seen = r.seen
  BY <1>1, <1>q DEF Idle
<1>4. LookedUnder(q) \subseteq LookedUnder(r)
  BY <1>1, <1>3, <1>r, <1>key, LooksUnderLess DEF ByNameInv
<1>5. Key(row) = key
  <2>1. r.specs \in Seq(Parents \X Names) /\ r.specs # << >>
    BY <1>1, <1>r DEF ByNameInv
  <2>2. key \in Parents \X Names
    BY <1>key, <2>1
  <2> QED
    BY <1>row, <2>2 DEF Key
<1>6. /\ \A i \in DOMAIN r.made : q.made[i] = r.made[i]
      /\ q.made[Len(r.made) + 1] = row
      /\ DOMAIN q.made = DOMAIN r.made \cup {Len(r.made) + 1}
      /\ Len(r.made) + 1 \notin DOMAIN r.made
  <2>1. r.made \in Seq(Row(Parents, Companies \cup {New}))
    BY <1>1 DEF ByNameInv
  <2> QED
    BY <1>3, <2>1
<1>7. Decided(q)
  <2>1. Decided(r)
    BY <1>1 DEF Knows
  <2>2. /\ \A k : OwnNamed(q, k) = OwnNamed(r, k)
        /\ OwnNamed(r, key) = {} /\ key \notin r.keys
    BY <1>3, <1>r, <1>key DEF OwnNamed
  <2>3. \A a \in q.adopted : /\ a \in DOMAIN q.names
                             /\ q.names[a][1] \in r.keys /\ OwnNamed(q, q.names[a][1]) = {}
    <3>1. \A a \in r.adopted : /\ a \in DOMAIN r.names
                               /\ r.names[a][1] \in r.keys /\ OwnNamed(r, r.names[a][1]) = {}
      BY <2>1 DEF Decided
    <3> QED
      BY <1>3, <2>2, <3>1
  <2>4. \A a, b \in q.adopted : q.names[a][1] = q.names[b][1] => a = b
    BY <1>3, <2>1 DEF Decided
  <2>5. \A i \in DOMAIN r.made : Key(q.made[i]) \in r.keys /\ OwnNamed(q, Key(q.made[i])) = {}
    BY <1>6, <2>1, <2>2 DEF Decided
  <2>6. \A i \in DOMAIN q.made : i \in DOMAIN r.made \/ Key(q.made[i]) = key
    BY <1>5, <1>6
  <2>7. \A i, j \in DOMAIN q.made : Key(q.made[i]) = Key(q.made[j]) => i = j
    <3>1. \A i, j \in DOMAIN r.made : Key(q.made[i]) = Key(q.made[j]) => i = j
      BY <1>6, <2>1 DEF Decided
    <3> QED
      BY <1>5, <1>6, <2>2, <2>5, <3>1
  <2>8. \A i \in DOMAIN q.made, a \in q.adopted : Key(q.made[i]) # q.names[a][1]
    <3>1. \A i \in DOMAIN r.made, a \in q.adopted : Key(q.made[i]) # q.names[a][1]
      BY <1>3, <1>6, <2>1 DEF Decided
    <3> QED
      BY <2>2, <2>3, <2>6, <3>1
  <2> QED
    BY <1>3, <2>2, <2>3, <2>4, <2>5, <2>6, <2>7, <2>8 DEF Decided
<1>8. Knows("resolve", q)
  BY <1>1, <1>3, <1>4, <1>7, StillCurrent DEF Knows
<1> QED
  BY <1>2, <1>8, <1>row, <1>q, QuietKnowledge

\* One spec: nothing to do, an own account, one that is taken over, or a new one.
LEMMA ResolveKnows ==
  ASSUME IInv, OnceInv, NEW w \in Workers, Resolve(w)
  PROVE  OnceInv'
<1>r. PICK r : r = req[w]
  OBVIOUS
<1> DEFINE key == Head(r.specs)
           named == {a \in DOMAIN r.names : r.names[a][1] = key}
           own == OwnNamed(r, key)
<1>1. pc[w] = "resolve" /\ r.specs # <<>> /\ UNCHANGED <<tables, requests, history>>
  BY <1>r DEF Resolve
<1>2. DOMAIN r = DOMAIN Idle /\ ByNameInv(r) /\ Knows("resolve", r)
  BY <1>1, <1>r, ByNameHolds DEF OnceInv
<1>3. \/ GotoWith(w, "resolve", [r EXCEPT !.specs = Tail(r.specs)])
      \/ key \notin r.keys /\ \E a \in own : UseAccount(w, key, a, FALSE)
      \/ key \notin r.keys /\ own = {} /\ MakeAccount(w, key)
      \/ key \notin r.keys /\ own = {} /\ \E a \in named : ByName(w, key, a)
  BY <1>2, <1>r DEF Resolve, Idle
<1>4. CASE GotoWith(w, "resolve", [r EXCEPT !.specs = Tail(r.specs)])
  <2>q. PICK q : q = [r EXCEPT !.specs = Tail(r.specs)]
    OBVIOUS
  <2>1. /\ q.kind = r.kind /\ q.company = r.company /\ q.sha = r.sha /\ q.specs = Tail(r.specs)
        /\ q.keys = r.keys /\ q.made = r.made /\ q.adopted = r.adopted
        /\ q.names = r.names /\ q.seen = r.seen
    BY <1>2, <2>q DEF Idle
  <2>2. LookedUnder(q) \subseteq LookedUnder(r)
    BY <1>1, <1>2, <2>1, LooksUnderLess DEF ByNameInv
  <2>3. Decided(q)
    <3>1. Decided(r)
      BY <1>2 DEF Knows
    <3> QED
      BY <2>1, <3>1 DEF Decided, OwnNamed
  <2>4. Knows("resolve", q)
    BY <1>2, <2>1, <2>2, <2>3, StillCurrent DEF Knows
  <2> QED
    BY <1>1, <1>4, <2>q, <2>4, QuietKnowledge
<1>5. CASE key \notin r.keys /\ \E a \in own : UseAccount(w, key, a, FALSE)
  <2>1. PICK a \in own : UseAccount(w, key, a, FALSE)
    BY <1>5
  <2>2. a \in DOMAIN r.names
    BY DEF OwnNamed
  <2> QED
    BY <1>1, <1>5, <1>r, <2>1, <2>2, UseAccountKnows
<1>6. CASE key \notin r.keys /\ own = {} /\ MakeAccount(w, key)
  BY <1>1, <1>6, <1>r, MakeAccountKnows
<1>7. CASE key \notin r.keys /\ own = {} /\ \E a \in named : ByName(w, key, a)
  <2>1. PICK a \in named : ByName(w, key, a)
    BY <1>7
  <2>2. a \in DOMAIN r.names /\ r.names[a][1] = key
    OBVIOUS
  <2>3. CASE MakeAccount(w, key)
    BY <1>1, <1>7, <1>r, <2>3, MakeAccountKnows
  <2>4. CASE UseAccount(w, key, a, TRUE)
    BY <1>1, <1>7, <1>r, <2>2, <2>4, UseAccountKnows
  <2>5. CASE UseAccount(w, key, a, FALSE)
    BY <1>1, <1>7, <1>r, <2>2, <2>5, UseAccountKnows
  <2> QED
    BY <2>1, <2>3, <2>4, <2>5 DEF ByName
<1> QED
  BY <1>3, <1>4, <1>5, <1>6, <1>7

\* _build_demo_slug: there are more numbers than demos, so one of them is free.
LEMMA SlugIsFree ==
  ASSUME IInv
  PROVE  \A c \in DOMAIN slugs :
           slugs[c] # Min((1..Cardinality(Companies) + 1) \ {slugs[d] : d \in DOMAIN slugs})
<1> DEFINE n == Cardinality(Companies)
           free == (1..n + 1) \ {slugs[d] : d \in DOMAIN slugs}
<1>1. n \in Nat
  BY FS_CardinalityType, BoundsAssumption
<1>2. DOMAIN slugs \subseteq Companies
  BY TableFacts
<1>3. IsFiniteSet(DOMAIN slugs) /\ Cardinality(DOMAIN slugs) <= n /\ Cardinality(DOMAIN slugs) \in Nat
  BY <1>2, FS_Subset, FS_CardinalityType, BoundsAssumption
<1>4. free # {}
  <2> SUFFICES ASSUME free = {} PROVE FALSE
    OBVIOUS
  <2> DEFINE D == DOMAIN slugs
             f == [i \in 1..n + 1 |-> CHOOSE c \in D : slugs[c] = i]
  <2>1. \A i \in 1..n + 1 : \E c \in D : slugs[c] = i
    OBVIOUS
  <2>2. \A i \in 1..n + 1 : f[i] \in D /\ slugs[f[i]] = i
    BY <2>1
  <2> DEFINE S == 1..n + 1
  <2>3. f \in [S -> D]
    BY <2>2
  <2>4. IsFiniteSet(S) /\ Cardinality(S) = n + 1
    <3> HIDE DEF n
    <3> QED
      BY <1>1, FS_Interval
  <2>5. \E x, y \in S : x # y /\ f[x] = f[y]
    <3>1. Cardinality(D) < Cardinality(S) /\ IsFiniteSet(D)
      <4> HIDE DEF n, S
      <4> QED
        BY <1>1, <1>3, <2>4
    <3> HIDE DEF f, D, n, S
    <3> QED
      BY <2>3, <2>4, <3>1, FS_PigeonHole
  <2> HIDE DEF f, D, n
  <2> QED
    BY <2>2, <2>5
<1>5. free \subseteq Nat
  BY <1>1
<1>6. Min(free) \in free
  <2> HIDE DEF free
  <2> QED
    BY <1>4, <1>5, MinMember
<1> QED
  BY <1>6

\* An import that is about to commit has a slug that no demo has.
LEMMA ResolvedKnows ==
  ASSUME IInv, OnceInv, NEW w \in Workers, Resolved(w)
  PROVE  OnceInv'
<1>r. PICK r : r = req[w]
  OBVIOUS
<1>slug. PICK slug : slug = Min((1..Cardinality(Companies) + 1) \ {slugs[c] : c \in DOMAIN slugs})
  OBVIOUS
<1>q. PICK q : q = IF r.kind = "import" THEN [r EXCEPT !.slug = slug] ELSE r
  OBVIOUS
<1>1. pc[w] = "resolve" /\ UNCHANGED <<tables, history>> /\ GotoWith(w, "commit", q)
  BY <1>r, <1>slug, <1>q DEF Resolved
<1>2. DOMAIN r = DOMAIN Idle /\ Knows("resolve", r)
  BY <1>1, <1>r, ByNameHolds DEF OnceInv
<1>3. /\ q.kind = r.kind /\ q.company = r.company /\ q.sha = r.sha /\ q.specs = r.specs
      /\ q.keys = r.keys /\ q.made = r.made /\ q.adopted = r.adopted
      /\ q.names = r.names /\ q.seen = r.seen /\ (r.kind = "import" => q.slug = slug)
  BY <1>2, <1>q DEF Idle
<1>4. Decided(q)
  <2>1. Decided(r)
    BY <1>2 DEF Knows
  <2> QED
    BY <1>3, <2>1 DEF Decided, OwnNamed
<1>5. NamesCurrent(q)
  <2>1. NamesCurrent(r)
    BY <1>2 DEF Knows
  <2> QED
    BY <1>3, <2>1 DEF NamesCurrent, LookedUnder
<1>6. q.kind = "import" => DemosCurrent("commit", q)
  <2> SUFFICES ASSUME q.kind = "import" PROVE DemosCurrent("commit", q)
    OBVIOUS
  <2>1. DemosCurrent("resolve", r)
    BY <1>2, <1>3 DEF Knows
  <2>2. \A c \in DOMAIN slugs : slugs[c] # slug
    BY <1>slug, SlugIsFree
  <2> QED
    BY <1>3, <2>1, <2>2 DEF DemosCurrent
<1>7. Knows("commit", q)
  BY <1>4, <1>5, <1>6 DEF Knows
<1> QED
  BY <1>1, <1>7, QuietKnowledge

\* A commit that adds no account by name and no demo: names that differ go on differing.
LEMMA WriterKnows ==
  ASSUME IInv, OnceInv, NEW w \in Workers, Done(w),
         \A a \in DOMAIN accounts' : accounts'[a].auto =>
           /\ a \in DOMAIN accounts /\ accounts[a].auto
           /\ accounts[a].parent = accounts'[a].parent /\ accounts[a].name = accounts'[a].name
           /\ accounts'[a].company \in {accounts[a].company, None},
         \A c \in Companies : changes'[c] = changes[c] =>
           \A a \in DOMAIN accounts' : accounts'[a].company = c =>
             a \in DOMAIN accounts /\ accounts[a].company = c,
         changes' \in [Companies \cup {New} -> Nat],
         \A k \in Companies \cup {New} : changes[k] <= changes'[k],
         slugs' = slugs, \A c \in DOMAIN slugs : companies'[c] = companies[c],
         outdated' = outdated
  PROVE  OnceInv'
<1>1. NamesStable
  BY DEF NamesStable
<1>2. NothingMadeTwice'
  <2>1. NamesResolvedOnce'
    BY DEF OnceInv, NothingMadeTwice, NamesResolvedOnce, Key
  <2>2. DemosDistinct'
    BY DEF OnceInv, NothingMadeTwice, DemosDistinct
  <2> QED
    BY <2>1, <2>2 DEF NothingMadeTwice
<1>3. \A r : Knows("idle", r)'
  BY DEF Knows
<1> QED
  BY <1>1, <1>2, <1>3, KnowledgeKept DEF Done

\* create_account and update_account: what users make or edit is not counted.
LEMMA ByHandKnows ==
  ASSUME IInv, OnceInv, NEW w \in Workers, CreateAccount(w) \/ UpdateAccount(w) \/ DeleteAccount(w)
  PROVE  OnceInv'
<1>r. PICK r : r = req[w]
  OBVIOUS
<1>1. CASE CreateAccount(w)
  <2>n. PICK n : n = nextAccount + 1
    OBVIOUS
  <2>1. r.company \in Companies /\ r.row \in Row(parents, {r.company}) /\ ~r.row.auto
    BY <1>1, <1>r DEF IInv, RequestInv, Holds, OnceInv, Knows, CreateAccount
  <2>2. /\ accounts' = [a \in DOMAIN accounts \cup {n} |-> IF a = n THEN r.row ELSE accounts[a]]
        /\ changes' = [changes EXCEPT ![r.company] = changes[r.company] + 1]
        /\ Done(w)
        /\ UNCHANGED <<companies, slugs, outdated>>
    BY <1>1, <1>r, <2>n, <2>1 DEF CreateAccount, OnceInv
  <2>3. n \notin DOMAIN accounts
    BY <2>n, TableFacts
  <2>4. /\ changes' \in [Companies \cup {New} -> Nat]
        /\ \A k \in Companies \cup {New} : changes[k] <= changes'[k]
        /\ changes'[r.company] # changes[r.company]
    BY <2>1, <2>2 DEF OnceInv
  <2>5. DOMAIN accounts' = DOMAIN accounts \cup {n} /\ accounts'[n] = r.row
        /\ \A a \in DOMAIN accounts : accounts'[a] = accounts[a]
    BY <2>2, <2>3
  <2>6. r.row.company = r.company
    BY <2>1 DEF Row
  <2> QED
    BY <2>1, <2>2, <2>4, <2>5, <2>6, WriterKnows
<1>2. CASE UpdateAccount(w)
  <2>n. PICK n : n = r.account
    OBVIOUS
  <2>1. r.row \in Row(parents, Companies) /\ ~r.row.auto
    BY <1>2, <1>r DEF IInv, RequestInv, Holds, OnceInv, Knows, UpdateAccount
  <2>2. /\ DOMAIN accounts' = DOMAIN accounts \cup {n}
        /\ \A a \in DOMAIN accounts \ {n} : accounts'[a] = accounts[a]
        /\ accounts'[n] = IF n \notin DOMAIN accounts THEN Reinserted(r.row)
                          ELSE [r.row EXCEPT !.company = accounts[n].company]
        /\ Done(w)
        /\ UNCHANGED <<companies, slugs, changes, outdated>>
    BY <1>2, <1>r, <2>n DEF UpdateAccount
  <2>3. /\ ~accounts'[n].auto
        /\ n \notin DOMAIN accounts => accounts'[n].company = None
        /\ n \in DOMAIN accounts => accounts'[n].company = accounts[n].company
    BY <2>1, <2>2 DEF Reinserted, Row
  <2>4. changes' \in [Companies \cup {New} -> Nat] /\ \A k \in Companies \cup {New} : changes[k] <= changes'[k]
    BY <2>2 DEF OnceInv
  <2> QED
    BY <2>2, <2>3, <2>4, NoneAssumption, WriterKnows
<1>3. CASE DeleteAccount(w)
  <2>1. /\ DOMAIN accounts' \subseteq DOMAIN accounts
        /\ \A a \in DOMAIN accounts' : accounts'[a] = accounts[a]
        /\ Done(w)
        /\ UNCHANGED <<companies, slugs, changes, outdated>>
    BY <1>3 DEF DeleteAccount, history
  <2>2. changes' \in [Companies \cup {New} -> Nat] /\ \A k \in Companies \cup {New} : changes[k] <= changes'[k]
    BY <2>1 DEF OnceInv
  <2> QED
    BY <2>1, <2>2, WriterKnows
<1> QED
  BY <1>1, <1>2, <1>3

\* Postings, parents and companies: a demo is neither saved nor deleted, and accounts that lose
\* their company count no longer.
LEMMA CompaniesKnow ==
  ASSUME IInv, OnceInv, NEW w \in Workers,
         Post(w) \/ LoadChart(w) \/ UpdateCompany(w) \/ DeleteCompany(w)
  PROVE  OnceInv'
<1>c. PICK c : c = req[w].company
  OBVIOUS
<1>0. UNCHANGED changes => /\ changes' \in [Companies \cup {New} -> Nat]
                           /\ \A k \in Companies \cup {New} : changes[k] <= changes'[k]
  BY DEF OnceInv
<1>1. CASE Post(w) \/ LoadChart(w)
  <2>1. Done(w) /\ UNCHANGED <<accounts, companies, slugs, changes, outdated>>
    BY <1>1 DEF Post, LoadChart, history
  <2> QED
    BY <1>0, <2>1, WriterKnows
<1>2. CASE UpdateCompany(w)
  <2>1. c \notin DOMAIN slugs
    BY <1>2, <1>c DEF IInv, RequestInv, Holds, UpdateCompany
  <2>2. /\ Done(w) /\ UNCHANGED <<accounts, slugs, changes, outdated>>
        /\ \A d \in DOMAIN companies \ {c} : companies'[d] = companies[d]
    BY <1>2, <1>c DEF UpdateCompany
  <2>3. \A d \in DOMAIN slugs : companies'[d] = companies[d]
    BY <2>1, <2>2, TableFacts
  <2> QED
    BY <1>0, <2>2, <2>3, WriterKnows
<1>3. CASE DeleteCompany(w)
  <2>1. c \notin DOMAIN slugs
    BY <1>3, <1>c DEF IInv, RequestInv, Holds, DeleteCompany
  <2>2. /\ Done(w) /\ UNCHANGED <<slugs, changes, outdated>>
        /\ \A d \in DOMAIN companies \ {c} : companies'[d] = companies[d]
        /\ DOMAIN accounts' = DOMAIN accounts
        /\ \A a \in DOMAIN accounts : accounts'[a] =
             IF accounts[a].company = c THEN [accounts[a] EXCEPT !.company = None] ELSE accounts[a]
    BY <1>3, <1>c DEF DeleteCompany, history
  <2>3. \A d \in DOMAIN slugs : companies'[d] = companies[d]
    BY <2>1, <2>2, TableFacts
  <2>4. ASSUME NEW a \in DOMAIN accounts
        PROVE  /\ accounts'[a].auto = accounts[a].auto
               /\ accounts[a].parent = accounts'[a].parent /\ accounts[a].name = accounts'[a].name
               /\ accounts'[a].company \in {accounts[a].company, None}
    <3>1. accounts[a] \in Row(parents, DOMAIN companies \cup {None})
      BY TableFacts
    <3> QED
      BY <2>2, <3>1 DEF Row
  <2>5. \A d \in Companies : d # None
    BY NoneAssumption
  <2> QED
    BY <1>0, <2>2, <2>3, <2>4, <2>5, WriterKnows
<1> QED
  BY <1>1, <1>2, <1>3

\* CommitByName: unless it is outdated, a request makes and takes over only names that its company
\* does not have, each once, and an import a content and a slug that no demo has.
LEMMA CommitByNameKnows ==
  ASSUME IInv, OnceInv, NEW w \in Workers, CommitByName(w)
  PROVE  OnceInv'
<1> DEFINE r == req[w]
           n == nextAccount
           made == {n + i : i \in DOMAIN r.made}
           isNew == r.company = New
           gains == r.made # <<>> \/ r.adopted # {}
<1>1. ByNameInv(r) /\ Knows("commit", r)
  BY ByNameHolds DEF CommitByName, OnceInv
<1>2. Done(w) /\ MayCommit(r)
  BY DEF CommitByName
<1>3. PICK c \in IF isNew THEN Companies \ usedCompanies ELSE {r.company} :
        /\ companies' = [d \in DOMAIN companies \cup {c} |->
                           IF d = c /\ isNew THEN r.sha ELSE companies[d]]
        /\ slugs' = IF r.kind = "import" THEN [d \in DOMAIN slugs \cup {c} |-> IF d = c THEN r.slug ELSE slugs[d]]
                                         ELSE slugs
        /\ accounts' = [a \in DOMAIN accounts \cup made |->
                          CASE a \in made -> [r.made[a - n] EXCEPT !.company = c]
                            [] a \in r.adopted -> [accounts[a] EXCEPT !.company = c]
                            [] OTHER -> accounts[a]]
        /\ changes' = [changes EXCEPT ![c] = IF gains THEN @ + 1 ELSE @,
                                      ![New] = IF r.kind = "import" THEN @ + 1 ELSE @]
        /\ outdated' = IF (r.kind = "import" \/ (~isNew /\ gains)) /\ r.seen # changes[r.company]
                          THEN outdated \cup {r.company} ELSE outdated
  BY DEF CommitByName
<1> HIDE DEF r
<1>4. /\ r.made \in Seq(Row(Parents, Companies \cup {New}))
      /\ n \in Nat /\ DOMAIN accounts \subseteq 1..n
      /\ r.adopted \subseteq DOMAIN accounts /\ \A a \in r.adopted : accounts[a].company = None
  BY <1>1, <1>2, TableFacts DEF ByNameInv, MayCommit
<1>5. /\ \A i \in DOMAIN r.made : i \in Nat \ {0} /\ r.made[i] \in Row(Parents, Companies \cup {New})
      /\ \A a \in made : a \notin 1..n /\ a - n \in DOMAIN r.made
      /\ \A a, b \in made : a - n = b - n => a = b
  BY <1>4
<1> HIDE DEF n, made
<1>6. c \in Companies /\ c # None /\ c # New
  BY <1>1, <1>3, NoneAssumption, TableFacts DEF ByNameInv
<1>7. DOMAIN accounts' = DOMAIN accounts \cup made
  BY <1>3
<1>8. ASSUME NEW a \in made
      PROVE  /\ a - n \in DOMAIN r.made /\ accounts'[a].company = c
             /\ Key(accounts[a])' = Key(r.made[a - n])
  <2>0. a \notin r.adopted
    BY <1>4, <1>5
  <2>1. accounts'[a] = [r.made[a - n] EXCEPT !.company = c]
    BY <1>3, <1>7, <2>0
  <2> QED
    BY <1>5, <2>1 DEF Row, Key
<1>9. ASSUME NEW a \in DOMAIN accounts
      PROVE  /\ accounts'[a].company = IF a \in r.adopted THEN c ELSE accounts[a].company
             /\ accounts'[a].parent = accounts[a].parent /\ accounts'[a].name = accounts[a].name
             /\ accounts'[a].auto = accounts[a].auto
  <2>1. accounts[a] \in Row(parents, DOMAIN companies \cup {None}) /\ a \notin made
    BY <1>4, <1>5, TableFacts
  <2>2. accounts'[a] = IF a \in r.adopted THEN [accounts[a] EXCEPT !.company = c] ELSE accounts[a]
    BY <1>3, <1>7, <2>1
  <2> QED
    BY <2>1, <2>2 DEF Row
<1>10. /\ changes' \in [Companies \cup {New} -> Nat]
       /\ \A k \in Companies \cup {New} : changes[k] <= changes'[k]
       /\ gains => changes'[c] # changes[c]
       /\ r.kind = "import" => changes'[New] # changes[New]
  BY <1>3, <1>6 DEF OnceInv
<1>11. \A d \in DOMAIN slugs : companies'[d] = companies[d]
  <2>1. c \in DOMAIN companies => ~isNew
    BY <1>3, TableFacts
  <2> QED
    BY <1>3, <2>1, TableFacts
<1>12. NamesStable
  <2>1. ASSUME NEW d \in Companies, changes'[d] = changes[d], NEW a \in DOMAIN accounts',
               accounts'[a].company = d
        PROVE  a \in DOMAIN accounts /\ accounts[a].company = d
    <3>1. CASE d = c
      <4>1. ~gains
        BY <1>10, <2>1, <3>1
      <4>2. made = {} /\ r.adopted = {}
        BY <4>1 DEF made
      <4> QED
        BY <1>7, <1>9, <2>1, <4>2
    <3>2. CASE d # c
      BY <1>7, <1>8, <1>9, <2>1, <3>2
    <3> QED
      BY <3>1, <3>2
  <2>2. ASSUME NEW a \in DOMAIN accounts' \cap (1..nextAccount)
        PROVE  a \in DOMAIN accounts
    BY <1>5, <1>7 DEF n
  <2>3. changes'[New] = changes[New] => slugs' = slugs
    BY <1>3, <1>10
  <2> QED
    BY <1>9, <1>10, <1>11, <2>1, <2>2, <2>3 DEF NamesStable
<1>13. NamesResolvedOnce'
  <2> DEFINE Mine(a) == a \in made \/ a \in r.adopted
             name(a) == IF a \in made THEN Key(r.made[a - n]) ELSE r.names[a][1]
  <2>1. Decided(r) /\ NamesCurrent(r)
    BY <1>1 DEF Knows
  <2>2. ASSUME NEW a \in DOMAIN accounts', Mine(a), accounts'[a].auto
        PROVE  Key(accounts[a])' = name(a) /\ name(a) \in r.keys /\ OwnNamed(r, name(a)) = {}
    <3>1. CASE a \in made
      BY <1>8, <2>1, <3>1 DEF Decided
    <3>2. CASE a \notin made
      <4>1. a \in r.adopted /\ a \in DOMAIN accounts /\ a \in DOMAIN r.names
        BY <1>4, <2>1, <2>2, <3>2 DEF Decided
      <4>2. r.names[a][1] = Key(accounts[a])
        BY <1>9, <2>1, <2>2, <4>1 DEF NamesCurrent
      <4>3. Key(accounts[a])' = Key(accounts[a])
        BY <1>9, <4>1 DEF Key
      <4>4. r.names[a][1] \in r.keys /\ OwnNamed(r, r.names[a][1]) = {}
        BY <2>1, <4>1 DEF Decided
      <4> QED
        BY <3>2, <4>2, <4>3, <4>4
    <3> QED
      BY <3>1, <3>2
  <2>3. ASSUME NEW a, NEW b, Mine(a), Mine(b), name(a) = name(b)
        PROVE  a = b
    <3>1. CASE a \in made /\ b \in made
      BY <1>5, <2>1, <2>3, <3>1 DEF Decided
    <3>2. CASE a \notin made /\ b \notin made
      BY <2>1, <2>3, <3>2 DEF Decided
    <3>3. CASE a \in made /\ b \notin made
      BY <1>5, <2>1, <2>3, <3>3 DEF Decided
    <3>4. CASE a \notin made /\ b \in made
      BY <1>5, <2>1, <2>3, <3>4 DEF Decided
    <3> QED
      BY <3>1, <3>2, <3>3, <3>4
  <2>4. ASSUME NEW a, NEW b \in DOMAIN accounts, Mine(a), ~Mine(b), accounts'[a].auto, accounts'[b].auto,
               accounts'[a].company = accounts'[b].company, a \in DOMAIN accounts',
               Key(accounts[a])' = Key(accounts[b])'
        PROVE  c \in outdated'
    <3>1. accounts[b].company = c /\ accounts[b].auto
      <4>1. accounts'[a].company = c
        BY <1>4, <1>8, <1>9, <2>4
      <4> QED
        BY <1>9, <2>4, <4>1
    <3>2. ~isNew /\ c = r.company
      <4>1. c \in usedCompanies
        BY <1>6, <3>1, TableFacts DEF Row
      <4> QED
        BY <1>3, <4>1
    <3>3. gains
      BY <2>4 DEF made
    <3>4. r.seen # changes[c]
      <4> SUFFICES ASSUME r.seen = changes[c] PROVE FALSE
        OBVIOUS
      <4>1. Key(accounts[b]) = name(a) /\ name(a) \in r.keys /\ OwnNamed(r, name(a)) = {}
        <5>1. Key(accounts[b])' = Key(accounts[b])
          BY <1>9 DEF Key
        <5> QED
          BY <2>2, <2>4, <5>1
      <4>2. accounts[b].parent \in LookedUnder(r)
        <5>1. Key(accounts[b])[1] = accounts[b].parent
          BY DEF Key
        <5> QED
          BY <4>1, <5>1 DEF LookedUnder
      <4>3. b \in DOMAIN r.names /\ r.names[b] = <<Key(accounts[b]), r.company>>
        BY <2>1, <3>1, <3>2, <4>2 DEF NamesCurrent
      <4> QED
        BY <4>1, <4>3 DEF OwnNamed
    <3> QED
      BY <1>3, <3>2, <3>3, <3>4
  <2>5. outdated \subseteq outdated'
    BY <1>3
  <2> SUFFICES ASSUME NEW a \in DOMAIN accounts', NEW b \in DOMAIN accounts', a # b,
                      accounts'[a].auto, accounts'[b].auto, accounts'[a].company # None,
                      accounts'[a].company = accounts'[b].company,
                      Key(accounts[a])' = Key(accounts[b])'
               PROVE  accounts'[a].company \in outdated'
    BY DEF NamesResolvedOnce
  <2>6. CASE Mine(a) /\ Mine(b)
    BY <2>2, <2>3, <2>6
  <2>7. CASE Mine(a) /\ ~Mine(b)
    BY <1>4, <1>7, <1>8, <1>9, <2>4, <2>7
  <2>8. CASE ~Mine(a) /\ Mine(b)
    BY <1>4, <1>7, <1>8, <1>9, <2>4, <2>8
  <2>9. CASE ~Mine(a) /\ ~Mine(b)
    <3>1. a \in DOMAIN accounts /\ b \in DOMAIN accounts
      BY <1>7, <2>9
    <3>2. /\ accounts[a].auto /\ accounts[b].auto
          /\ accounts[a].company = accounts'[a].company /\ accounts[b].company = accounts'[b].company
          /\ Key(accounts[a]) = Key(accounts[b])
      BY <1>9, <2>9, <3>1 DEF Key
    <3> QED
      BY <2>5, <3>1, <3>2 DEF OnceInv, NothingMadeTwice, NamesResolvedOnce
  <2> QED
    BY <2>6, <2>7, <2>8, <2>9
<1>14. DemosDistinct'
  <2>1. outdated \subseteq outdated'
    BY <1>3
  <2>2. CASE r.kind # "import"
    <3>1. slugs' = slugs
      BY <1>3, <2>2
    <3> QED
      BY <1>11, <2>1, <3>1 DEF OnceInv, NothingMadeTwice, DemosDistinct
  <2>3. CASE r.kind = "import"
    <3>1. isNew /\ DemosCurrent("commit", r)
      BY <1>1, <2>3 DEF ByNameInv, Knows
    <3>2. /\ DOMAIN slugs' = DOMAIN slugs \cup {c} /\ slugs'[c] = r.slug /\ companies'[c] = r.sha
          /\ \A d \in DOMAIN slugs : d # c /\ slugs'[d] = slugs[d]
      <4>1. c \notin DOMAIN slugs
        BY <1>3, <3>1, TableFacts
      <4> QED
        BY <1>3, <2>3, <3>1, <4>1
    <3>3. New \in outdated' \/ \A d \in DOMAIN slugs : companies[d] # r.sha /\ slugs[d] # r.slug
      BY <1>3, <2>3, <3>1 DEF DemosCurrent
    <3> QED
      BY <1>11, <2>1, <3>2, <3>3 DEF OnceInv, NothingMadeTwice, DemosDistinct
  <2> QED
    BY <2>2, <2>3
<1>15. \A q : Knows("idle", q)'
  BY DEF Knows
<1> QED
  BY <1>2, <1>12, <1>13, <1>14, <1>15, KnowledgeKept DEF NothingMadeTwice, Done

\* Every step keeps what requests know.
LEMMA NextOnce == IInv /\ OnceInv /\ [Next]_vars => OnceInv'
<1> SUFFICES ASSUME IInv, OnceInv, [Next]_vars PROVE OnceInv'
  OBVIOUS
<1>1. CASE Next
  <2>1. PICK w \in Workers : ReceiveAny(w) \/ Step(w)
    BY <1>1 DEF Next
  <2>2. CASE Fail(w)
    <3>1. Knows("idle", Idle)
      BY DEF Knows
    <3> QED
      BY <2>2, <3>1, QuietKnowledge DEF Fail, Done
  <2> QED
    BY <2>1, <2>2, ReceiveKnows, EnsureParentsKnows, LoadNamesKnows, ResolveKnows, ResolvedKnows,
       CommitByNameKnows, ByHandKnows, CompaniesKnow DEF Step
<1>2. CASE UNCHANGED vars
  <2>1. UNCHANGED <<companies, slugs, nextAccount, accounts, changes, outdated, pc, req>>
    BY <1>2 DEF vars, tables, history
  <2>2. NamesStable
    BY <2>1 DEF NamesStable, OnceInv
  <2>3. NothingMadeTwice'
    BY <2>1 DEF OnceInv, NothingMadeTwice, NamesResolvedOnce, DemosDistinct, Key
  <2>4. \A v \in Workers : Knows(pc[v], req[v])'
    BY <2>1, <2>2, OthersKnow
  <2> QED
    BY <2>1, <2>3, <2>4 DEF OnceInv
<1> QED
  BY <1>1, <1>2

\* resolve_company_movement_accounts, ensure_company_closing_accounts, import_demo_company: no
\* company gets a second account of a name and no content or slug a second demo, for any number
\* of requests and any interleaving, unless a request that it did not see came in between.
THEOREM NothingTwice == Spec => []NothingMadeTwice
<1>1. Init => OnceInv
  BY InitOnce
<1>2. IInv /\ OnceInv /\ [Next]_vars => OnceInv'
  BY NextOnce
<1>3. OnceInv => NothingMadeTwice
  BY DEF OnceInv
<1> QED
  BY <1>1, <1>2, <1>3, AlwaysIInv, PTL DEF Spec
=============================================================================
