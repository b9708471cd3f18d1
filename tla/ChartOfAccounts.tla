-------------------------- MODULE ChartOfAccounts --------------------------
(***************************************************************************)
(* The accounts of the companies and the companies themselves              *)
(* (accounts/services.py, companies/account_resolution.py,                 *)
(* closing/support.py, companies/services.py, companies/demo_import.py):   *)
(* movement accounts live under parents that all companies share and are   *)
(* numbered there, by hand or by the next free code; openings, closings    *)
(* and demo imports look their accounts up by name and make the missing.   *)
(*                                                                         *)
(* A request reads and checks in one step or several and writes in its     *)
(* last: what it inserted before is in req, and becomes visible with the   *)
(* commit, where the database's constraints decide (READ COMMITTED).       *)
(***************************************************************************)
EXTENDS Integers, Sequences, FiniteSets, FiniteSetsExt

CONSTANTS
  Workers,
  Companies,                \* primary keys of companies
  Parents, ClosingParents,  \* the parents (colectivas), and those that a closing makes if missing
  Names,                    \* names of accounts, stripped and in lower case
  OpeningSpecs, ClosingSpecs, \* sequences of <<parent, name>>: what openings may ask for, what a closing asks for
  LastCode,                 \* 99: the last code under a parent
  Contents,                 \* what a demo file may contain (its sha256)
  Starts,                   \* the databases to start from
  MaxRequests,              \* bound: requests
  None, New                 \* New: the company that a request is creating

ASSUME ParentsAssumption == ClosingParents \subseteq Parents
ASSUME SpecsAssumption ==
  /\ OpeningSpecs \subseteq Seq(Parents \X Names)
  /\ ClosingSpecs \in Seq(Parents \X Names)
ASSUME BoundsAssumption == LastCode \in Nat /\ MaxRequests \in Nat /\ IsFiniteSet(Companies)
ASSUME NoneAssumption == {None, New} \cap (Companies \cup Contents) = {} /\ None # New
ASSUME StartsAssumption ==
  \A s \in Starts :
    /\ s.parents \subseteq Parents
    /\ DOMAIN s.companies \subseteq Companies
    /\ \A c \in DOMAIN s.companies : s.companies[c] = None
    /\ s.accounts \in Seq([parent : s.parents, code : 0..LastCode, name : Names,
                           company : DOMAIN s.companies \cup {None}, auto : BOOLEAN])
    /\ \A a, b \in DOMAIN s.accounts :
         (s.accounts[a].parent = s.accounts[b].parent /\ s.accounts[a].code = s.accounts[b].code)
           => a = b
    /\ \A a, b \in DOMAIN s.accounts :
         (/\ s.accounts[a].auto /\ s.accounts[b].auto
          /\ s.accounts[a].company # None /\ s.accounts[a].company = s.accounts[b].company
          /\ s.accounts[a].parent = s.accounts[b].parent /\ s.accounts[a].name = s.accounts[b].name)
           => a = b
    /\ \A e \in s.entries :
         /\ e.company \in DOMAIN s.companies
         /\ e.legs # {} /\ e.legs \subseteq DOMAIN s.accounts
         /\ \A a \in e.legs : s.accounts[a].company = e.company
         /\ e.opening \in BOOLEAN

VARIABLES
  parents,    \* parents that exist
  companies,  \* the companies that exist: the demo each was imported from, or None
  slugs,      \* demo_slug of the demos
  usedCompanies, nextAccount,   \* primary keys given out
  accounts,   \* hordak's Account with its CompanyAccount: None for an account without company
  entries,    \* journal entries: company, accounts of the legs, opening or not
  pc, req,
  requests,
  revived,    \* history: companies and accounts that save() inserted again
  changes,    \* history: commits that gave a company accounts, and imports
  outdated    \* history: companies that got accounts from names read before such a commit, or New

tables == <<parents, companies, slugs, usedCompanies, nextAccount, accounts, entries>>
history == <<revived, changes, outdated>>
vars == <<tables, pc, req, requests, history>>

Idle == [kind |-> "none", company |-> None, account |-> 0, row |-> <<>>, sha |-> None, slug |-> 0,
         specs |-> <<>>, names |-> <<>>, keys |-> {}, made |-> <<>>, adopted |-> {}, legs |-> {},
         newParents |-> {}, seen |-> 0]

Init ==
  /\ \E s \in Starts : /\ parents = s.parents /\ accounts = s.accounts
                       /\ entries = s.entries /\ companies = s.companies
  /\ slugs = [c \in {} |-> 0]
  /\ usedCompanies = DOMAIN companies
  /\ nextAccount = Cardinality(DOMAIN accounts)
  /\ pc = [w \in Workers |-> "idle"]
  /\ req = [w \in Workers |-> Idle]
  /\ requests = 0
  /\ revived = {} /\ outdated = {}
  /\ changes = [c \in Companies \cup {New} |-> 0]

Key(a) == <<a.parent, a.name>>
CodesUnder(p) == {accounts[a].code : a \in {b \in DOMAIN accounts : accounts[b].parent = p}}
HasLegs(a) == \E e \in entries : a \in e.legs
EntriesOf(c) == {e \in entries : e.company = c}
Writable(c) == c \in DOMAIN companies /\ companies[c] = None

GotoWith(w, label, r) == pc' = [pc EXCEPT ![w] = label] /\ req' = [req EXCEPT ![w] = r]

Receive(w, label, r) ==
  /\ pc[w] = "idle"
  /\ requests < MaxRequests
  /\ requests' = requests + 1
  /\ GotoWith(w, label, r)
  /\ UNCHANGED <<tables, history>>

-----------------------------------------------------------------------------
(* Accounts by hand.                                                       *)

\* create_account: the parent exists, the code is well formed, under it and free.
ReceiveCreate(w) ==
  \E c \in Companies, p \in parents, code \in 0..LastCode, n \in Names :
    /\ Writable(c) /\ code \notin CodesUnder(p)
    /\ Receive(w, "create", [Idle EXCEPT !.kind = "create", !.company = c,
         !.row = [parent |-> p, code |-> code, name |-> n, company |-> c, auto |-> FALSE]])

\* update_account: the row is read, its name or its code replaced (a free one).
ReceiveUpdate(w) ==
  \E a \in DOMAIN accounts, code \in 0..LastCode, n \in Names :
    LET row == accounts[a] IN
    /\ Writable(row.company)
    /\ code = row.code \/ code \notin CodesUnder(row.parent)
    /\ Receive(w, "update", [Idle EXCEPT !.kind = "update", !.account = a,
         !.row = [row EXCEPT !.code = code, !.name = n, !.auto = FALSE]])

\* delete_account: an account of the company, without legs.
DeleteAllowed(a) == Writable(accounts[a].company) /\ ~HasLegs(a)

ReceiveDelete(w) ==
  \E a \in DOMAIN accounts :
    /\ DeleteAllowed(a)
    /\ Receive(w, "delete", [Idle EXCEPT !.kind = "delete", !.account = a])

\* create_journal_entry: _validate_lines wants accounts of the company.
ReceivePost(w) ==
  \E a \in DOMAIN accounts :
    /\ Writable(accounts[a].company) /\ EntriesOf(accounts[a].company) # {}
    /\ Receive(w, "post", [Idle EXCEPT !.kind = "post", !.company = accounts[a].company, !.legs = {a}])

-----------------------------------------------------------------------------
(* Companies.                                                              *)

ReceiveUpdateCompany(w) ==
  \E c \in DOMAIN companies :
    Writable(c) /\ Receive(w, "save", [Idle EXCEPT !.kind = "save", !.company = c])

ReceiveDeleteCompany(w) ==
  \E c \in DOMAIN companies :
    Writable(c) /\ Receive(w, "drop", [Idle EXCEPT !.kind = "drop", !.company = c])

\* create_company_with_optional_opening.
ReceiveNew(w) ==
  \E specs \in OpeningSpecs \cup {<<>>} :
    Receive(w, "names", [Idle EXCEPT !.kind = "new", !.company = New, !.specs = specs])

\* create_company_opening_entry: the first entry of the company.
ReceiveOpening(w) ==
  \E c \in DOMAIN companies, specs \in OpeningSpecs :
    /\ Writable(c) /\ EntriesOf(c) = {}
    /\ Receive(w, "names", [Idle EXCEPT !.kind = "open", !.company = c, !.specs = specs])

\* execute_simplified_closing: it needs an open exercise.
ReceiveClosing(w) ==
  \E c \in DOMAIN companies :
    /\ Writable(c) /\ EntriesOf(c) # {}
    /\ Receive(w, "parents", [Idle EXCEPT !.kind = "close", !.company = c, !.specs = ClosingSpecs])

\* import_demo_company: this content has been imported.
Imported(sha) == \E c \in DOMAIN companies : companies[c] = sha

\* import_demo_company of a content that is not there; otherwise it does nothing.
ReceiveImport(w) ==
  \E sha \in Contents, specs \in OpeningSpecs :
    /\ ~Imported(sha)
    /\ Receive(w, "names", [Idle EXCEPT !.kind = "import", !.company = New, !.sha = sha,
                                        !.specs = specs, !.seen = changes[New]])

\* load_chart_of_accounts: the parents it does not find.
ReceiveLoadChart(w) ==
  Receive(w, "chart", [Idle EXCEPT !.kind = "chart", !.newParents = Parents \ parents])

-----------------------------------------------------------------------------
(* Accounts by name: resolve_company_movement_accounts and                 *)
(* ensure_company_closing_accounts.                                        *)

\* ensure_closing_parent_accounts.
EnsureParents(w) ==
  /\ pc[w] = "parents"
  /\ GotoWith(w, "names", [req[w] EXCEPT !.newParents = ClosingParents \ parents])
  /\ UNCHANGED <<tables, requests, history>>

\* The parents and the accounts under them, read once; a parent that is missing is an error.
LoadNames(w) ==
  LET r == req[w]
      wanted == {r.specs[i][1] : i \in DOMAIN r.specs}
  IN
  /\ pc[w] = "names"
  /\ wanted \subseteq parents \cup r.newParents
  /\ GotoWith(w, "resolve", [r EXCEPT !.names = [a \in {b \in DOMAIN accounts : accounts[b].parent \in wanted} |->
                                                   <<Key(accounts[a]), accounts[a].company>>],
                                      !.seen = IF r.company = New THEN @ ELSE changes[r.company]])
  /\ UNCHANGED <<tables, requests, history>>

TakenCodes(r, p) == CodesUnder(p) \cup {r.made[i].code : i \in {j \in DOMAIN r.made : r.made[j].parent = p}}

\* Mutant: the number of accounts, plus one.
NextCodes_Count(r, p) == {Cardinality(TakenCodes(r, p)) + 1}

\* _next_child_full_code: the lowest free code, if there is one.
NextCodes(r, p) ==
  LET free == (1..LastCode) \ TakenCodes(r, p) IN
  IF free = {} THEN {} ELSE {Min(free)}

\* A new account of that name, under the next free code (no step when there is none: an error).
MakeAccount(w, key) ==
  LET r == req[w] IN
  \E code \in NextCodes(r, key[1]) :
    GotoWith(w, "resolve",
      [r EXCEPT !.specs = Tail(@), !.keys = @ \cup {key},
                !.made = Append(@, [parent |-> key[1], code |-> code, name |-> key[2],
                                    company |-> r.company, auto |-> TRUE])])

UseAccount(w, key, a, adopts) ==
  GotoWith(w, "resolve",
    [req[w] EXCEPT !.specs = Tail(@), !.keys = @ \cup {key}, !.legs = @ \cup {a},
                   !.adopted = IF adopts THEN @ \cup {a} ELSE @])

\* The company of an account now, whatever was read before.
CompanyNow(a) == IF a \in DOMAIN accounts THEN accounts[a].company ELSE None

\* Mutant: an account that has the name is taken, whoever it belongs to.
ByName_Anybody(w, key, a) == UseAccount(w, key, a, FALSE)

\* An account of that name outside the company: taken over if it is nobody's.
ByName(w, key, a) ==
  \/ CompanyNow(a) = req[w].company /\ UseAccount(w, key, a, FALSE)
  \/ CompanyNow(a) = None /\ UseAccount(w, key, a, TRUE)
  \/ CompanyNow(a) \notin {None, req[w].company} /\ MakeAccount(w, key)

\* Mutant: the accounts that the company has are not looked up.
OwnNamed_None(r, key) == {}

\* existing_company_accounts.
OwnNamed(r, key) == {a \in DOMAIN r.names : r.names[a] = <<key, r.company>>}

\* One spec: the account the request resolved or made before, one of the company, one of
\* nobody's (a closing does not look for those), or a new one.
Resolve(w) ==
  LET r == req[w]
      key == Head(r.specs)
      named == {a \in DOMAIN r.names : r.names[a][1] = key}
      own == OwnNamed(r, key)
  IN
  /\ pc[w] = "resolve" /\ r.specs # <<>>
  /\ CASE key \in r.keys -> GotoWith(w, "resolve", [r EXCEPT !.specs = Tail(@)])
       [] key \notin r.keys /\ own # {} -> \E a \in own : UseAccount(w, key, a, FALSE)
       [] key \notin r.keys /\ own = {} /\ (named = {} \/ r.kind = "close") -> MakeAccount(w, key)
       [] key \notin r.keys /\ own = {} /\ named # {} /\ r.kind # "close" ->
            \E a \in named : ByName(w, key, a)
  /\ UNCHANGED <<tables, requests, history>>

\* _build_demo_slug: the first version of the name that no demo has.
Resolved(w) ==
  LET r == req[w] IN
  /\ pc[w] = "resolve" /\ r.specs = <<>>
  /\ GotoWith(w, "commit",
       IF r.kind = "import"
         THEN [r EXCEPT !.slug = Min((1..Cardinality(Companies) + 1) \ {slugs[c] : c \in DOMAIN slugs})]
         ELSE r)
  /\ UNCHANGED <<tables, requests, history>>

-----------------------------------------------------------------------------
(* Commits.                                                                *)

Done(w) == GotoWith(w, "idle", Idle) /\ UNCHANGED requests

\* Mutant: no constraint on the codes.
UniqueCodes_Dropped(rows) == TRUE

\* hordak: full_code is unique.
UniqueCodes(rows) == \A i \in DOMAIN rows : rows[i].code \notin CodesUnder(rows[i].parent)

CreateAccount(w) ==
  LET r == req[w] IN
  /\ pc[w] = "create"
  /\ UniqueCodes(<<r.row>>) /\ r.company \in DOMAIN companies
  /\ nextAccount' = nextAccount + 1
  /\ accounts' = [a \in DOMAIN accounts \cup {nextAccount'} |->
                    IF a = nextAccount' THEN r.row ELSE accounts[a]]
  /\ changes' = [changes EXCEPT ![r.company] = @ + 1]
  /\ Done(w)
  /\ UNCHANGED <<parents, companies, slugs, usedCompanies, entries, revived, outdated>>

\* Mutant: the row comes back with its CompanyAccount.
Reinserted_Linked(row) == row

\* The row is inserted again, but not its CompanyAccount.
Reinserted(row) == [row EXCEPT !.company = None]

\* account.save(): every column of the row that was read, also when the row has gone.
UpdateAccount(w) ==
  LET r == req[w]
      gone == r.account \notin DOMAIN accounts
  IN
  /\ pc[w] = "update"
  /\ \A a \in DOMAIN accounts \ {r.account} :
       <<accounts[a].parent, accounts[a].code>> # <<r.row.parent, r.row.code>>
  /\ accounts' = [a \in DOMAIN accounts \cup {r.account} |->
                    IF a # r.account THEN accounts[a]
                    ELSE IF gone THEN Reinserted(r.row)
                    ELSE [r.row EXCEPT !.company = accounts[a].company]]
  /\ revived' = IF gone THEN revived \cup {r.account} ELSE revived
  /\ Done(w)
  /\ UNCHANGED <<parents, companies, slugs, usedCompanies, nextAccount, entries, changes, outdated>>

\* The lines of a journal entry protect their account.
DeleteAccount(w) ==
  LET a == req[w].account IN
  /\ pc[w] = "delete"
  /\ ~HasLegs(a)
  /\ accounts' = [b \in DOMAIN accounts \ {a} |-> accounts[b]]
  /\ Done(w)
  /\ UNCHANGED <<parents, companies, slugs, usedCompanies, nextAccount, entries, history>>

\* The company and the accounts are foreign keys of the entry and its lines.
Post(w) ==
  LET r == req[w] IN
  /\ pc[w] = "post"
  /\ r.company \in DOMAIN companies /\ r.legs \subseteq DOMAIN accounts
  /\ entries' = entries \cup {[company |-> r.company, legs |-> r.legs, opening |-> FALSE]}
  /\ Done(w)
  /\ UNCHANGED <<parents, companies, slugs, usedCompanies, nextAccount, accounts, history>>

\* company.save(): the row that was read; inserted again when it has gone.
UpdateCompany(w) ==
  LET c == req[w].company IN
  /\ pc[w] = "save"
  /\ companies' = [d \in DOMAIN companies \cup {c} |-> IF d = c THEN None ELSE companies[d]]
  /\ revived' = IF c \in DOMAIN companies THEN revived ELSE revived \cup {c}
  /\ Done(w)
  /\ UNCHANGED <<parents, slugs, usedCompanies, nextAccount, accounts, entries, changes, outdated>>

\* company.delete(): entries protect it; its accounts stay behind as nobody's.
DeleteCompany(w) ==
  LET c == req[w].company IN
  /\ pc[w] = "drop"
  /\ EntriesOf(c) = {}
  /\ companies' = [d \in DOMAIN companies \ {c} |-> companies[d]]
  /\ accounts' = [a \in DOMAIN accounts |->
                    IF accounts[a].company = c THEN [accounts[a] EXCEPT !.company = None]
                                               ELSE accounts[a]]
  /\ Done(w)
  /\ UNCHANGED <<parents, slugs, usedCompanies, nextAccount, entries, history>>

LoadChart(w) ==
  /\ pc[w] = "chart"
  /\ req[w].newParents \cap parents = {}
  /\ parents' = parents \cup req[w].newParents
  /\ Done(w)
  /\ UNCHANGED <<companies, slugs, usedCompanies, nextAccount, accounts, entries, history>>

\* The constraints on what a request by name writes: codes, parents, one company per account,
\* foreign keys, and one opening per company.
MayCommit(r) ==
  /\ UniqueCodes(r.made)
  /\ r.newParents \cap parents = {}
  /\ r.legs \subseteq DOMAIN accounts
  /\ \A a \in r.adopted : accounts[a].company = None
  /\ r.company = New \/ r.company \in DOMAIN companies
  /\ r.kind = "open" => \A e \in EntriesOf(r.company) : ~e.opening

\* The end of an opening, a closing, a creation or an import: its accounts, its entries (the
\* accounts of the request are their legs), and the company with it.
CommitByName(w) ==
  LET r == req[w]
      made == {nextAccount + i : i \in DOMAIN r.made}
  IN
  /\ pc[w] = "commit"
  /\ MayCommit(r)
  /\ \E c \in IF r.company = New THEN Companies \ usedCompanies ELSE {r.company} :
       LET isNew == r.company = New
           gains == r.made # <<>> \/ r.adopted # {}
       IN
       /\ companies' = [d \in DOMAIN companies \cup {c} |->
                          IF d = c /\ isNew THEN r.sha ELSE companies[d]]
       /\ usedCompanies' = usedCompanies \cup {c}
       /\ slugs' = IF r.kind = "import" THEN [d \in DOMAIN slugs \cup {c} |-> IF d = c THEN r.slug ELSE slugs[d]]
                                        ELSE slugs
       /\ accounts' = [a \in DOMAIN accounts \cup made |->
                         CASE a \in made -> [r.made[a - nextAccount] EXCEPT !.company = c]
                           [] a \in r.adopted -> [accounts[a] EXCEPT !.company = c]
                           [] OTHER -> accounts[a]]
       /\ entries' = IF r.legs \cup made = {} THEN entries
                     ELSE entries \cup {[company |-> c, legs |-> r.legs \cup made, opening |-> r.kind # "close"]}
       /\ changes' = [changes EXCEPT ![c] = IF gains THEN @ + 1 ELSE @,
                                     ![New] = IF r.kind = "import" THEN @ + 1 ELSE @]
       /\ outdated' = IF (r.kind = "import" \/ (~isNew /\ gains)) /\ r.seen # changes[r.company]
                         THEN outdated \cup {r.company} ELSE outdated
  /\ nextAccount' = nextAccount + Len(r.made)
  /\ parents' = parents \cup r.newParents
  /\ Done(w)
  /\ UNCHANGED revived

\* A check, a constraint, or the death of the process: the transaction is rolled back.
Fail(w) ==
  /\ pc[w] # "idle"
  /\ Done(w)
  /\ UNCHANGED <<tables, history>>

-----------------------------------------------------------------------------
ReceiveAny(w) ==
  \/ ReceiveCreate(w) \/ ReceiveUpdate(w) \/ ReceiveDelete(w) \/ ReceivePost(w)
  \/ ReceiveUpdateCompany(w) \/ ReceiveDeleteCompany(w) \/ ReceiveNew(w) \/ ReceiveOpening(w)
  \/ ReceiveClosing(w) \/ ReceiveImport(w) \/ ReceiveLoadChart(w)

Step(w) ==
  \/ EnsureParents(w) \/ LoadNames(w) \/ Resolve(w) \/ Resolved(w) \/ CommitByName(w)
  \/ CreateAccount(w) \/ UpdateAccount(w) \/ DeleteAccount(w) \/ Post(w)
  \/ UpdateCompany(w) \/ DeleteCompany(w) \/ LoadChart(w) \/ Fail(w)

Next == \E w \in Workers : ReceiveAny(w) \/ Step(w)

Spec == Init /\ [][Next]_vars

-----------------------------------------------------------------------------
(* Properties.                                                             *)

\* Every variable holds values of its type; an account belongs to a company that exists, or to
\* nobody, and its code has two digits.
TypeOK ==
  /\ parents \subseteq Parents
  /\ DOMAIN companies \subseteq usedCompanies /\ usedCompanies \subseteq Companies
  /\ \A c \in DOMAIN companies : companies[c] \in Contents \cup {None}
  /\ DOMAIN slugs \subseteq DOMAIN companies
  /\ DOMAIN accounts \subseteq 1..nextAccount
  /\ \A a \in DOMAIN accounts :
       accounts[a] \in [parent : parents, code : 0..LastCode, name : Names,
                        company : DOMAIN companies \cup {None}, auto : BOOLEAN]
  /\ \A e \in entries : e.legs # {} /\ e.opening \in BOOLEAN
  /\ requests \in 0..MaxRequests

\* _validate_code_unique, _next_child_full_code: two accounts never share a code, although
\* every request looks for a free one without a lock.
CodesUnique ==
  \A a, b \in DOMAIN accounts :
    <<accounts[a].parent, accounts[a].code>> = <<accounts[b].parent, accounts[b].code>> => a = b

\* _validate_lines, delete_account, delete_company: what is posted stays with accounts of its
\* own company, whatever is deleted, renamed or taken over meanwhile; unless save() brought the
\* account or the company back after it was deleted.
PostingsStayValid ==
  \A e \in entries :
    /\ e.company \in DOMAIN companies
    /\ e.legs \subseteq DOMAIN accounts
    /\ e.company \in revived \/ \A a \in e.legs : accounts[a].company = e.company \/ a \in revived

\* resolve_company_movement_accounts, ensure_company_closing_accounts: a company gets no second
\* account of a name (accounts that users made or edited aside), unless another request gave it
\* accounts after the names were read.
NamesResolvedOnce ==
  \A a, b \in DOMAIN accounts :
    (/\ accounts[a].auto /\ accounts[b].auto /\ a # b
     /\ accounts[a].company # None /\ accounts[a].company = accounts[b].company)
      => Key(accounts[a]) # Key(accounts[b]) \/ accounts[a].company \in outdated

\* import_demo_company: "used to avoid importing the same demo twice" (companies/models.py:62):
\* demos differ in content and slug, unless two imports overlapped.
DemosDistinct ==
  \A c, d \in DOMAIN slugs :
    c # d => (companies[c] # companies[d] /\ slugs[c] # slugs[d]) \/ New \in outdated

\* A request never makes again what it would have found: no second account of a name, no second
\* demo of a content, unless a request that it did not see came in between.
NothingMadeTwice == NamesResolvedOnce /\ DemosDistinct

\* update_company and update_account may bring back what was deleted meanwhile: a company comes
\* back without accounts and entries, an account without company and legs.
ReturnsBare ==
  [][/\ \A c \in (DOMAIN companies)' \cap usedCompanies : c \notin DOMAIN companies =>
          /\ \A a \in DOMAIN accounts' : accounts'[a].company # c
          /\ \A e \in entries' : e.company # c
     /\ \A a \in DOMAIN accounts' \cap (1..nextAccount) : a \notin DOMAIN accounts =>
          accounts'[a].company = None /\ \A e \in entries' : a \notin e.legs]_vars
=============================================================================
