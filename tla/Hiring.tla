------------------------------- MODULE Hiring -------------------------------
(***************************************************************************)
(* How agents get into projects: provider accounts and publication         *)
(* (agents.service.ts, providers page), the marketplace, the new-project   *)
(* wizard, hiring, agreements and removal (projects.service.ts), and what  *)
(* a hired agent's program may do with its key (project-key.guard.ts,      *)
(* keys.service.ts).                                                       *)
(*                                                                         *)
(* A request in flight is a member of req; each of its steps is the code   *)
(* between two awaits, so requests interleave statement by statement.  The *)
(* wizard's selection of agents is always empty: its search asks for "q",  *)
(* which the API refuses (Found), so its hiring loop never runs and is     *)
(* left out.                                                               *)
(***************************************************************************)
EXTENDS Integers, FiniteSets

CONSTANTS
    Null,
    Agents, Personal,   \* AI agents of a provider, and the leader's own
    Projects, Keys,
    MaxOps,     \* bound: requests sent, not counting the keys of the wizard
    MaxFaults   \* bound: requests cut off by a failing statement, a restart or a lost answer

ASSUME KindAssumption == Personal \subseteq Agents
ASSUME NullAssumption == Null \notin Agents \cup Projects \cup Keys
ASSUME BoundAssumption == MaxOps \in Nat /\ MaxFaults \in Nat
ASSUME KeysAssumption == IsFiniteSet(Keys)

VARIABLES
    provider,   \* the provider account: registered, dpa, kyc
    agent,      \* state of each agent row
    project,    \* "bare" until its planning-agent row exists
    hire,       \* the ProjectAgent row of each project and agent, unique
    agreed,     \* hires with an agreement
    stored,     \* resource keys of each project
    audit,      \* audit records of key accesses
    req,        \* the requests in flight, and those whose answer the client has not taken
    ops,        \* requests sent, but for the wizard's keys
    wizard,     \* the new-project page; "left" when another page is open
    page,       \* the agent whose marketplace page is open
    shown,      \* hires whose project key the leader has been shown
    faults

vars == <<provider, agent, project, hire, agreed, stored, audit, req, ops, wizard, page, shown, faults>>
account == <<provider, agent>>
staff == <<hire, agreed>>
secrets == <<stored, audit>>
client == <<wizard, page, shown>>
bounds == <<ops, faults>>

Hires == Projects \X Agents
Market == Agents \ Personal
Ops == {"register", "dpa", "newAgent", "publish", "unpublish", "delete", "newProject",
        "hire", "accept", "remove", "newKey", "wizardKey", "dropKey", "use"}
Steps == {"read", "check", "write", "second", "answer", "failed"}
Request == [op: Ops, pc: Steps, p: Projects \cup {Null}, a: Agents \cup {Null},
            k: Keys \cup {Null}, late: BOOLEAN]

Exists(a) == agent[a] \in {"draft", "published"}
At(r, op, pc) == r.op = op /\ r.pc = pc
Settled(r) == r.pc \in {"answer", "failed"}
Pending(op) == \E r \in req : r.op = op

\* Any history that left one project, with at most one key.
Init ==
    /\ provider \in [registered: BOOLEAN, dpa: BOOLEAN, kyc: BOOLEAN]
    /\ (provider.dpa \/ provider.kyc) => provider.registered
    /\ agent \in [Agents -> {"none", "draft", "published"}]
    /\ \A a \in Market : agent[a] # "none" => provider.registered
    /\ \A a \in Agents : agent[a] = "published" => a \in Market /\ provider.dpa /\ provider.kyc
    /\ \E p \in Projects : project = [q \in Projects |-> IF q = p THEN "complete" ELSE "none"]
    /\ hire \in [Hires -> {"none", "hired", "revoked"}]
    /\ \A h \in Hires : hire[h] # "none" => project[h[1]] = "complete" /\ Exists(h[2])
    /\ agreed \in SUBSET {h \in Hires : hire[h] # "none"}
    /\ {h \in Hires : hire[h] # "none" /\ h[2] \in Personal} \subseteq agreed
    /\ stored \in {{}} \cup {{x} : x \in {y \in Projects \X Keys : project[y[1]] = "complete"}}
    /\ audit = {}
    /\ req = {} /\ ops = 0
    /\ wizard \in [pc: {"details", "left"}, keys: {{}}, p: {Null}]
    /\ page = Null /\ shown = {h \in Hires : hire[h] # "none"} /\ faults = 0

Ask(op, p, a, k) ==
    [op |-> op, pc |-> "read", p |-> p, a |-> a, k |-> k,
     late |-> op = "use" /\ hire[<<p, a>>] # "hired"]
Send(op, p, a, k) ==
    /\ ops < MaxOps /\ ops' = ops + 1
    /\ req' = req \cup {Ask(op, p, a, k)}

-----------------------------------------------------------------------------
(* The provider's page                                                     *)

\* One mutation each; the button of a pending one is disabled.
RegisterForm ==
    ~provider.registered /\ ~Pending("register") /\ Send("register", Null, Null, Null)
DpaButton ==
    provider.registered /\ ~provider.dpa /\ ~Pending("dpa") /\ Send("dpa", Null, Null, Null)
AgentForm(a) ==
    /\ a \in Market /\ provider.registered
    /\ ~Pending("newAgent") /\ agent[a] = "none" /\ Send("newAgent", Null, a, Null)
TogglePublish(a) ==
    /\ a \in Market /\ Exists(a) /\ provider.dpa /\ provider.kyc
    /\ ~Pending("publish") /\ ~Pending("unpublish")
    /\ \E op \in {"publish", "unpublish"} : Send(op, Null, a, Null)

ProviderPage ==
    /\ RegisterForm \/ DpaButton \/ \E a \in Agents : AgentForm(a) \/ TogglePublish(a)
    /\ UNCHANGED <<account, project, staff, secrets, client, faults>>

\* The platform's staff verifies an identity in the database.
VerifyKyc ==
    /\ provider.registered /\ ~provider.kyc
    /\ provider' = [provider EXCEPT !.kyc = TRUE]
    /\ UNCHANGED <<agent, project, staff, secrets, req, client, bounds>>

-----------------------------------------------------------------------------
(* The leader's pages                                                      *)

\* The form and the bin of the leader's own agents.
PersonalForm(a) ==
    /\ a \in Personal /\ agent[a] = "none" /\ ~Pending("newAgent")
    /\ Send("newAgent", Null, a, Null)
DeleteButton(a) == Exists(a) /\ ~Pending("delete") /\ Send("delete", Null, a, Null)

\* "Add to project" of an own agent.
AddToProjectDialog(p, a) ==
    /\ a \in Personal /\ Exists(a) /\ project[p] # "none"
    /\ ~Pending("hire") /\ Send("hire", p, a, Null)

\* Settings: removing an agent, resource keys.
RemoveButton(p, a) == hire[<<p, a>>] = "hired" /\ ~Pending("remove") /\ Send("remove", p, a, Null)
KeyForm(p, k) == project[p] # "none" /\ ~Pending("newKey") /\ Send("newKey", p, Null, k)
KeyBin(p, k) == <<p, k>> \in stored /\ ~Pending("dropKey") /\ Send("dropKey", p, Null, k)

LeaderPage ==
    /\ wizard.pc = "left" /\ page = Null
    /\ \/ \E a \in Agents : PersonalForm(a) \/ DeleteButton(a)
       \/ \E p \in Projects, a \in Agents : AddToProjectDialog(p, a) \/ RemoveButton(p, a)
       \/ \E p \in Projects, k \in Keys : KeyForm(p, k) \/ KeyBin(p, k)
    /\ UNCHANGED <<account, project, staff, secrets, client, faults>>

\* The search refuses a query with a parameter its dto does not name.
SearchFields == {"search", "type", "pricingModel", "tags", "minRating", "page", "limit"}
Found(params) == IF params \subseteq SearchFields THEN {a \in Market : agent[a] = "published"} ELSE {}
Query(typed) == {"page", "limit", "type", "pricingModel"} \cup IF typed THEN {"q"} ELSE {}

\* The marketplace lists what it finds; a click opens the page of a published agent, another
\* closes it.
MarketplacePage(a) ==
    /\ wizard.pc = "left"
    /\ \/ page = Null /\ (\E typed \in BOOLEAN : a \in Found(Query(typed))) /\ page' = a
       \/ page = a /\ page' = Null
    /\ UNCHANGED <<account, project, staff, secrets, req, wizard, shown, bounds>>

\* "Confirm hire" on that page.
HireCard(p) ==
    /\ page # Null /\ project[p] # "none"
    /\ ~Pending("hire") /\ Send("hire", p, page, Null)
    /\ UNCHANGED <<account, project, staff, secrets, client, faults>>

\* The dialog reads the key from the field the service answers it in ...
DialogAnswered(r) ==
    /\ r.op = "hire" /\ r.pc = "answer" /\ r.a \in Personal
    /\ shown' = shown \cup {<<r.p, r.a>>}
    /\ req' = req \ {r}
    /\ UNCHANGED <<account, project, staff, secrets, wizard, page, bounds>>

\* ... the marketplace page from two others: its onSuccess throws and shows nothing.
HireCardAnswered(r) ==
    /\ r.op = "hire" /\ r.pc = "answer" /\ r.a \in Market
    /\ req' = req \ {r}
    /\ UNCHANGED <<account, project, staff, secrets, client, bounds>>

\* Other answers only make the page read its lists again.
Answered(r) ==
    /\ Settled(r) /\ r.op \notin {"newProject", "wizardKey"}
    /\ r.op = "hire" => r.pc = "failed"
    /\ req' = req \ {r}
    /\ UNCHANGED <<account, project, staff, secrets, client, bounds>>

-----------------------------------------------------------------------------
(* The new-project wizard                                                  *)

WizardGoes(to) ==
    /\ wizard' = [wizard EXCEPT !.pc = to]
    /\ UNCHANGED <<account, project, staff, secrets, req, page, shown, bounds>>

\* Cancel goes back in the browser's history; an empty name keeps Next disabled.
DetailsStep == wizard.pc = "details" /\ \E to \in {"agents", "left"} : WizardGoes(to)

\* Nothing can be selected (see Found); Back, Skip.
AgentsStep ==
    /\ wizard.pc = "agents"
    /\ Found({"q", "page", "limit"}) = {}
    /\ \E to \in {"details", "keys"} : WizardGoes(to)

ResourceKeysStep ==
    /\ wizard.pc = "keys"
    /\ \/ \E to \in {"agents", "review"} : WizardGoes(to)
       \/ \E k \in Keys :
            /\ wizard' = [wizard EXCEPT !.keys = IF k \in @ THEN @ \ {k} ELSE @ \cup {k}]
            /\ UNCHANGED <<account, project, staff, secrets, req, page, shown, bounds>>

\* Back, or Create project: a request for a new row.
ReviewStep ==
    /\ wizard.pc = "review"
    /\ \/ WizardGoes("keys")
       \/ \E p \in Projects :
            /\ project[p] = "none"
            /\ Send("newProject", p, Null, Null)
            /\ wizard' = [wizard EXCEPT !.pc = "creating", !.p = p]
            /\ UNCHANGED <<account, project, staff, secrets, page, shown, faults>>

\* createProject goes on with its answer: an error is shown, else the keys are sent all at once.
ProjectAnswered(r) ==
    LET asks == {Ask("wizardKey", wizard.p, Null, k) : k \in wizard.keys} IN
    /\ r.op = "newProject"
    /\ \/ /\ r.pc = "failed"
          /\ wizard' = [wizard EXCEPT !.pc = "review", !.p = Null]
          /\ req' = req \ {r}
       \/ /\ r.pc = "answer"
          /\ wizard' = [wizard EXCEPT !.pc = IF asks = {} THEN "left" ELSE "keying"]
          /\ req' = (req \ {r}) \cup asks
    /\ UNCHANGED <<account, project, staff, secrets, page, shown, bounds>>

\* Mutant: Promise.all, the first failure ends the waiting.
KeysSettledOrOneFailed ==
    /\ wizard.pc = "keying"
    /\ (\A r \in req : r.op = "wizardKey" => Settled(r))
          \/ \E r \in req : At(r, "wizardKey", "failed")
    /\ wizard' = [wizard EXCEPT !.pc = "left"]
    /\ req' = {r \in req : r.op # "wizardKey" \/ ~Settled(r)}
    /\ UNCHANGED <<account, project, staff, secrets, page, shown, bounds>>

\* Promise.allSettled: it leaves for the board when every key has been answered or has failed.
Mine == {r \in req : r.op = "wizardKey"}
KeysSettled ==
    /\ wizard.pc = "keying"
    /\ \A r \in Mine : Settled(r)
    /\ wizard' = [wizard EXCEPT !.pc = "left"]
    /\ req' = req \ Mine
    /\ UNCHANGED <<account, project, staff, secrets, page, shown, bounds>>

Wizard ==
    \/ DetailsStep \/ AgentsStep \/ ResourceKeysStep \/ ReviewStep \/ KeysSettled
    \/ \E r \in req : ProjectAnswered(r)

-----------------------------------------------------------------------------
(* The programs of hired agents and of their providers                     *)

ProviderProgram(p, a) ==
    /\ hire[<<p, a>>] # "none"
    /\ ~Pending("accept") /\ Send("accept", p, a, Null)
    /\ UNCHANGED <<account, project, staff, secrets, client, faults>>

AgentProgram(p, a, k) ==
    /\ hire[<<p, a>>] # "none"
    /\ ~Pending("use") /\ Send("use", p, a, k)
    /\ UNCHANGED <<account, project, staff, secrets, client, faults>>

-----------------------------------------------------------------------------
(* The services                                                            *)

To(r, pc) == req' = (req \ {r}) \cup {[r EXCEPT !.pc = pc]}
Check(r, ok, next) == To(r, IF ok THEN next ELSE "failed")

\* One account per user: checked first, and unique in the database.
RegisterProvider(r) ==
    /\ \/ At(r, "register", "read") /\ Check(r, ~provider.registered, "write") /\ provider' = provider
       \/ /\ At(r, "register", "write") /\ Check(r, ~provider.registered, "answer")
          /\ provider' = [provider EXCEPT !.registered = TRUE]
    /\ UNCHANGED <<agent, project, staff, secrets, client, bounds>>

\* Acceptance and active version in one transaction.
AcceptDpa(r) ==
    /\ At(r, "dpa", "read") /\ Check(r, provider.registered, "answer")
    /\ provider' = [provider EXCEPT !.dpa = provider.registered]
    /\ UNCHANGED <<agent, project, staff, secrets, client, bounds>>

SetAgent(r, from, state) ==
    LET a == r.a IN
    /\ Check(r, agent[a] \in from, "answer")
    /\ agent' = [agent EXCEPT ![a] = IF @ \in from THEN state ELSE @]
    /\ UNCHANGED <<provider, project, staff, secrets, client, bounds>>

CreateAgent(r) == At(r, "newAgent", "read") /\ r.a \in Market /\ SetAgent(r, {"none"}, "draft")
CreatePersonalAgent(r) ==
    At(r, "newAgent", "read") /\ r.a \in Personal /\ SetAgent(r, {"none"}, "draft")

\* The agent and the provider account are read, then the row is updated.
PublishAgent(r) ==
    \/ /\ At(r, "publish", "read")
       /\ Check(r, Exists(r.a) /\ provider.kyc /\ provider.dpa, "write")
       /\ UNCHANGED <<account, project, staff, secrets, client, bounds>>
    \/ At(r, "publish", "write") /\ SetAgent(r, {"draft", "published"}, "published")
UnpublishAgent(r) ==
    \/ /\ At(r, "unpublish", "read") /\ Check(r, Exists(r.a), "write")
       /\ UNCHANGED <<account, project, staff, secrets, client, bounds>>
    \/ At(r, "unpublish", "write") /\ SetAgent(r, {"draft", "published"}, "draft")

\* Hires that are not revoked are counted; then the row is deleted.
CountHires(r) ==
    /\ At(r, "delete", "read")
    /\ Check(r, Exists(r.a) /\ \A p \in Projects : hire[<<p, r.a>>] # "hired", "write")
    /\ UNCHANGED <<account, project, staff, secrets, client, bounds>>

\* The foreign key of a hire, revoked or not, restricts the deletion.
Restricted(a) == \E p \in Projects : hire[<<p, a>>] # "none"
DeleteAgent(r) ==
    /\ At(r, "delete", "write")
    /\ SetAgent(r, IF Restricted(r.a) THEN {} ELSE {"draft", "published"}, "deleted")

\* The project row, then the row of its planning agent; the dto asks for ten characters of text.
CreateProject(r) ==
    /\ \/ \E valid \in BOOLEAN :
            /\ At(r, "newProject", "read") /\ Check(r, valid, "second")
            /\ project' = [project EXCEPT ![r.p] = IF valid THEN "bare" ELSE @]
       \/ At(r, "newProject", "second") /\ To(r, "answer")
          /\ project' = [project EXCEPT ![r.p] = "complete"]
    /\ UNCHANGED <<account, staff, secrets, client, bounds>>

\* hireAgent reads the agent with its provider ...
MayHire(a) ==
    /\ Exists(a)
    /\ a \in Personal \/ (agent[a] = "published" /\ provider.dpa)
ReadForHire(r) ==
    /\ At(r, "hire", "read") /\ Check(r, MayHire(r.a), "write")
    /\ UNCHANGED <<account, project, staff, secrets, client, bounds>>

\* Mutants: the foreign key is forgotten; the hire of an own agent has its agreement created later.
CreateHireUnchecked(r) ==
    /\ At(r, "hire", "write") /\ To(r, "answer")
    /\ hire' = [hire EXCEPT ![<<r.p, r.a>>] = "hired"]
    /\ agreed' = agreed \cup IF r.a \in Personal THEN {<<r.p, r.a>>} ELSE {}
    /\ UNCHANGED <<account, project, secrets, client, bounds>>
CreateHireThenAgree(r) ==
    LET h == <<r.p, r.a>> IN
    /\ \/ At(r, "hire", "write") /\ Check(r, hire[h] = "none" /\ Exists(r.a), "second")
          /\ hire' = [hire EXCEPT ![h] = IF @ = "none" /\ Exists(r.a) THEN "hired" ELSE @]
          /\ agreed' = agreed
       \/ At(r, "hire", "second") /\ To(r, "answer")
          /\ hire' = hire /\ agreed' = agreed \cup {h}
    /\ UNCHANGED <<account, project, secrets, client, bounds>>

\* ... and creates the hire, for an own agent with its agreement in one transaction.  The pair is
\* unique and the agent must exist.
CreateHire(r) ==
    LET h == <<r.p, r.a>>
        ok == hire[h] = "none" /\ Exists(r.a) IN
    /\ At(r, "hire", "write") /\ Check(r, ok, "answer")
    /\ hire' = [hire EXCEPT ![h] = IF ok THEN "hired" ELSE @]
    /\ agreed' = agreed \cup IF ok /\ r.a \in Personal THEN {h} ELSE {}
    /\ UNCHANGED <<account, project, secrets, client, bounds>>

\* acceptAgreement: only a provider accepts for an AI agent; then look, then create (unique).
ReadForAccept(r) ==
    /\ At(r, "accept", "read") /\ Check(r, r.a \in Market, "check")
    /\ UNCHANGED <<account, project, staff, secrets, client, bounds>>
AcceptAgreement(r) ==
    LET h == <<r.p, r.a>> IN
    /\ \/ At(r, "accept", "check") /\ Check(r, h \notin agreed, "write") /\ agreed' = agreed
       \/ At(r, "accept", "write") /\ Check(r, h \notin agreed, "answer") /\ agreed' = agreed \cup {h}
    /\ UNCHANGED <<account, project, hire, secrets, client, bounds>>

RemoveAgent(r) ==
    /\ At(r, "remove", "read") /\ To(r, "answer")
    /\ hire' = [hire EXCEPT ![<<r.p, r.a>>] = "revoked"]
    /\ UNCHANGED <<account, project, agreed, secrets, client, bounds>>

\* Mutant: swapped arguments.
CreateKeySwapped(r) ==
    /\ r.op \in {"newKey", "wizardKey"} /\ r.pc = "read" /\ To(r, "answer")
    /\ stored' = stored \cup {<<r.k, r.p>>}
    /\ UNCHANGED <<account, project, staff, audit, client, bounds>>

CreateKey(r) ==
    /\ r.op \in {"newKey", "wizardKey"} /\ r.pc = "read" /\ To(r, "answer")
    /\ stored' = stored \cup {<<r.p, r.k>>}
    /\ UNCHANGED <<account, project, staff, audit, client, bounds>>
DropKey(r) ==
    /\ At(r, "dropKey", "read") /\ Check(r, <<r.p, r.k>> \in stored, "answer")
    /\ stored' = stored \ {<<r.p, r.k>>}
    /\ UNCHANGED <<account, project, staff, audit, client, bounds>>

\* The guard: the hire, then its agreement.
Guard(r) ==
    LET h == <<r.p, r.a>> IN
    /\ \/ At(r, "use", "read") /\ Check(r, hire[h] = "hired", "check")
       \/ At(r, "use", "check") /\ Check(r, h \in agreed, "second")
    /\ UNCHANGED <<account, project, staff, secrets, client, bounds>>

\* Mutant: the value is answered before the access is recorded.
GetValueUnrecorded(r) ==
    /\ At(r, "use", "second") /\ Check(r, <<r.p, r.k>> \in stored, "answer")
    /\ UNCHANGED <<account, project, staff, secrets, client, bounds>>

\* The key is read, the access recorded, the value answered.
GetValueForAgent(r) ==
    /\ \/ /\ At(r, "use", "second") /\ Check(r, <<r.p, r.k>> \in stored, "write")
          /\ audit' = audit
       \/ /\ At(r, "use", "write") /\ To(r, "answer")
          /\ audit' = audit \cup {<<r.p, r.a, r.k>>}
    /\ UNCHANGED <<account, project, staff, stored, client, bounds>>

\* A statement fails, the process restarts or the answer is lost: what was written stays.
CutOff(r) ==
    /\ faults < MaxFaults
    /\ r.pc # "failed"
    /\ To(r, "failed") /\ faults' = faults + 1
    /\ UNCHANGED <<account, project, staff, secrets, client, ops>>

Service(r) ==
    \/ RegisterProvider(r) \/ AcceptDpa(r) \/ CreateAgent(r) \/ CreatePersonalAgent(r)
    \/ PublishAgent(r) \/ UnpublishAgent(r) \/ CountHires(r) \/ DeleteAgent(r)
    \/ CreateProject(r) \/ ReadForHire(r) \/ CreateHire(r) \/ ReadForAccept(r) \/ AcceptAgreement(r)
    \/ RemoveAgent(r) \/ CreateKey(r) \/ DropKey(r) \/ Guard(r) \/ GetValueForAgent(r)

Next ==
    \/ ProviderPage \/ VerifyKyc \/ LeaderPage \/ Wizard
    \/ \E a \in Agents : MarketplacePage(a)
    \/ \E p \in Projects : HireCard(p)
    \/ \E p \in Projects, a \in Agents : ProviderProgram(p, a) \/ \E k \in Keys : AgentProgram(p, a, k)
    \/ \E r \in req :
        Service(r) \/ CutOff(r) \/ DialogAnswered(r) \/ HireCardAnswered(r) \/ Answered(r)

Spec == Init /\ [][Next]_vars

-----------------------------------------------------------------------------
(* Properties                                                              *)

TypeOK ==
    /\ provider \in [registered: BOOLEAN, dpa: BOOLEAN, kyc: BOOLEAN]
    /\ agent \in [Agents -> {"none", "draft", "published", "deleted"}]
    /\ project \in [Projects -> {"none", "bare", "complete"}]
    /\ hire \in [Hires -> {"none", "hired", "revoked"}]
    /\ agreed \subseteq Hires
    /\ stored \subseteq Projects \X Keys
    /\ audit \subseteq Projects \X Agents \X Keys
    /\ req \subseteq Request /\ Cardinality(req) <= ops + Cardinality(Keys)
    /\ ops \in 0..MaxOps
    /\ wizard \in [pc: {"details", "agents", "keys", "review", "creating", "keying", "left"},
                   keys: SUBSET Keys, p: Projects \cup {Null}]
    /\ page \in Agents \cup {Null}
    /\ shown \subseteq Hires
    /\ faults \in 0..MaxFaults

\* A hire always has its agent, though counting the hires and deleting the agent are two
\* statements and a hire can be created between them (agents.service.ts:147-156, 248-257).
HireHasAgent == \A h \in Hires : hire[h] # "none" => Exists(h[2])

\* The agreement of an own agent is there as soon as the hire is, whatever fails in between: nobody
\* could accept it later (projects.service.ts:144-170, 230-235).
PersonalIsAgreed == \A h \in Hires : h[2] \in Personal /\ hire[h] # "none" => h \in agreed

\* A value that reaches an agent's program has been recorded, its hire has an agreement, and the
\* program did not ask after it was removed (project-key.guard.ts:37-46, keys.service.ts:83-99).
AccessIsLegal ==
    \A r \in req :
        (r.op = "use" /\ r.pc = "answer") =>
            /\ <<r.p, r.a, r.k>> \in audit
            /\ <<r.p, r.a>> \in agreed
            /\ ~r.late

\* When the wizard leaves for the board of a project, the project has its planning agent and
\* nothing the wizard sent is still under way (new/page.tsx:762-816).
WizardLeavesNothing ==
    (wizard.pc = "left" /\ wizard.p # Null) =>
        project[wizard.p] = "complete" /\ Mine = {}

\* The project key is "returned once - provider/human must store this" (projects.service.ts:196):
\* a hire the page has taken the answer of has been shown.
KeysAreShown ==
    (faults = 0 /\ ~Pending("hire")) => \A h \in Hires : hire[h] # "none" => h \in shown
=============================================================================
