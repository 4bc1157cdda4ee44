------------------------------ MODULE HiringProofs ------------------------------
(***************************************************************************)
(* Every property of Hiring, for any agents, projects, keys and bounds.    *)
(*                                                                         *)
(* None is inductive.  A removal in flight must be about a hire that       *)
(* exists, for it writes "revoked" without looking; a program's request    *)
(* carries what its steps so far have established, and nothing it relies   *)
(* on is ever taken back (Grows): hires stay, revoked ones revoked,        *)
(* agreements and audit records stay.  The wizard's requests exist only    *)
(* while it waits for them, one for each key; any other request counts as  *)
(* an operation (Counted).                                                 *)
(***************************************************************************)
EXTENDS Hiring, FiniteSetTheorems, TLAPS

AgentStates == {"none", "draft", "published", "deleted"}
HireStates == {"none", "hired", "revoked"}
WizardSteps == {"details", "agents", "keys", "review", "creating", "keying", "left"}

Typed ==
    /\ agent \in [Agents -> AgentStates] /\ hire \in [Hires -> HireStates]
    /\ project \in [Projects -> {"none", "bare", "complete"}]
    /\ page \in Agents \cup {Null}
    /\ wizard \in [pc: WizardSteps, keys: SUBSET Keys, p: Projects \cup {Null}]

(* What the steps of a request so far have established. *)
Sound(r) ==
    /\ r \in Request
    /\ r.op \in {"hire", "accept", "remove", "use"} => r.p \in Projects /\ r.a \in Agents
    /\ r.op = "remove" => hire[<<r.p, r.a>>] # "none"
    /\ r.op = "use" =>
        /\ r.late => hire[<<r.p, r.a>>] = "revoked" /\ r.pc \in {"read", "failed"}
        /\ r.pc \in {"second", "write", "answer"} => <<r.p, r.a>> \in agreed
        /\ r.pc = "answer" => <<r.p, r.a, r.k>> \in audit

(* Keys are sent by a wizard that waits for them. *)
KeyWaits(r) == r.op = "wizardKey" => wizard.pc = "keying"
(* A project is created for a wizard that waits for it, and answered when it is complete. *)
ProjectWaits(r) ==
    r.op = "newProject" =>
        /\ wizard.pc = "creating" /\ r.p = wizard.p /\ r.p \in Projects
        /\ r.pc = "answer" => project[r.p] = "complete"
OneProject == \A r, q \in req : r.op = "newProject" /\ q.op = "newProject" => r = q
WizardHasProject ==
    /\ wizard.pc \in {"details", "agents", "keys", "review"} => wizard.p = Null
    /\ wizard.p # Null /\ wizard.pc \in {"keying", "left"} => project[wizard.p] = "complete"

RequestsOK == \A r \in req : Sound(r) /\ KeyWaits(r) /\ ProjectWaits(r)

IInv == Typed /\ RequestsOK /\ OneProject /\ HireHasAgent /\ PersonalIsAgreed /\ WizardHasProject

(* Nothing a request relies on is taken back. *)
Grows ==
    /\ agreed \subseteq agreed' /\ audit \subseteq audit'
    /\ \A h \in Hires : /\ hire[h] # "none" => hire'[h] # "none"
                        /\ hire[h] = "revoked" => hire'[h] = "revoked"

Same == UNCHANGED <<agent, project, hire, agreed, audit, wizard, page>>

-----------------------------------------------------------------------------
(* Requests                                                                *)

LEMMA StaysSound == ASSUME NEW r, Sound(r), Grows PROVE Sound(r)'
<1>1. r.op \in {"hire", "accept", "remove", "use"} => <<r.p, r.a>> \in Hires BY DEF Sound, Hires
<1> QED BY <1>1 DEF Sound, Grows

(* The wizard and the projects stay as they are. *)
LEMMA RequestsStay ==
  ASSUME RequestsOK, Grows, UNCHANGED <<project, wizard>>
  PROVE  \A r \in req : (Sound(r) /\ KeyWaits(r) /\ ProjectWaits(r))'
<1> SUFFICES ASSUME NEW r \in req PROVE Sound(r)' /\ KeyWaits(r)' /\ ProjectWaits(r)' OBVIOUS
<1>1. Sound(r) /\ KeyWaits(r) /\ ProjectWaits(r) BY DEF RequestsOK
<1> QED BY <1>1, StaysSound DEF KeyWaits, ProjectWaits

LEMMA SameGrows == Same => Grows
BY DEF Same, Grows

LEMMA SameOK == ASSUME IInv, Same, RequestsOK', OneProject' PROVE IInv'
BY DEF IInv, Same, Typed, HireHasAgent, PersonalIsAgreed, WizardHasProject, Exists

(* Requests that are answered go. *)
LEMMA Fewer == ASSUME IInv, Same, req' \subseteq req PROVE IInv'
<1>1. \A r \in req : (Sound(r) /\ KeyWaits(r) /\ ProjectWaits(r))'
  BY RequestsStay, SameGrows DEF IInv, Same
<1>2. RequestsOK' BY <1>1 DEF RequestsOK
<1>3. OneProject' BY DEF IInv, OneProject
<1> QED BY <1>2, <1>3, SameOK

(* A request is sent. *)
LEMMA SentOK ==
  ASSUME IInv, Same, NEW op \in Ops \ {"newProject", "wizardKey"},
         NEW p \in Projects \cup {Null}, NEW a \in Agents \cup {Null}, NEW k \in Keys \cup {Null},
         Send(op, p, a, k),
         op \in {"hire", "accept", "remove", "use"} => p \in Projects /\ a \in Agents,
         op \in {"remove", "use"} => hire[<<p, a>>] # "none"
  PROVE  IInv'
<1>1. PICK r : r = Ask(op, p, a, k) /\ req' = req \cup {r} BY DEF Send
<1>2. r \in Request BY <1>1 DEF Ask, Request, Steps
<1>3. Sound(r)
  <2>1. CASE op = "use"
    <3>1. <<p, a>> \in Hires /\ hire[<<p, a>>] \in HireStates /\ hire[<<p, a>>] # "none"
      BY <2>1 DEF Hires, IInv, Typed
    <3>2. r.late => hire[<<p, a>>] = "revoked" BY <1>1, <2>1, <3>1 DEF Ask, HireStates
    <3> QED BY <1>1, <1>2, <2>1, <3>2 DEF Sound, Ask
  <2>2. CASE op # "use" BY <1>1, <1>2, <2>2 DEF Sound, Ask
  <2> QED BY <2>1, <2>2
<1>4. KeyWaits(r) /\ ProjectWaits(r) BY <1>1 DEF Ask, KeyWaits, ProjectWaits
<1>5. Sound(r)' /\ KeyWaits(r)' /\ ProjectWaits(r)'
  BY <1>3, <1>4, StaysSound, SameGrows DEF Same, KeyWaits, ProjectWaits
<1>6. \A q \in req : (Sound(q) /\ KeyWaits(q) /\ ProjectWaits(q))'
  BY RequestsStay, SameGrows DEF IInv, Same
<1>7. RequestsOK' BY <1>1, <1>5, <1>6 DEF RequestsOK
<1>8. OneProject' BY <1>1 DEF IInv, OneProject, Ask
<1> QED BY <1>7, <1>8, SameOK

(* A request moves on, and what it relies on at its new place has been established. *)
LEMMA Moves ==
  ASSUME IInv, Grows, UNCHANGED <<project, wizard>>, NEW r \in req, NEW pc \in Steps, To(r, pc),
         r.op = "newProject" => pc # "answer",
         r.op = "use" =>
            \/ pc = "failed"
            \/ /\ ~r.late
               /\ pc \in {"second", "write", "answer"} => <<r.p, r.a>> \in agreed'
               /\ pc = "answer" => <<r.p, r.a, r.k>> \in audit'
  PROVE  RequestsOK' /\ OneProject'
<1> DEFINE q == [r EXCEPT !.pc = pc]
<1>1. req' = (req \ {r}) \cup {q} BY DEF To
<1>2. Sound(r)' /\ KeyWaits(r)' /\ ProjectWaits(r)' BY RequestsStay DEF IInv
<1>3. /\ q \in Request /\ q.pc = pc /\ q.op = r.op /\ q.p = r.p /\ q.a = r.a /\ q.k = r.k
      /\ q.late = r.late
  BY <1>2 DEF Sound, Request
<1> HIDE DEF q
<1>4. Sound(q)' BY <1>2, <1>3 DEF Sound
<1>5. KeyWaits(q)' BY <1>2, <1>3 DEF KeyWaits
<1>6. ProjectWaits(q)' BY <1>2, <1>3 DEF ProjectWaits
<1>7. \A x \in req : (Sound(x) /\ KeyWaits(x) /\ ProjectWaits(x))' BY RequestsStay DEF IInv
<1>8. RequestsOK' BY <1>1, <1>4, <1>5, <1>6, <1>7 DEF RequestsOK
<1>9. OneProject' BY <1>1, <1>3 DEF IInv, OneProject
<1> QED BY <1>8, <1>9

(* A request that is no program's, and no project's, and changes nothing else here. *)
LEMMA MovesQuietly ==
  ASSUME IInv, Same, NEW r \in req, NEW pc \in Steps, To(r, pc),
         r.op \notin {"newProject", "use"} \/ pc = "failed"
  PROVE  IInv'
<1>1. RequestsOK' /\ OneProject' BY Moves, SameGrows DEF Same
<1> QED BY <1>1, SameOK

-----------------------------------------------------------------------------
(* The pages                                                               *)

LEMMA PagesSend ==
  ASSUME IInv,
         \/ ProviderPage \/ LeaderPage \/ \E p \in Projects : HireCard(p)
         \/ \E p \in Projects, a \in Agents :
                ProviderProgram(p, a) \/ \E k \in Keys : AgentProgram(p, a, k)
  PROVE  IInv'
<1>1. Same
  BY DEF ProviderPage, LeaderPage, HireCard, ProviderProgram, AgentProgram, account, staff, secrets,
         client, Same
<1>2. {"register", "dpa", "newAgent", "publish", "unpublish", "delete", "hire", "accept", "remove",
       "newKey", "dropKey", "use"} \subseteq Ops \ {"newProject", "wizardKey"}
  BY DEF Ops
<1>3. ASSUME NEW op \in {"register", "dpa", "newAgent", "publish", "unpublish", "delete", "newKey", "dropKey"},
             NEW p \in Projects \cup {Null}, NEW a \in Agents \cup {Null}, NEW k \in Keys \cup {Null},
             Send(op, p, a, k)
      PROVE  IInv'
  BY <1>1, <1>2, <1>3, SentOK
<1>4. ASSUME NEW p \in Projects, NEW a \in Agents, Send("hire", p, a, Null) PROVE IInv'
  BY <1>1, <1>2, <1>4, SentOK
<1>5. ASSUME NEW p \in Projects, NEW a \in Agents, Send("accept", p, a, Null) PROVE IInv'
  BY <1>1, <1>2, <1>5, SentOK
<1>6. ASSUME NEW p \in Projects, NEW a \in Agents, hire[<<p, a>>] # "none", Send("remove", p, a, Null)
      PROVE  IInv'
  BY <1>1, <1>2, <1>6, SentOK
<1>7. ASSUME NEW p \in Projects, NEW a \in Agents, NEW k \in Keys, hire[<<p, a>>] # "none",
             Send("use", p, a, k)
      PROVE  IInv'
  BY <1>1, <1>2, <1>7, SentOK
<1>8. CASE ProviderPage
  BY <1>3, <1>8 DEF ProviderPage, RegisterForm, DpaButton, AgentForm, TogglePublish
<1>9. CASE LeaderPage
  BY <1>3, <1>4, <1>6, <1>9 DEF LeaderPage, PersonalForm, DeleteButton, AddToProjectDialog,
                                RemoveButton, KeyForm, KeyBin
<1>10. CASE \E p \in Projects : HireCard(p) BY <1>4, <1>10 DEF HireCard, IInv, Typed
<1>11. CASE \E p \in Projects, a \in Agents :
              ProviderProgram(p, a) \/ \E k \in Keys : AgentProgram(p, a, k)
  BY <1>5, <1>7, <1>11 DEF ProviderProgram, AgentProgram
<1> QED BY <1>8, <1>9, <1>10, <1>11

(* Answers that are taken, an identity verified, a page of the marketplace opened or closed. *)
LEMMA PagesTake ==
  ASSUME IInv,
         \/ VerifyKyc \/ \E a \in Agents : MarketplacePage(a)
         \/ \E r \in req : DialogAnswered(r) \/ HireCardAnswered(r) \/ Answered(r)
  PROVE  IInv'
<1>1. CASE VerifyKyc
  BY <1>1, Fewer DEF VerifyKyc, Same, staff, secrets, client, bounds
<1>2. CASE \E r \in req : DialogAnswered(r) \/ HireCardAnswered(r) \/ Answered(r)
  <2>1. Same /\ req' \subseteq req
    BY <1>2 DEF DialogAnswered, HireCardAnswered, Answered, Same, account, staff, secrets, client, bounds
  <2> QED BY <2>1, Fewer
<1>3. CASE \E a \in Agents : MarketplacePage(a)
  <2>1. UNCHANGED <<agent, project, hire, agreed, audit, wizard, req>> /\ page' \in Agents \cup {Null}
    BY <1>3 DEF MarketplacePage, account, staff, secrets, bounds
  <2>2. Grows BY <2>1 DEF Grows
  <2>3. RequestsOK' BY <2>1, <2>2, RequestsStay DEF IInv, RequestsOK
  <2> QED BY <2>1, <2>3 DEF IInv, Typed, OneProject, HireHasAgent, PersonalIsAgreed, WizardHasProject, Exists
<1> QED BY <1>1, <1>2, <1>3

-----------------------------------------------------------------------------
(* The wizard                                                              *)

(* It goes on; what it waits for comes with it. *)
LEMMA WizardMoves ==
  ASSUME IInv, UNCHANGED <<agent, project, hire, agreed, audit, page>>,
         wizard' \in [pc: WizardSteps, keys: SUBSET Keys, p: Projects \cup {Null}], WizardHasProject',
         OneProject',
         \A r \in req' : Sound(r) /\ KeyWaits(r)' /\ ProjectWaits(r)'
  PROVE  IInv'
<1>1. Grows BY DEF Grows
<1>2. \A r \in req' : Sound(r)' BY <1>1, StaysSound
<1>3. RequestsOK' BY <1>2 DEF RequestsOK
<1> QED BY <1>3 DEF IInv, Typed, HireHasAgent, PersonalIsAgreed, Exists

LEMMA WizardOK == ASSUME IInv, Wizard PROVE IInv'
<1>0. /\ wizard \in [pc: WizardSteps, keys: SUBSET Keys, p: Projects \cup {Null}]
      /\ \A r \in req : Sound(r) /\ KeyWaits(r) /\ ProjectWaits(r)
  BY DEF IInv, Typed, RequestsOK
<1>1. UNCHANGED <<agent, project, hire, agreed, audit, page>>
  BY DEF Wizard, DetailsStep, AgentsStep, ResourceKeysStep, ReviewStep, KeysSettled, ProjectAnswered,
         WizardGoes, account, staff, secrets, bounds
<1>2. ASSUME NEW to \in WizardSteps \ {"creating", "keying"}, WizardGoes(to),
             wizard.pc \in {"details", "agents", "keys", "review"}
      PROVE  IInv'
  <2>1. wizard' = [wizard EXCEPT !.pc = to] /\ req' = req BY <1>2 DEF WizardGoes
  <2>2. /\ wizard' \in [pc: WizardSteps, keys: SUBSET Keys, p: Projects \cup {Null}]
        /\ wizard'.p = Null /\ wizard'.pc = to
    BY <1>0, <1>2, <2>1 DEF IInv, WizardHasProject
  <2>3. WizardHasProject' BY <2>2 DEF WizardHasProject
  <2>4. \A r \in req : r.op # "newProject" /\ r.op # "wizardKey"
    BY <1>0, <1>2 DEF KeyWaits, ProjectWaits
  <2>5. \A r \in req' : Sound(r) /\ KeyWaits(r)' /\ ProjectWaits(r)'
    BY <1>0, <2>1, <2>4 DEF KeyWaits, ProjectWaits
  <2>6. OneProject' BY <2>1 DEF IInv, OneProject
  <2> QED BY <1>1, <2>2, <2>3, <2>5, <2>6, WizardMoves
<1>3. CASE DetailsStep \/ AgentsStep \/ (ResourceKeysStep /\ wizard'.keys = wizard.keys)
  <2>1. wizard.pc \in {"details", "agents", "keys"} BY <1>3 DEF DetailsStep, AgentsStep, ResourceKeysStep
  <2>2. \E to \in {"agents", "left", "details", "keys", "review"} : WizardGoes(to)
    BY <1>0, <1>3 DEF DetailsStep, AgentsStep, ResourceKeysStep
  <2> QED BY <1>2, <2>1, <2>2 DEF WizardSteps
<1>4. CASE ResourceKeysStep /\ wizard'.keys # wizard.keys
  <2>1. PICK k \in Keys : /\ wizard' = [wizard EXCEPT !.keys = IF k \in @ THEN @ \ {k} ELSE @ \cup {k}]
                          /\ req' = req
    BY <1>0, <1>4 DEF ResourceKeysStep, WizardGoes
  <2>2. /\ wizard' \in [pc: WizardSteps, keys: SUBSET Keys, p: Projects \cup {Null}]
        /\ wizard'.p = wizard.p /\ wizard'.pc = wizard.pc
    BY <1>0, <2>1
  <2>3. WizardHasProject' BY <1>1, <2>2 DEF IInv, WizardHasProject
  <2>4. \A r \in req' : Sound(r) /\ KeyWaits(r)' /\ ProjectWaits(r)'
    BY <1>0, <1>1, <2>1, <2>2 DEF KeyWaits, ProjectWaits
  <2>5. OneProject' BY <2>1 DEF IInv, OneProject
  <2> QED BY <1>1, <2>2, <2>3, <2>4, <2>5, WizardMoves
<1>5. CASE ReviewStep
  <2>0. wizard.pc = "review" BY <1>5 DEF ReviewStep
  <2>1. CASE WizardGoes("keys") BY <1>2, <2>0, <2>1 DEF WizardSteps
  <2>2. ASSUME NEW p \in Projects, Send("newProject", p, Null, Null),
               wizard' = [wizard EXCEPT !.pc = "creating", !.p = p]
        PROVE  IInv'
    <3>1. PICK r : r = Ask("newProject", p, Null, Null) /\ req' = req \cup {r} BY <2>2 DEF Send
    <3>2. /\ wizard' \in [pc: WizardSteps, keys: SUBSET Keys, p: Projects \cup {Null}]
          /\ wizard'.p = p /\ wizard'.pc = "creating"
      BY <1>0, <2>2 DEF WizardSteps
    <3>3. WizardHasProject' BY <3>2 DEF WizardHasProject
    <3>4. r \in Request /\ r.op = "newProject" /\ r.p = p /\ r.pc = "read"
      BY <3>1 DEF Ask, Request, Ops, Steps
    <3>5. Sound(r) BY <3>4 DEF Sound
    <3>6. KeyWaits(r)' /\ ProjectWaits(r)' BY <3>2, <3>4 DEF KeyWaits, ProjectWaits
    <3>7. \A q \in req : q.op # "newProject" /\ q.op # "wizardKey"
      BY <1>0, <2>0 DEF KeyWaits, ProjectWaits
    <3>8. \A q \in req' : Sound(q) /\ KeyWaits(q)' /\ ProjectWaits(q)'
      BY <1>0, <3>1, <3>5, <3>6, <3>7 DEF KeyWaits, ProjectWaits
    <3>9. OneProject' BY <3>1, <3>7 DEF OneProject
    <3> QED BY <1>1, <3>2, <3>3, <3>8, <3>9, WizardMoves
  <2> QED BY <1>5, <2>1, <2>2 DEF ReviewStep
<1>6. CASE KeysSettled
  <2>1. /\ wizard.pc = "keying" /\ wizard' = [wizard EXCEPT !.pc = "left"] /\ req' = req \ Mine
    BY <1>6 DEF KeysSettled
  <2>2. /\ wizard' \in [pc: WizardSteps, keys: SUBSET Keys, p: Projects \cup {Null}]
        /\ wizard'.p = wizard.p /\ wizard'.pc = "left"
    BY <1>0, <2>1 DEF WizardSteps
  <2>3. WizardHasProject' BY <1>1, <2>1, <2>2 DEF IInv, WizardHasProject
  <2>4. \A r \in req' : r \in req /\ r.op # "newProject" /\ r.op # "wizardKey"
    BY <1>0, <2>1 DEF KeyWaits, ProjectWaits, Mine
  <2>5. \A r \in req' : Sound(r) /\ KeyWaits(r)' /\ ProjectWaits(r)'
    BY <1>0, <2>4 DEF KeyWaits, ProjectWaits
  <2>6. OneProject' BY <2>4 DEF OneProject
  <2> QED BY <1>1, <2>2, <2>3, <2>5, <2>6, WizardMoves
<1>7. ASSUME NEW r \in req, ProjectAnswered(r) PROVE IInv'
  <2>0. r.op = "newProject" /\ wizard.pc = "creating" /\ r.p = wizard.p /\ r.p \in Projects
        /\ (r.pc = "answer" => project[r.p] = "complete")
    BY <1>0, <1>7 DEF ProjectAnswered, ProjectWaits
  <2>1. \A q \in req \ {r} : q.op # "newProject" /\ q.op # "wizardKey"
    BY <1>0, <2>0 DEF IInv, OneProject, KeyWaits
  <2>2. CASE r.pc = "failed"
    <3>1. wizard' = [wizard EXCEPT !.pc = "review", !.p = Null] /\ req' = req \ {r}
      BY <1>7, <2>2 DEF ProjectAnswered
    <3>2. /\ wizard' \in [pc: WizardSteps, keys: SUBSET Keys, p: Projects \cup {Null}]
          /\ wizard'.p = Null
      BY <1>0, <3>1 DEF WizardSteps
    <3>3. WizardHasProject' BY <3>2 DEF WizardHasProject
    <3>4. \A q \in req' : Sound(q) /\ KeyWaits(q)' /\ ProjectWaits(q)'
      BY <1>0, <2>1, <3>1 DEF KeyWaits, ProjectWaits
    <3>5. OneProject' BY <2>1, <3>1 DEF OneProject
    <3> QED BY <1>1, <3>2, <3>3, <3>4, <3>5, WizardMoves
  <2>3. CASE r.pc = "answer"
    <3>1. PICK asks :
            /\ asks = {Ask("wizardKey", wizard.p, Null, k) : k \in wizard.keys}
            /\ wizard' = [wizard EXCEPT !.pc = IF asks = {} THEN "left" ELSE "keying"]
            /\ req' = (req \ {r}) \cup asks
      BY <1>7, <2>3 DEF ProjectAnswered
    <3>2. /\ wizard' \in [pc: WizardSteps, keys: SUBSET Keys, p: Projects \cup {Null}]
          /\ wizard'.p = wizard.p /\ wizard'.pc = IF asks = {} THEN "left" ELSE "keying"
      BY <1>0, <3>1 DEF WizardSteps
    <3>3. WizardHasProject' BY <1>1, <2>0, <2>3, <3>2 DEF WizardHasProject
    <3>4. \A q \in asks : q.op = "wizardKey" /\ Sound(q)
      <4>1. ASSUME NEW k \in wizard.keys
            PROVE  LET q == Ask("wizardKey", wizard.p, Null, k) IN q.op = "wizardKey" /\ Sound(q)
        <5>1. k \in Keys /\ wizard.p \in Projects BY <1>0, <2>0
        <5> QED BY <5>1 DEF Ask, Sound, Request, Ops, Steps
      <4> QED BY <3>1, <4>1
    <3>5. \A q \in req' : Sound(q) /\ KeyWaits(q)' /\ ProjectWaits(q)'
      BY <1>0, <2>1, <3>1, <3>2, <3>4 DEF KeyWaits, ProjectWaits
    <3>6. OneProject' BY <2>1, <3>1, <3>4 DEF OneProject
    <3> QED BY <1>1, <3>2, <3>3, <3>5, <3>6, WizardMoves
  <2> QED BY <1>7, <2>2, <2>3 DEF ProjectAnswered
<1> QED BY <1>3, <1>4, <1>5, <1>6, <1>7 DEF Wizard

-----------------------------------------------------------------------------
(* The services                                                            *)

LEMMA RequestFacts ==
  ASSUME IInv, NEW r \in req
  PROVE  /\ Sound(r) /\ KeyWaits(r) /\ ProjectWaits(r) /\ r \in Request
         /\ r.op \in {"hire", "accept", "remove", "use"} =>
                <<r.p, r.a>> \in Hires /\ hire[<<r.p, r.a>>] \in HireStates
BY DEF IInv, Typed, RequestsOK, Sound, Hires

(* Steps that only read, and those that write what these invariants do not look at. *)
LEMMA QuietOK ==
  ASSUME IInv, NEW r \in req,
         \/ RegisterProvider(r) \/ AcceptDpa(r) \/ CountHires(r) \/ ReadForHire(r) \/ ReadForAccept(r)
         \/ CreateKey(r) \/ DropKey(r) \/ CutOff(r)
         \/ (PublishAgent(r) \/ UnpublishAgent(r) \/ AcceptAgreement(r)) /\ Same
  PROVE  IInv'
<1>1. Same
  BY DEF RegisterProvider, AcceptDpa, CountHires, ReadForHire, ReadForAccept, CreateKey, DropKey, CutOff,
         account, staff, secrets, client, bounds, Same
<1>2. /\ \E pc \in {"write", "answer", "failed", "check"} : To(r, pc)
      /\ r.op \notin {"newProject", "use"} \/ To(r, "failed")
  BY DEF RegisterProvider, AcceptDpa, CountHires, ReadForHire, ReadForAccept, CreateKey, DropKey, CutOff,
         PublishAgent, UnpublishAgent, AcceptAgreement, SetAgent, Check, At
<1> QED BY <1>1, <1>2, MovesQuietly DEF Steps

(* The agent's row changes, and no hire loses its agent. *)
LEMMA AgentStep ==
  ASSUME IInv, NEW r \in req, NEW from, NEW state \in AgentStates, SetAgent(r, from, state),
         r.op \notin {"newProject", "use"},
         \A h \in Hires : hire[h] # "none" /\ h[2] = r.a /\ agent[r.a] \in from =>
                            state \in {"draft", "published"}
  PROVE  IInv'
<1>1. /\ To(r, "answer") \/ To(r, "failed")
      /\ agent' = [agent EXCEPT ![r.a] = IF agent[r.a] \in from THEN state ELSE agent[r.a]]
      /\ UNCHANGED <<project, hire, agreed, audit, wizard, page>>
  BY DEF SetAgent, Check, staff, secrets, client, bounds
<1>2. Grows BY <1>1 DEF Grows
<1>3. RequestsOK' /\ OneProject' BY <1>1, <1>2, Moves DEF Steps
<1>4. agent' \in [Agents -> AgentStates] BY <1>1 DEF IInv, Typed
<1>5. HireHasAgent'
  <2> SUFFICES ASSUME NEW h \in Hires, hire[h] # "none" PROVE agent'[h[2]] \in {"draft", "published"}
    BY <1>1 DEF HireHasAgent, Exists
  <2>1. agent[h[2]] \in {"draft", "published"} /\ h[2] \in Agents BY DEF IInv, HireHasAgent, Exists, Hires
  <2> QED BY <1>1, <2>1 DEF IInv, Typed
<1> QED BY <1>1, <1>3, <1>4, <1>5 DEF IInv, Typed, PersonalIsAgreed, WizardHasProject

LEMMA AgentsOK ==
  ASSUME IInv, NEW r \in req,
         \/ CreateAgent(r) \/ CreatePersonalAgent(r) \/ PublishAgent(r) \/ UnpublishAgent(r) \/ DeleteAgent(r)
  PROVE  IInv'
<1>1. {"draft", "published", "deleted"} \subseteq AgentStates BY DEF AgentStates
<1>2. CASE CreateAgent(r) \/ CreatePersonalAgent(r)
  BY <1>1, <1>2, AgentStep DEF CreateAgent, CreatePersonalAgent, At
<1>3. CASE PublishAgent(r)
  <2>1. CASE Same BY <1>3, <2>1, QuietOK
  <2>2. CASE r.op = "publish" /\ SetAgent(r, {"draft", "published"}, "published") BY <1>1, <2>2, AgentStep
  <2> QED BY <1>3, <2>1, <2>2 DEF PublishAgent, At, account, staff, secrets, client, bounds, Same
<1>4. CASE UnpublishAgent(r)
  <2>1. CASE Same BY <1>4, <2>1, QuietOK
  <2>2. CASE r.op = "unpublish" /\ SetAgent(r, {"draft", "published"}, "draft") BY <1>1, <2>2, AgentStep
  <2> QED BY <1>4, <2>1, <2>2 DEF UnpublishAgent, At, account, staff, secrets, client, bounds, Same
<1>5. CASE DeleteAgent(r)
  <2>1. r.op = "delete" /\ SetAgent(r, IF Restricted(r.a) THEN {} ELSE {"draft", "published"}, "deleted")
    BY <1>5 DEF DeleteAgent, At
  <2>2. ASSUME NEW h \in Hires, hire[h] # "none", h[2] = r.a PROVE Restricted(r.a)
    <3>1. PICK p \in Projects, a \in Agents : h = <<p, a>> BY DEF Hires
    <3> QED BY <2>2, <3>1 DEF Restricted
  <2> QED BY <1>1, <2>1, <2>2, AgentStep
<1> QED BY <1>2, <1>3, <1>4, <1>5

LEMMA ProjectOK == ASSUME IInv, NEW r \in req, CreateProject(r) PROVE IInv'
<1>1. /\ r.op = "newProject" /\ UNCHANGED <<agent, hire, agreed, audit, wizard, page>>
      /\ \/ (To(r, "second") \/ To(r, "failed"))
            /\ \E to \in {"bare", project[r.p]} : project' = [project EXCEPT ![r.p] = to]
         \/ To(r, "answer") /\ project' = [project EXCEPT ![r.p] = "complete"]
  BY DEF CreateProject, At, Check, account, staff, secrets, client, bounds
<1>2. wizard.pc = "creating" /\ r.p = wizard.p /\ r.p \in Projects
  BY <1>1, RequestFacts DEF ProjectWaits
<1>3. project' \in [Projects -> {"none", "bare", "complete"}] BY <1>1, <1>2 DEF IInv, Typed
<1>4. WizardHasProject' BY <1>1, <1>2 DEF WizardHasProject
<1>5. \A x \in req : Sound(x)'
  <2>1. Grows BY <1>1 DEF Grows
  <2> QED BY <2>1, StaysSound, RequestFacts
<1>6. \A x \in req \ {r} : KeyWaits(x)' /\ ProjectWaits(x)'
  BY <1>1, RequestFacts DEF IInv, OneProject, KeyWaits, ProjectWaits
<1>7. PICK pc \in Steps : /\ req' = (req \ {r}) \cup {[r EXCEPT !.pc = pc]}
                          /\ pc = "answer" => project'[r.p] = "complete"
  BY <1>1, <1>2 DEF To, Steps, IInv, Typed
<1> DEFINE q == [r EXCEPT !.pc = pc]
<1>8. q \in Request /\ q.op = "newProject" /\ q.p = r.p /\ q.pc = pc BY <1>1, RequestFacts DEF Request
<1> HIDE DEF q
<1>9. Sound(q)' /\ KeyWaits(q)' /\ ProjectWaits(q)'
  BY <1>1, <1>2, <1>7, <1>8 DEF Sound, KeyWaits, ProjectWaits
<1>10. RequestsOK' BY <1>5, <1>6, <1>7, <1>9 DEF RequestsOK, q
<1>11. OneProject' BY <1>1, <1>7, <1>8 DEF IInv, OneProject, q
<1> QED BY <1>1, <1>3, <1>4, <1>10, <1>11 DEF IInv, Typed, HireHasAgent, PersonalIsAgreed, Exists

(* Hires and agreements change. *)
LEMMA StaffStep ==
  ASSUME IInv, NEW r \in req, r.op \notin {"newProject", "use"}, NEW pc \in Steps, To(r, pc), Grows,
         UNCHANGED <<agent, project, audit, wizard, page>>,
         hire' \in [Hires -> HireStates], HireHasAgent', PersonalIsAgreed'
  PROVE  IInv'
<1>1. RequestsOK' /\ OneProject' BY Moves
<1> QED BY <1>1 DEF IInv, Typed, WizardHasProject

LEMMA StaffOK ==
  ASSUME IInv, NEW r \in req, CreateHire(r) \/ AcceptAgreement(r) \/ RemoveAgent(r) PROVE IInv'
<1>1. {"answer", "failed", "write"} \subseteq Steps BY DEF Steps
<1>2. hire \in [Hires -> HireStates] BY DEF IInv, Typed
<1> DEFINE h == <<r.p, r.a>>
<1>3. CASE CreateHire(r)
  <2> DEFINE ok == hire[h] = "none" /\ Exists(r.a)
  <2>1. /\ r.op = "hire" /\ (To(r, "answer") \/ To(r, "failed"))
        /\ hire' = [hire EXCEPT ![h] = IF ok THEN "hired" ELSE hire[h]]
        /\ agreed' = agreed \cup IF ok /\ r.a \in Personal THEN {h} ELSE {}
        /\ UNCHANGED <<agent, project, audit, wizard, page>>
    BY <1>3 DEF CreateHire, At, Check, account, secrets, client, bounds
  <2>2. h \in Hires /\ h[2] = r.a BY <2>1, RequestFacts
  <2> HIDE DEF h
  <2>3. Grows BY <1>2, <2>1, <2>2 DEF Grows
  <2>4. hire' \in [Hires -> HireStates] BY <1>2, <2>1, <2>2 DEF HireStates
  <2>5. HireHasAgent' BY <1>2, <2>1, <2>2 DEF IInv, HireHasAgent, Exists
  <2>6. PersonalIsAgreed' BY <1>2, <2>1, <2>2 DEF IInv, PersonalIsAgreed
  <2> QED BY <1>1, <2>1, <2>3, <2>4, <2>5, <2>6, StaffStep
<1>4. CASE AcceptAgreement(r)
  <2>1. /\ r.op = "accept" /\ (To(r, "write") \/ To(r, "answer") \/ To(r, "failed"))
        /\ agreed \subseteq agreed' /\ UNCHANGED <<agent, project, hire, audit, wizard, page>>
    BY <1>4 DEF AcceptAgreement, At, Check, account, secrets, client, bounds
  <2>2. Grows BY <2>1 DEF Grows
  <2>3. HireHasAgent' /\ PersonalIsAgreed' BY <2>1 DEF IInv, HireHasAgent, PersonalIsAgreed, Exists
  <2> QED BY <1>1, <1>2, <2>1, <2>2, <2>3, StaffStep
<1>5. CASE RemoveAgent(r)
  <2>1. /\ r.op = "remove" /\ To(r, "answer") /\ hire' = [hire EXCEPT ![h] = "revoked"]
        /\ UNCHANGED <<agent, project, agreed, audit, wizard, page>>
    BY <1>5 DEF RemoveAgent, At, account, secrets, client, bounds
  <2>2. h \in Hires /\ hire[h] # "none" BY <2>1, RequestFacts DEF Sound
  <2> HIDE DEF h
  <2>3. Grows BY <1>2, <2>1, <2>2 DEF Grows
  <2>4. hire' \in [Hires -> HireStates] BY <1>2, <2>1, <2>2 DEF HireStates
  <2>5. HireHasAgent' BY <1>2, <2>1, <2>2 DEF IInv, HireHasAgent, Exists
  <2>6. PersonalIsAgreed' BY <1>2, <2>1, <2>2 DEF IInv, PersonalIsAgreed
  <2> QED BY <1>1, <2>1, <2>3, <2>4, <2>5, <2>6, StaffStep
<1> QED BY <1>3, <1>4, <1>5

(* The guard and the access: each step adds what the next one relies on. *)
LEMMA ProgramsOK == ASSUME IInv, NEW r \in req, Guard(r) \/ GetValueForAgent(r) PROVE IInv'
<1>1. {"check", "second", "write", "answer", "failed"} \subseteq Steps BY DEF Steps
<1>2. r.op = "use" /\ UNCHANGED <<agent, project, hire, agreed, wizard, page>> /\ audit \subseteq audit'
  BY DEF Guard, GetValueForAgent, At, account, staff, secrets, client, bounds
<1>3. Grows BY <1>2 DEF Grows
<1>4. /\ r.late => hire[<<r.p, r.a>>] = "revoked" /\ r.pc \in {"read", "failed"}
      /\ r.pc \in {"second", "write", "answer"} => <<r.p, r.a>> \in agreed
  BY <1>2, RequestFacts DEF Sound
<1>5. \/ To(r, "failed")
      \/ To(r, "check") /\ hire[<<r.p, r.a>>] = "hired"
      \/ To(r, "second") /\ r.pc = "check" /\ <<r.p, r.a>> \in agreed
      \/ To(r, "write") /\ r.pc = "second"
      \/ To(r, "answer") /\ r.pc = "write" /\ <<r.p, r.a, r.k>> \in audit'
  BY DEF Guard, GetValueForAgent, At, Check
<1>6. RequestsOK' /\ OneProject'
  <2>1. CASE To(r, "failed") BY <1>1, <1>2, <1>3, <2>1, Moves
  <2>2. CASE To(r, "check") /\ hire[<<r.p, r.a>>] = "hired" BY <1>1, <1>2, <1>3, <1>4, <2>2, Moves
  <2>3. CASE To(r, "second") /\ r.pc = "check" /\ <<r.p, r.a>> \in agreed
    BY <1>1, <1>2, <1>3, <1>4, <2>3, Moves
  <2>4. CASE To(r, "write") /\ r.pc = "second" BY <1>1, <1>2, <1>3, <1>4, <2>4, Moves
  <2>5. CASE To(r, "answer") /\ r.pc = "write" /\ <<r.p, r.a, r.k>> \in audit'
    BY <1>1, <1>2, <1>3, <1>4, <2>5, Moves
  <2> QED BY <1>5, <2>1, <2>2, <2>3, <2>4, <2>5
<1> QED
  BY <1>2, <1>6 DEF IInv, Typed, HireHasAgent, PersonalIsAgreed, WizardHasProject, Exists

-----------------------------------------------------------------------------
(* The invariant                                                           *)

LEMMA InitOK == Init => IInv
<1> SUFFICES ASSUME Init PROVE IInv OBVIOUS
<1>1. Typed BY DEF Init, Typed, AgentStates, HireStates, WizardSteps
<1>2. RequestsOK /\ OneProject BY DEF Init, RequestsOK, OneProject
<1>3. HireHasAgent BY DEF Init, HireHasAgent
<1>4. PersonalIsAgreed BY DEF Init, PersonalIsAgreed
<1>5. WizardHasProject BY DEF Init, WizardHasProject
<1> QED BY <1>1, <1>2, <1>3, <1>4, <1>5 DEF IInv

LEMMA StepOK == IInv /\ [Next]_vars => IInv'
<1> SUFFICES ASSUME IInv, [Next]_vars PROVE IInv' OBVIOUS
<1>1. CASE Wizard BY <1>1, WizardOK
<1>2. ASSUME NEW r \in req, Service(r) PROVE IInv'
  BY <1>2, QuietOK, AgentsOK, ProjectOK, StaffOK, ProgramsOK DEF Service
<1>3. ASSUME NEW r \in req, CutOff(r) PROVE IInv' BY <1>3, QuietOK
<1>4. CASE UNCHANGED vars
  BY <1>4, Fewer DEF vars, Same
<1> QED BY <1>1, <1>2, <1>3, <1>4, PagesSend, PagesTake DEF Next

LEMMA Always == Spec => []IInv
BY InitOK, StepOK, PTL DEF Spec

(* However many hires and deletions are in flight, a hire always has its agent
   (agents.service.ts:147-156, 248-257). *)
THEOREM HiresHaveAgents == Spec => []HireHasAgent
<1>1. IInv => HireHasAgent BY DEF IInv
<1> QED BY <1>1, Always, PTL

(* The agreement of an own agent is there as soon as the hire is, wherever a request is cut off
   (projects.service.ts:144-170, 230-235). *)
THEOREM PersonalAgentsAgree == Spec => []PersonalIsAgreed
<1>1. IInv => PersonalIsAgreed BY DEF IInv
<1> QED BY <1>1, Always, PTL

(* A value that reaches a program was recorded, under an agreement, and asked for before the hire was
   revoked, for any number of programs (project-key.guard.ts:37-46, keys.service.ts:83-99). *)
THEOREM AccessesAreLegal == Spec => []AccessIsLegal
<1>1. IInv => AccessIsLegal BY DEF IInv, RequestsOK, Sound, AccessIsLegal
<1> QED BY <1>1, Always, PTL

(* When the wizard leaves, its project is complete and none of its keys is under way, however many
   there were (new/page.tsx:762-816). *)
THEOREM WizardIsDone == Spec => []WizardLeavesNothing
<1>1. IInv => WizardLeavesNothing
  BY DEF IInv, RequestsOK, KeyWaits, WizardHasProject, WizardLeavesNothing, Mine
<1> QED BY <1>1, Always, PTL

-----------------------------------------------------------------------------
(* Types                                                                   *)

Rest ==
    /\ provider \in [registered: BOOLEAN, dpa: BOOLEAN, kyc: BOOLEAN]
    /\ agreed \subseteq Hires /\ shown \subseteq Hires
    /\ stored \subseteq Projects \X Keys
    /\ audit \subseteq Projects \X Agents \X Keys
    /\ ops \in 0..MaxOps /\ faults \in 0..MaxFaults

KeyKnown(r) ==
    /\ r.op \in {"newKey", "wizardKey"} => r.p \in Projects /\ r.k \in Keys
    /\ r.op = "use" => r.k \in Keys

(* There are as many requests as were sent, but for the wizard's: one for each of its keys. *)
Others == req \ Mine
Counted ==
    /\ IsFiniteSet(req) /\ Cardinality(Others) <= ops
    /\ \A r, q \in Mine : r.k = q.k => r = q

KeysOK == Counted /\ \A r \in req : KeyKnown(r)

TInv == Rest /\ KeysOK

LEMMA EnoughIsSent == ASSUME IInv, TInv PROVE Cardinality(req) <= ops + Cardinality(Keys)
<1> DEFINE key == [r \in Mine |-> r.k]
<1>1. IsFiniteSet(req) /\ Mine \in SUBSET req /\ Others \in SUBSET req BY DEF TInv, KeysOK, Counted, Mine, Others
<1>2. IsFiniteSet(Mine) /\ IsFiniteSet(Others) BY <1>1, FS_Subset
<1>3. key \in Injection(Mine, Keys)
  <2>1. key \in [Mine -> Keys] BY DEF TInv, KeysOK, KeyKnown, Mine
  <2>2. \A r, q \in Mine : key[r] = key[q] => r = q BY DEF TInv, KeysOK, Counted
  <2> QED BY <2>1, <2>2 DEF Injection, IsInjective
<1> HIDE DEF key
<1>4. Cardinality(Mine) <= Cardinality(Keys) BY <1>3, KeysAssumption, FS_Injection
<1>5. Others \cup Mine = req /\ Others \cap Mine = {} BY <1>1 DEF Others
<1>6. Cardinality(Others \cup Mine) = Cardinality(Others) + Cardinality(Mine) - Cardinality(Others \cap Mine)
  BY <1>2, FS_Union
<1>7. /\ Cardinality(Mine) \in Nat /\ Cardinality(Others) \in Nat /\ Cardinality(Keys) \in Nat
      /\ Cardinality({}) = 0 /\ Cardinality(Others) <= ops /\ ops \in Nat
  BY <1>2, KeysAssumption, FS_CardinalityType, FS_EmptySet DEF TInv, KeysOK, Counted, Rest
<1> QED BY <1>4, <1>5, <1>6, <1>7

(* A request is sent ... *)
LEMMA KeysSent ==
  ASSUME TInv, NEW op \in Ops \ {"wizardKey"}, NEW p, NEW a, NEW k, Send(op, p, a, k),
         op = "newKey" => p \in Projects /\ k \in Keys, op = "use" => k \in Keys
  PROVE  KeysOK' /\ ops' \in 0..MaxOps
<1>1. PICK r : r = Ask(op, p, a, k) /\ req' = req \cup {r} BY DEF Send
<1>2. r.op = op /\ r.p = p /\ r.k = k BY <1>1 DEF Ask
<1>3. ops' = ops + 1 /\ ops' \in 0..MaxOps BY BoundAssumption DEF Send, TInv, Rest
<1>4. Mine' = Mine /\ Others' = Others \cup {r} BY <1>1, <1>2 DEF Mine, Others
<1>5. IsFiniteSet(req) /\ Others \in SUBSET req BY DEF TInv, KeysOK, Counted, Others
<1>6. IsFiniteSet(Others) /\ Cardinality(Others) \in Nat /\ Cardinality(Others) <= ops /\ ops \in Nat
  BY <1>5, FS_Subset, FS_CardinalityType DEF TInv, KeysOK, Counted, Rest
<1>7. Cardinality(Others \cup {r}) = IF r \in Others THEN Cardinality(Others) ELSE Cardinality(Others) + 1
  BY <1>6, FS_AddElement, Zenon
<1>8. Cardinality(Others') <= ops' BY <1>3, <1>4, <1>6, <1>7
<1>9. IsFiniteSet(req') BY <1>1, <1>5, FS_AddElement
<1>10. \A q, x \in Mine' : q.k = x.k => q = x BY <1>4 DEF TInv, KeysOK, Counted
<1>11. KeyKnown(r) BY <1>2 DEF KeyKnown
<1>12. \A q \in req' : KeyKnown(q) BY <1>1, <1>11 DEF TInv, KeysOK
<1> QED BY <1>3, <1>8, <1>9, <1>10, <1>12 DEF KeysOK, Counted

(* ... or taken ... *)
LEMMA KeysTaken == ASSUME TInv, req' \subseteq req, ops' = ops PROVE KeysOK'
<1>1. IsFiniteSet(req) /\ req' \in SUBSET req /\ Others \in SUBSET req BY DEF TInv, KeysOK, Counted, Others
<1>2. IsFiniteSet(req') /\ IsFiniteSet(Others) BY <1>1, FS_Subset
<1>3. Mine' \subseteq Mine /\ Others' \in SUBSET Others BY <1>1 DEF Mine, Others
<1>4. Cardinality(Others') <= Cardinality(Others) /\ IsFiniteSet(Others') BY <1>2, <1>3, FS_Subset
<1>5. Cardinality(Others') \in Nat /\ Cardinality(Others) \in Nat BY <1>2, <1>4, FS_CardinalityType
<1>6. Cardinality(Others) <= ops /\ ops \in Nat BY DEF TInv, KeysOK, Counted, Rest
<1>7. Cardinality(Others') <= ops' BY <1>4, <1>5, <1>6
<1> QED BY <1>1, <1>2, <1>3, <1>7 DEF TInv, KeysOK, Counted

(* ... or moves on. *)
LEMMA KeysMoved == ASSUME IInv, TInv, NEW r \in req, NEW pc, To(r, pc), ops' = ops PROVE KeysOK'
<1>1. PICK q : q = [r EXCEPT !.pc = pc] /\ req' = (req \ {r}) \cup {q} BY DEF To
<1>2. q.op = r.op /\ q.p = r.p /\ q.k = r.k BY <1>1, RequestFacts DEF Request
<1>3. IsFiniteSet(req) /\ Others \in SUBSET req BY DEF TInv, KeysOK, Counted, Others
<1>4. IsFiniteSet(req') BY <1>1, <1>3, FS_RemoveElement, FS_AddElement
<1>5. \A x \in req' : KeyKnown(x) BY <1>1, <1>2 DEF TInv, KeysOK, KeyKnown
<1>6. IsFiniteSet(Others) /\ Cardinality(Others) \in Nat /\ Cardinality(Others) <= ops /\ ops \in Nat
  BY <1>3, FS_Subset, FS_CardinalityType DEF TInv, KeysOK, Counted, Rest
<1>7. CASE r.op = "wizardKey"
  <2>1. Others' = Others /\ Mine' = (Mine \ {r}) \cup {q} /\ r \in Mine BY <1>1, <1>2, <1>7 DEF Others, Mine
  <2>2. \A x, y \in Mine' : x.k = y.k => x = y BY <1>2, <2>1 DEF TInv, KeysOK, Counted
  <2> QED BY <1>4, <1>5, <1>6, <2>1, <2>2 DEF KeysOK, Counted
<1>8. CASE r.op # "wizardKey"
  <2>1. Others' = (Others \ {r}) \cup {q} /\ Mine' = Mine /\ r \in Others BY <1>1, <1>2, <1>8 DEF Others, Mine
  <2>2. PICK S : S = Others \ {r} OBVIOUS
  <2>3. IsFiniteSet(S) /\ Cardinality(S) = Cardinality(Others) - 1 BY <1>6, <2>1, <2>2, FS_RemoveElement
  <2>4. Cardinality(S) \in Nat BY <2>3, FS_CardinalityType
  <2>5. Cardinality(S \cup {q}) = IF q \in S THEN Cardinality(S) ELSE Cardinality(S) + 1
    BY <2>3, FS_AddElement, Zenon
  <2>6. Cardinality(Others') <= ops BY <1>6, <2>1, <2>2, <2>3, <2>4, <2>5
  <2>7. \A x, y \in Mine' : x.k = y.k => x = y BY <2>1 DEF TInv, KeysOK, Counted
  <2> QED BY <1>4, <1>5, <2>6, <2>7 DEF KeysOK, Counted
<1> QED BY <1>7, <1>8

LEMMA RestStays ==
  ASSUME TInv, UNCHANGED <<provider, agreed, stored, audit, shown>>, ops' \in 0..MaxOps, faults' = faults
  PROVE  Rest'
BY DEF TInv, Rest

LEMMA TypesInit == Init => TInv
<1> SUFFICES ASSUME Init PROVE TInv OBVIOUS
<1>1. req = {} /\ ops = 0 /\ faults = 0 /\ audit = {} BY DEF Init
<1>2. Mine = {} /\ Others = {} BY <1>1 DEF Mine, Others
<1>3. KeysOK BY <1>1, <1>2, FS_EmptySet DEF KeysOK, Counted
<1>4. 0 \in 0..MaxOps /\ 0 \in 0..MaxFaults BY BoundAssumption
<1>5. stored \subseteq Projects \X Keys
  <2>1. stored \in {{}} \cup {{x} : x \in {y \in Projects \X Keys : project[y[1]] = "complete"}} BY DEF Init
  <2>2. CASE stored = {} BY <2>2
  <2>3. CASE \E x \in Projects \X Keys : stored = {x} BY <2>3
  <2> QED BY <2>1, <2>2, <2>3
<1>6. provider \in [registered: BOOLEAN, dpa: BOOLEAN, kyc: BOOLEAN] BY DEF Init
<1>7. agreed \subseteq Hires /\ shown \subseteq Hires BY DEF Init
<1>8. Rest BY <1>1, <1>4, <1>5, <1>6, <1>7 DEF Rest
<1> QED BY <1>3, <1>8 DEF TInv

LEMMA TypesSend ==
  ASSUME IInv, TInv,
         \/ ProviderPage \/ LeaderPage \/ \E p \in Projects : HireCard(p)
         \/ \E p \in Projects, a \in Agents :
                ProviderProgram(p, a) \/ \E k \in Keys : AgentProgram(p, a, k)
  PROVE  TInv'
<1>1. UNCHANGED <<provider, agreed, stored, audit, shown>> /\ faults' = faults
  BY DEF ProviderPage, LeaderPage, HireCard, ProviderProgram, AgentProgram, account, staff, secrets, client
<1>2. {"register", "dpa", "newAgent", "publish", "unpublish", "delete", "hire", "accept", "remove",
       "newKey", "dropKey", "use"} \subseteq Ops \ {"wizardKey"}
  BY DEF Ops
<1>3. ASSUME NEW op \in {"register", "dpa", "newAgent", "publish", "unpublish", "delete", "hire", "accept",
                         "remove", "dropKey"},
             NEW p, NEW a, NEW k, Send(op, p, a, k)
      PROVE  TInv'
  <2>1. KeysOK' /\ ops' \in 0..MaxOps BY <1>2, <1>3, KeysSent
  <2> QED BY <1>1, <2>1, RestStays DEF TInv
<1>4. ASSUME NEW op \in {"newKey", "use"}, NEW p \in Projects, NEW a, NEW k \in Keys, Send(op, p, a, k)
      PROVE  TInv'
  <2>1. KeysOK' /\ ops' \in 0..MaxOps BY <1>2, <1>4, KeysSent
  <2> QED BY <1>1, <2>1, RestStays DEF TInv
<1>5. CASE ProviderPage
  BY <1>3, <1>5 DEF ProviderPage, RegisterForm, DpaButton, AgentForm, TogglePublish
<1>6. CASE LeaderPage
  BY <1>3, <1>4, <1>6 DEF LeaderPage, PersonalForm, DeleteButton, AddToProjectDialog, RemoveButton, KeyForm, KeyBin
<1>7. CASE \E p \in Projects : HireCard(p) BY <1>3, <1>7 DEF HireCard
<1>8. CASE \E p \in Projects, a \in Agents : ProviderProgram(p, a) \/ \E k \in Keys : AgentProgram(p, a, k)
  BY <1>3, <1>4, <1>8 DEF ProviderProgram, AgentProgram
<1> QED BY <1>5, <1>6, <1>7, <1>8

LEMMA TypesTake ==
  ASSUME IInv, TInv,
         \/ VerifyKyc \/ \E a \in Agents : MarketplacePage(a)
         \/ \E r \in req : DialogAnswered(r) \/ HireCardAnswered(r) \/ Answered(r)
  PROVE  TInv'
<1>0. ops' = ops /\ ops \in 0..MaxOps /\ faults' = faults /\ req' \subseteq req
  BY DEF VerifyKyc, MarketplacePage, DialogAnswered, HireCardAnswered, Answered, bounds, TInv, Rest
<1>1. KeysOK' BY <1>0, KeysTaken
<1>2. UNCHANGED <<agreed, stored, audit>>
  BY DEF VerifyKyc, MarketplacePage, DialogAnswered, HireCardAnswered, Answered, staff, secrets
<1>3. CASE VerifyKyc
  <2>1. shown' = shown BY <1>3 DEF VerifyKyc, client
  <2>2. provider' \in [registered: BOOLEAN, dpa: BOOLEAN, kyc: BOOLEAN] BY <1>3 DEF VerifyKyc, TInv, Rest
  <2> QED BY <1>0, <1>1, <1>2, <2>1, <2>2 DEF TInv, Rest
<1>4. CASE \E r \in req : DialogAnswered(r)
  <2>1. PICK r \in req : r.op = "hire" /\ shown' = shown \cup {<<r.p, r.a>>} /\ provider' = provider
    BY <1>4 DEF DialogAnswered, account
  <2>2. <<r.p, r.a>> \in Hires BY <2>1, RequestFacts
  <2>3. shown' \subseteq Hires BY <2>1, <2>2 DEF TInv, Rest
  <2> QED BY <1>0, <1>1, <1>2, <2>1, <2>3 DEF TInv, Rest
<1>5. CASE \/ \E a \in Agents : MarketplacePage(a)
           \/ \E r \in req : HireCardAnswered(r) \/ Answered(r)
  <2>1. UNCHANGED <<provider, shown>> BY <1>5 DEF MarketplacePage, HireCardAnswered, Answered, account, client
  <2> QED BY <1>0, <1>1, <1>2, <2>1, RestStays DEF TInv
<1> QED BY <1>3, <1>4, <1>5

LEMMA TypesWizard == ASSUME IInv, TInv, Wizard PROVE TInv'
<1>1. UNCHANGED <<provider, agreed, stored, audit, shown, faults>>
  BY DEF Wizard, DetailsStep, AgentsStep, ResourceKeysStep, ReviewStep, KeysSettled, ProjectAnswered,
         WizardGoes, account, staff, secrets, bounds
<1>2. SUFFICES KeysOK' /\ ops' \in 0..MaxOps BY <1>1, RestStays DEF TInv
<1>3. ASSUME req' \subseteq req, ops' = ops PROVE KeysOK' /\ ops' \in 0..MaxOps
  BY <1>3, KeysTaken DEF TInv, Rest
<1>4. CASE DetailsStep \/ AgentsStep \/ ResourceKeysStep \/ KeysSettled
  BY <1>3, <1>4 DEF DetailsStep, AgentsStep, ResourceKeysStep, KeysSettled, WizardGoes, bounds
<1>5. CASE ReviewStep
  <2>1. CASE WizardGoes("keys") BY <1>3, <2>1 DEF WizardGoes, bounds
  <2>2. CASE \E p \in Projects : Send("newProject", p, Null, Null)
    <3>1. "newProject" \in Ops \ {"wizardKey"} BY DEF Ops
    <3> QED BY <2>2, <3>1, KeysSent
  <2> QED BY <1>5, <2>1, <2>2 DEF ReviewStep
<1>6. ASSUME NEW r \in req, ProjectAnswered(r) PROVE KeysOK' /\ ops' \in 0..MaxOps
  <2>0. r.op = "newProject" /\ ops' = ops /\ ops \in 0..MaxOps BY <1>6 DEF ProjectAnswered, bounds, TInv, Rest
  <2>1. CASE r.pc = "failed" BY <1>3, <1>6, <2>0, <2>1 DEF ProjectAnswered
  <2>2. CASE r.pc = "answer"
    <3> DEFINE ask(k) == Ask("wizardKey", wizard.p, Null, k)
    <3>1. PICK asks : asks = {ask(k) : k \in wizard.keys} /\ req' = (req \ {r}) \cup asks
      BY <1>6, <2>2 DEF ProjectAnswered
    <3>2. wizard.pc = "creating" /\ wizard.p \in Projects /\ wizard.keys \in SUBSET Keys
      BY <2>0, RequestFacts DEF ProjectWaits, IInv, Typed
    <3>3. Mine = {} BY <3>2, RequestFacts DEF Mine, KeyWaits
    <3>4. \A k \in wizard.keys : LET q == ask(k) IN
             q.op = "wizardKey" /\ q.k = k /\ q.p = wizard.p /\ KeyKnown(q)
      BY <3>2 DEF Ask, KeyKnown
    <3>5. IsFiniteSet(asks)
      <4> DEFINE f == [k \in wizard.keys |-> ask(k)]
      <4>1. f \in Surjection(wizard.keys, asks) BY <3>1 DEF Surjection
      <4>2. IsFiniteSet(wizard.keys) BY <3>2, KeysAssumption, FS_Subset
      <4> HIDE DEF f
      <4> QED BY <4>1, <4>2, FS_Surjection
    <3>6. \A q \in asks : q.op = "wizardKey" /\ KeyKnown(q) BY <3>1, <3>4
    <3>7. \A q, x \in asks : q.k = x.k => q = x BY <3>1, <3>4
    <3> HIDE DEF ask
    <3>8. Mine' = asks /\ Others' = Others \ {r} /\ r \in Others BY <2>0, <3>1, <3>3, <3>6 DEF Mine, Others
    <3>9. IsFiniteSet(req) /\ Others \in SUBSET req BY DEF TInv, KeysOK, Counted, Others
    <3>10. IsFiniteSet(req') BY <3>1, <3>5, <3>9, FS_RemoveElement, FS_Union
    <3>11. IsFiniteSet(Others) /\ Cardinality(Others) \in Nat /\ Cardinality(Others) <= ops /\ ops \in Nat
      BY <3>9, FS_Subset, FS_CardinalityType DEF TInv, KeysOK, Counted, Rest
    <3>12. Cardinality(Others \ {r}) = Cardinality(Others) - 1 BY <3>8, <3>11, FS_RemoveElement
    <3>13. Cardinality(Others') <= ops' BY <2>0, <3>8, <3>11, <3>12
    <3>14. \A q \in req' : KeyKnown(q) BY <3>1, <3>6 DEF TInv, KeysOK
    <3> QED BY <2>0, <3>7, <3>8, <3>10, <3>13, <3>14 DEF KeysOK, Counted
  <2> QED BY <1>6, <2>1, <2>2 DEF ProjectAnswered
<1> QED BY <1>4, <1>5, <1>6 DEF Wizard

LEMMA TypesServe == ASSUME IInv, TInv, NEW r \in req, Service(r) \/ CutOff(r) PROVE TInv'
<1>0. ops' = ops /\ ops \in 0..MaxOps /\ \E pc : To(r, pc)
  BY DEF Service, CutOff, RegisterProvider, AcceptDpa, CreateAgent, CreatePersonalAgent, PublishAgent,
         UnpublishAgent, CountHires, DeleteAgent, CreateProject, ReadForHire, CreateHire, ReadForAccept,
         AcceptAgreement, RemoveAgent, CreateKey, DropKey, Guard, GetValueForAgent, SetAgent, Check, bounds,
         TInv, Rest
<1>1. KeysOK' BY <1>0, KeysMoved
<1>2. /\ r.op \in {"hire", "accept", "use"} => <<r.p, r.a>> \in Hires /\ r.p \in Projects /\ r.a \in Agents
      /\ KeyKnown(r)
  BY RequestFacts DEF Sound, TInv, KeysOK
<1>3. CASE RegisterProvider(r) \/ AcceptDpa(r)
  <2>1. /\ provider' = provider \/ provider' = [provider EXCEPT !.registered = TRUE]
           \/ provider' = [provider EXCEPT !.dpa = provider.registered]
        /\ UNCHANGED <<agreed, stored, audit, shown, faults>>
    BY <1>3 DEF RegisterProvider, AcceptDpa, staff, secrets, client, bounds
  <2>2. provider' \in [registered: BOOLEAN, dpa: BOOLEAN, kyc: BOOLEAN] BY <2>1 DEF TInv, Rest
  <2> QED BY <1>0, <1>1, <2>1, <2>2 DEF TInv, Rest
<1>4. CASE \/ CreateAgent(r) \/ CreatePersonalAgent(r) \/ PublishAgent(r) \/ UnpublishAgent(r) \/ CountHires(r)
           \/ DeleteAgent(r) \/ CreateProject(r) \/ ReadForHire(r) \/ ReadForAccept(r) \/ RemoveAgent(r) \/ Guard(r)
  <2>1. UNCHANGED <<provider, agreed, stored, audit, shown, faults>>
    BY <1>4 DEF CreateAgent, CreatePersonalAgent, PublishAgent, UnpublishAgent, CountHires, DeleteAgent,
                CreateProject, ReadForHire, ReadForAccept, RemoveAgent, Guard, SetAgent, account, staff,
                secrets, client, bounds
  <2> QED BY <1>0, <1>1, <2>1, RestStays DEF TInv
<1>5. CASE CreateHire(r) \/ AcceptAgreement(r)
  <2>1. r.op \in {"hire", "accept"} BY <1>5 DEF CreateHire, AcceptAgreement, At
  <2>2. agreed' \subseteq agreed \cup {<<r.p, r.a>>} BY <1>5 DEF CreateHire, AcceptAgreement
  <2>3. UNCHANGED <<provider, stored, audit, shown, faults>>
    BY <1>5 DEF CreateHire, AcceptAgreement, account, secrets, client, bounds
  <2>4. agreed' \subseteq Hires BY <1>2, <2>1, <2>2 DEF TInv, Rest
  <2> QED BY <1>0, <1>1, <2>3, <2>4 DEF TInv, Rest
<1>6. CASE CreateKey(r) \/ DropKey(r)
  <2>1. UNCHANGED <<provider, agreed, audit, shown, faults>>
    BY <1>6 DEF CreateKey, DropKey, account, staff, client, bounds
  <2>2. stored' \subseteq Projects \X Keys
    <3>1. CASE CreateKey(r)
      <4>1. r.op \in {"newKey", "wizardKey"} /\ stored' = stored \cup {<<r.p, r.k>>} BY <3>1 DEF CreateKey
      <4>2. r.p \in Projects /\ r.k \in Keys BY <1>2, <4>1 DEF KeyKnown
      <4> QED BY <4>1, <4>2 DEF TInv, Rest
    <3>2. CASE DropKey(r) BY <3>2 DEF DropKey, TInv, Rest
    <3> QED BY <1>6, <3>1, <3>2
  <2> QED BY <1>0, <1>1, <2>1, <2>2 DEF TInv, Rest
<1>7. CASE GetValueForAgent(r)
  <2>1. UNCHANGED <<provider, agreed, stored, shown, faults>> /\ r.op = "use"
    BY <1>7 DEF GetValueForAgent, At, account, staff, client, bounds
  <2>2. audit' \subseteq audit \cup {<<r.p, r.a, r.k>>} BY <1>7 DEF GetValueForAgent
  <2>3. <<r.p, r.a, r.k>> \in Projects \X Agents \X Keys BY <1>2, <2>1 DEF KeyKnown
  <2>4. audit' \subseteq Projects \X Agents \X Keys BY <2>2, <2>3 DEF TInv, Rest
  <2> QED BY <1>0, <1>1, <2>1, <2>4 DEF TInv, Rest
<1>8. CASE CutOff(r)
  <2>1. UNCHANGED <<provider, agreed, stored, audit, shown>> BY <1>8 DEF CutOff, account, staff, secrets, client
  <2>2. faults' \in 0..MaxFaults BY <1>8, BoundAssumption DEF CutOff, TInv, Rest
  <2> QED BY <1>0, <1>1, <2>1, <2>2 DEF TInv, Rest
<1> QED BY <1>3, <1>4, <1>5, <1>6, <1>7, <1>8 DEF Service

LEMMA TypesStep == IInv /\ TInv /\ [Next]_vars => TInv'
<1> SUFFICES ASSUME IInv, TInv, [Next]_vars PROVE TInv' OBVIOUS
<1>1. CASE UNCHANGED vars
  <2>1. UNCHANGED <<provider, agreed, stored, audit, shown, faults, ops, req>> BY <1>1 DEF vars
  <2>2. KeysOK' BY <2>1, KeysTaken
  <2> QED BY <2>1, <2>2, RestStays DEF TInv, Rest
<1> QED BY <1>1, TypesSend, TypesTake, TypesWizard, TypesServe DEF Next

(* Every row, request and page keeps its type: whatever pages and programs send is about projects, agents
   and keys there are, and no more requests are under way than were sent, one of them for each key of
   the wizard (new/page.tsx:762-816, projects.service.ts, keys.service.ts). *)
THEOREM Types == Spec => []TypeOK
<1>1. IInv /\ TInv => TypeOK
  <2> SUFFICES ASSUME IInv, TInv PROVE TypeOK OBVIOUS
  <2>1. req \subseteq Request BY RequestFacts
  <2>2. Cardinality(req) <= ops + Cardinality(Keys) BY EnoughIsSent
  <2> QED BY <2>1, <2>2 DEF IInv, TInv, Rest, Typed, TypeOK, AgentStates, HireStates, WizardSteps
<1>2. Init => IInv /\ TInv BY InitOK, TypesInit
<1>3. IInv /\ TInv /\ [Next]_vars => (IInv /\ TInv)' BY StepOK, TypesStep
<1> QED BY <1>1, <1>2, <1>3, PTL DEF Spec
=============================================================================
