----------------------- MODULE HouseholdPeople_proofs -----------------------
(***************************************************************************)
(* OwnerRemains and ManagerRemains for all people, households and          *)
(* requests.  What a transaction found under its lock has to be true when  *)
(* it writes: all steps that others take meanwhile only add usable people, *)
(* since every other step waits for the lock.  An invited person may       *)
(* become usable between check and write; that the household had somebody  *)
(* else then follows from the request, whose actor could act.              *)
(***************************************************************************)
EXTENDS HouseholdPeople, TLAPS

Exempt(household) == transition = "finalized" /\ household = Source

\* Only the request that holds the installation row writes.
LockHeld == \A h \in Handlers : handler[h].step = "write" => lock = h

\* The household of a request has a manager: its actor, or those who replaced it.
Managed == \A h \in Handlers :
  handler[h].step # "idle" =>
    HasManager(handler[h].household) \/ Exempt(handler[h].household)

\* What LockAndCheck established and a write relies on.
Justification(r) ==
  /\ Exists(r.target) /\ HouseholdOf[r.target] = r.household
  /\ r.op = "disable" \/ (r.op = "role" /\ r.role # "installation_admin")
       => OtherOwner(r.target)
  /\ r.op = "disable" \/ (r.op = "role" /\ r.role \notin Managers)
       => OtherManager(r.target) \/ Exempt(r.household)
  /\ r.op = "account" => account[r.target].login = "none"

Justified == \A h \in Handlers :
  handler[h].step = "write" => Justification(handler[h])

IInv == TypeOK /\ OwnerRemains /\ LockHeld /\ Managed /\ Justified

\* A step that takes nothing from anybody.
Grows ==
  /\ \A q \in People : Exists(q) =>
       /\ member'[q] = member[q]
       /\ Usable(q) => Usable(q)'
       /\ account[q].login = "none" => account'[q].login = "none"
  /\ transition = "finalized" => transition' = "finalized"

-----------------------------------------------------------------------------
(* Steps that only grow *)

LEMMA Kept ==
  ASSUME Grows
  PROVE  \A q \in People : /\ Exists(q) => Exists(q)'
                           /\ UsableOwner(q) => UsableOwner(q)'
                           /\ UsableManager(q) => UsableManager(q)'
BY DEF Grows, Exists, UsableOwner, IsOwner, UsableManager, Managers

LEMMA OthersKept ==
  ASSUME Grows, NEW p \in People
  PROVE  /\ OtherOwner(p) => OtherOwner(p)'
         /\ OtherManager(p) => OtherManager(p)'
BY Kept DEF OtherOwner, OtherManager

LEMMA ManagersKept ==
  ASSUME Grows, NEW household, HasManager(household)
  PROVE  HasManager(household)'
BY Kept DEF HasManager

LEMMA ExemptKept ==
  ASSUME Grows, NEW household, Exempt(household)
  PROVE  Exempt(household)'
BY DEF Grows, Exempt

LEMMA JustificationKept ==
  ASSUME Grows, NEW r \in Handler, Justification(r)
  PROVE  Justification(r)'
<1>1. r.target \in People
  BY DEF Handler
<1>2. Exists(r.target)' /\ (account[r.target].login = "none" => account'[r.target].login = "none")
  BY <1>1, Kept DEF Justification, Grows
<1> QED BY <1>1, <1>2, OthersKept, ExemptKept DEF Justification

\* Handlers other than the one that moves keep what the invariant says of them.
MovedRight(h) ==
  /\ handler[h].step # "idle" => HasManager(handler[h].household) \/ Exempt(handler[h].household)
  /\ handler[h].step = "write" => Justification(handler[h])

LEMMA StillRight ==
  ASSUME IInv, Grows, NEW h \in Handlers, handler'[h] = handler[h]
  PROVE  MovedRight(h)'
<1>1. PICK r \in Handler : r = handler[h]
  BY DEF IInv, TypeOK
<1>2. r.step # "idle" => HasManager(r.household)' \/ Exempt(r.household)'
  <2> SUFFICES ASSUME r.step # "idle"
               PROVE  HasManager(r.household)' \/ Exempt(r.household)'
    OBVIOUS
  <2>1. HasManager(r.household) \/ Exempt(r.household)
    BY <1>1 DEF IInv, Managed
  <2>2. PICK household : household = r.household
    OBVIOUS
  <2> QED BY <2>1, <2>2, ManagersKept, ExemptKept
<1>3. r.step = "write" => Justification(r)'
  BY <1>1, JustificationKept DEF IInv, Justified
<1> QED BY <1>1, <1>2, <1>3 DEF MovedRight, HasManager, Exempt, Justification

LEMMA GrowingStep ==
  ASSUME IInv, Grows, TypeOK', LockHeld',
         \A h \in Handlers : handler'[h] = handler[h] \/ MovedRight(h)'
  PROVE  IInv'
<1>1. OwnerRemains'
  BY Kept DEF IInv, OwnerRemains
<1>2. \A h \in Handlers : MovedRight(h)'
  BY StillRight
<1>3. Managed' /\ Justified'
  BY <1>2 DEF Managed, Justified, MovedRight
<1> QED BY <1>1, <1>3 DEF IInv

-----------------------------------------------------------------------------
LEMMA IdleType == Idle \in Handler /\ Idle.step = "idle"
BY TransitionHouseholds DEF Idle, Handler, Locking, Roles

LEMMA InitIInv == Init => IInv
<1> SUFFICES ASSUME Init PROVE IInv
  OBVIOUS
<1>1. TypeOK
  BY IdleType DEF Init, TypeOK, Roles, Managers, Account, NoAccount
<1>2. OwnerRemains
  BY TransitionHouseholds DEF Init, OwnerRemains, UsableOwner, IsOwner, Usable
<1>3. LockHeld /\ Managed /\ Justified
  BY IdleType DEF Init, LockHeld, Managed, Justified
<1> QED BY <1>1, <1>2, <1>3 DEF IInv

LEMMA EndRight ==
  ASSUME TypeOK, NEW h \in Handlers, End(h)
  PROVE  /\ handler' \in [Handlers -> Handler]
         /\ MovedRight(h)'
         /\ \A g \in Handlers \ {h} : handler'[g] = handler[g]
         /\ handler'[h].step = "idle"
BY IdleType DEF TypeOK, End, MovedRight

LEMMA RequestStep ==
  ASSUME IInv, NEW h \in Handlers, NEW actor \in People, Request(h, actor)
  PROVE  IInv'
<1>1. Grows
  BY DEF Request, Grows, Usable
<1>2. TypeOK'
  <2>1. PICK r \in Handler : r = handler[h]
    BY DEF IInv, TypeOK
  <2>2. PICK owner \in BOOLEAN : owner = IsOwner(actor)
    BY DEF IsOwner
  <2>3. [r EXCEPT !.step = "ask", !.owner = owner, !.household = HouseholdOf[actor]] \in Handler
    BY <2>1 DEF Handler
  <2>4. handler' = [handler EXCEPT ![h] =
          [r EXCEPT !.step = "ask", !.owner = owner, !.household = HouseholdOf[actor]]]
    BY <2>1, <2>2 DEF Request, IInv, TypeOK
  <2>5. handler' \in [Handlers -> Handler]
    BY <2>3, <2>4 DEF IInv, TypeOK
  <2> QED BY <2>5 DEF IInv, TypeOK, Request
<1>3. /\ handler'[h].household = HouseholdOf[actor] /\ handler'[h].step = "ask"
      /\ \A g \in Handlers \ {h} : handler'[g] = handler[g]
  BY DEF IInv, TypeOK, Request, Handler
<1>4. LockHeld'
  BY <1>3 DEF IInv, LockHeld, Request
<1>5. MovedRight(h)'
  BY <1>3 DEF Request, MovedRight, HasManager, UsableManager, Usable
<1> QED BY <1>1, <1>2, <1>3, <1>4, <1>5, GrowingStep

LEMMA CreatePersonStep ==
  ASSUME IInv, NEW h \in Handlers, CreatePerson(h)
  PROVE  IInv'
<1>1. PICK p \in People, role \in Roles, login \in {"none", "pending", "active"} :
        /\ ~Exists(p)
        /\ member' = [member EXCEPT ![p] = role]
        /\ account' = [account EXCEPT ![p].login = login]
  BY DEF CreatePerson
<1>2. Grows
  BY <1>1 DEF CreatePerson, Grows, IInv, TypeOK, Usable
<1>3. TypeOK'
  BY <1>1, EndRight DEF CreatePerson, IInv, TypeOK, Account
<1>4. LockHeld'
  BY EndRight DEF CreatePerson, IInv, LockHeld
<1> QED BY <1>2, <1>3, <1>4, EndRight, GrowingStep DEF CreatePerson, IInv

LEMMA RollBackStep ==
  ASSUME IInv, NEW h \in Handlers, RollBack(h)
  PROVE  IInv'
<1>1. Grows
  BY DEF RollBack, Grows, Usable
<1>2. TypeOK'
  BY EndRight DEF RollBack, IInv, TypeOK
<1>3. LockHeld'
  BY EndRight DEF RollBack, IInv, LockHeld
<1> QED BY <1>1, <1>2, <1>3, EndRight, GrowingStep DEF RollBack, IInv

LEMMA AcceptStep ==
  ASSUME IInv, NEW p \in People, AcceptInvitation(p)
  PROVE  IInv'
<1>1. Grows
  BY DEF AcceptInvitation, Grows, IInv, TypeOK, Account, Usable
<1>2. TypeOK'
  BY DEF AcceptInvitation, IInv, TypeOK, Account
<1>3. LockHeld'
  BY DEF AcceptInvitation, IInv, LockHeld
<1> QED BY <1>1, <1>2, <1>3, GrowingStep DEF AcceptInvitation

LEMMA PrepareStep ==
  ASSUME IInv, Prepare
  PROVE  IInv'
<1> DEFINE new == {p \in People : HouseholdOf[p] = Live}
<1>1. PICK role \in [People -> Roles], invited \in SUBSET People :
        /\ \A p \in new : ~Exists(p)
        /\ \A p \in People \ new : p \notin invited
        /\ member' = [p \in People |-> IF p \in new THEN role[p] ELSE member[p]]
        /\ account' = [p \in People |-> IF p \in invited
                THEN [login |-> "pending", disabled |-> FALSE] ELSE account[p]]
  BY DEF Prepare
<1>2. Grows
  BY <1>1 DEF Prepare, Grows, Usable
<1>3. TypeOK'
  BY <1>1 DEF Prepare, IInv, TypeOK, Account
<1>4. LockHeld'
  BY DEF Prepare, IInv, LockHeld
<1> QED BY <1>2, <1>3, <1>4, GrowingStep DEF Prepare

-----------------------------------------------------------------------------
(* The check under the lock finds what the write will rely on. *)

LEMMA OthersThere ==
  ASSUME IInv, NEW p \in People
  PROVE  /\ KeepsOwner(p) => OtherOwner(p)
         /\ KeepsManager(p) /\ HasManager(HouseholdOf[p]) => OtherManager(p)
BY DEF IInv, OwnerRemains, KeepsOwner, KeepsManager, OtherOwner, OtherManager, HasManager

LEMMA LockAndCheckStep ==
  ASSUME IInv, NEW h \in Handlers, NEW op \in Locking, NEW p \in People, NEW role \in Roles,
         LockAndCheck(h, op, p, role)
  PROVE  IInv'
<1>1. Grows
  BY DEF LockAndCheck, Grows, Usable
<1>2. TypeOK'
  <2>1. PICK r \in Handler : r = handler[h]
    BY DEF IInv, TypeOK
  <2>2. [r EXCEPT !.step = "write", !.op = op, !.target = p, !.role = role] \in Handler
    BY <2>1 DEF Handler
  <2>3. handler' = [handler EXCEPT ![h] =
          [r EXCEPT !.step = "write", !.op = op, !.target = p, !.role = role]]
    BY <2>1 DEF LockAndCheck, IInv, TypeOK
  <2>4. handler' \in [Handlers -> Handler]
    BY <2>2, <2>3 DEF IInv, TypeOK
  <2> QED BY <2>4 DEF IInv, TypeOK, LockAndCheck
<1>3. /\ \A g \in Handlers \ {h} : handler'[g] = handler[g]
      /\ handler'[h].step = "write" /\ handler'[h].op = op /\ handler'[h].target = p
      /\ handler'[h].role = role /\ handler'[h].household = handler[h].household
      /\ handler[h].household = HouseholdOf[p] /\ Exists(p) /\ Permitted(h, op, p, role)
  BY DEF IInv, TypeOK, LockAndCheck, Handler
<1>4. LockHeld'
  BY <1>3, Unlocked DEF IInv, LockHeld, LockAndCheck, Serialized
<1>5. UNCHANGED <<member, account, transition>>
  BY DEF LockAndCheck
<1>6. HasManager(HouseholdOf[p]) \/ Exempt(HouseholdOf[p])
  BY <1>3 DEF LockAndCheck, IInv, Managed
<1>7. op = "disable" \/ (op = "role" /\ role # "installation_admin") => OtherOwner(p)
  BY <1>3, OthersThere DEF Permitted, KeepsOwner, UsableOwner, Usable
<1>8. op = "disable" \/ (op = "role" /\ role \notin Managers)
        => OtherManager(p) \/ Exempt(HouseholdOf[p])
  BY <1>3, <1>6, OthersThere DEF Permitted
<1>9. op = "account" => account[p].login = "none"
  BY <1>3 DEF Permitted
<1>10. MovedRight(h)'
  <2>1. (HasManager(handler[h].household) \/ Exempt(handler[h].household))'
    BY <1>3, <1>5, <1>6 DEF HasManager, Exempt, UsableManager, Usable
  <2>2. Justification(handler[h])'
    BY <1>3, <1>5, <1>7, <1>8, <1>9
       DEF Justification, Exists, OtherOwner, OtherManager, Exempt, UsableOwner,
           UsableManager, IsOwner, Usable
  <2> QED BY <2>1, <2>2 DEF MovedRight
<1> QED BY <1>1, <1>2, <1>3, <1>4, <1>10, GrowingStep

-----------------------------------------------------------------------------
(* The write *)

\* What a write leaves: everybody but its target, and of the target what the
\* transaction found that others can do without.
LEMMA WriteLeaves ==
  ASSUME IInv, NEW h \in Handlers, Write(h)
  PROVE  /\ \A q \in People \ {handler[h].target} :
              member'[q] = member[q] /\ account'[q] = account[q]
         /\ OwnerRemains'
         /\ \A household : HasManager(household) => HasManager(household)' \/ Exempt(household)'
         /\ TypeOK'
<1>1. PICK r \in Handler, p \in People :
        /\ r = handler[h] /\ p = r.target /\ r.step = "write" /\ Justification(r)
        /\ r.household = HouseholdOf[p]
  BY DEF IInv, TypeOK, Handler, Write, Justified, Justification
<1>2. /\ r.op = "disable" \/ (r.op = "role" /\ r.role # "installation_admin") => OtherOwner(p)
      /\ r.op = "disable" \/ (r.op = "role" /\ r.role \notin Managers)
           => OtherManager(p) \/ Exempt(HouseholdOf[p])
      /\ r.op = "account" => account[p].login = "none"
  BY <1>1 DEF Justification
<1>3. /\ \A q \in People \ {p} : member'[q] = member[q] /\ account'[q] = account[q]
      /\ member' \in [People -> Roles \cup {"none"}] /\ account' \in [People -> Account]
      /\ \/ r.op = "role" /\ member'[p] = r.role /\ account' = account
         \/ r.op = "account"
         \/ r.op = "disable"
         \/ r.op = "enable" /\ member' = member /\ account'[p].disabled = FALSE
                            /\ account'[p].login = account[p].login
         \/ r.op = "reissue" /\ member' = member /\ account' = account
  <2>0. /\ member \in [People -> Roles \cup {"none"}] /\ account \in [People -> Account]
        /\ r.role \in Roles
    BY DEF IInv, TypeOK, Handler
  <2>1. CASE UpdateMembership(r)
    BY <1>1, <2>0, <2>1 DEF UpdateMembership
  <2>2. CASE CreateAccount(r)
    <3>1. PICK login \in {"pending", "active"} : account' = [account EXCEPT ![p].login = login]
      BY <1>1, <2>2 DEF CreateAccount
    <3>2. [account[p] EXCEPT !.login = login] \in Account
      BY <2>0, <3>1 DEF Account
    <3>3. account' \in [People -> Account] /\ \A q \in People \ {p} : account'[q] = account[q]
      BY <2>0, <3>1, <3>2
    <3>4. member' = [member EXCEPT ![p] = r.role]
      BY <1>1, <2>2 DEF CreateAccount
    <3> QED BY <2>0, <2>2, <3>3, <3>4 DEF CreateAccount
  <2>3. CASE SetStatus(r)
    BY <1>1, <2>0, <2>3 DEF SetStatus, Account
  <2>4. CASE ReissueInvitation(r)
    BY <1>1, <2>0, <2>4 DEF ReissueInvitation
  <2> QED BY <1>1, <2>1, <2>2, <2>3, <2>4 DEF Write
<1>4. /\ transition' = transition /\ lock' = Free /\ handler' \in [Handlers -> Handler]
  BY EndRight DEF IInv, Write
<1>5. TypeOK'
  BY <1>3, <1>4 DEF IInv, TypeOK
<1>6. \A q \in People \ {p} : /\ UsableOwner(q) => UsableOwner(q)'
                              /\ UsableManager(q) => UsableManager(q)'
  BY <1>3 DEF UsableOwner, IsOwner, UsableManager, Usable
<1>7. UsableOwner(p) => UsableOwner(p)' \/ OtherOwner(p)
  BY <1>2, <1>3 DEF UsableOwner, IsOwner, Usable
<1>8. UsableManager(p) => UsableManager(p)' \/ OtherManager(p) \/ Exempt(HouseholdOf[p])
  BY <1>2, <1>3 DEF UsableManager, Usable
<1>9. OwnerRemains'
  BY <1>6, <1>7 DEF IInv, OwnerRemains, OtherOwner
<1>10. ASSUME NEW household, HasManager(household)
       PROVE  HasManager(household)' \/ Exempt(household)'
  <2>1. PICK q \in People : HouseholdOf[q] = household /\ UsableManager(q)
    BY <1>10 DEF HasManager
  <2>2. CASE q # p
    BY <1>6, <2>1, <2>2 DEF HasManager
  <2>3. CASE q = p
    <3>1. CASE OtherManager(p)
      BY <1>6, <2>1, <2>3, <3>1 DEF HasManager, OtherManager
    <3>2. CASE UsableManager(p)'
      BY <2>1, <2>3, <3>2 DEF HasManager
    <3>3. CASE Exempt(HouseholdOf[p])
      BY <1>4, <2>1, <2>3, <3>3 DEF Exempt
    <3> QED BY <1>8, <2>1, <2>3, <3>1, <3>2, <3>3
  <2> QED BY <2>2, <2>3
<1> QED BY <1>1, <1>3, <1>5, <1>9, <1>10

LEMMA WriteStep ==
  ASSUME IInv, NEW h \in Handlers, Write(h)
  PROVE  IInv'
<1>1. /\ handler'[h].step = "idle" /\ \A g \in Handlers \ {h} : handler'[g] = handler[g]
      /\ transition' = transition
  BY EndRight DEF Write, IInv
<1>2. \A g \in Handlers : handler'[g].step # "write"
  BY <1>1 DEF Write, IInv, LockHeld
<1>3. Managed'
  <2> SUFFICES ASSUME NEW g \in Handlers, handler'[g].step # "idle"
               PROVE  (HasManager(handler[g].household) \/ Exempt(handler[g].household))'
    BY DEF Managed
  <2>1. handler'[g] = handler[g] /\ handler[g].step # "idle"
    BY <1>1
  <2>2. PICK household : household = handler[g].household
    OBVIOUS
  <2>3. HasManager(household) \/ Exempt(household)
    BY <2>1, <2>2 DEF IInv, Managed
  <2>4. HasManager(household)' \/ Exempt(household)'
    BY <1>1, <2>3, WriteLeaves DEF Exempt
  <2> QED BY <2>1, <2>2, <2>4 DEF HasManager, Exempt
<1> QED BY <1>2, <1>3, WriteLeaves DEF IInv, LockHeld, Justified

-----------------------------------------------------------------------------
(* The end of the transition *)

LEMMA FinalizeLeaves ==
  ASSUME IInv, Finalize
  PROVE  /\ OwnerRemains'
         /\ \A household : HasManager(household) => HasManager(household)' \/ Exempt(household)'
         /\ TypeOK'
<1>1. \A q \in People : HouseholdOf[q] # Source =>
        member'[q] = member[q] /\ account'[q] = account[q]
  BY DEF Finalize, IInv, TypeOK, Account
<1>2. TypeOK'
  BY DEF Finalize, IInv, TypeOK, Account
<1>3. OwnerRemains'
  BY <1>1, TransitionHouseholds DEF Finalize, OwnerRemains, UsableOwner, IsOwner, Usable
<1>4. ASSUME NEW household, HasManager(household)
      PROVE  HasManager(household)' \/ Exempt(household)'
  BY <1>1, <1>4 DEF Finalize, HasManager, UsableManager, Usable, Exempt
<1> QED BY <1>2, <1>3, <1>4

LEMMA FinalizeStep ==
  ASSUME IInv, Finalize
  PROVE  IInv'
<1>1. \A h \in Handlers : handler[h].step # "write"
  BY Unlocked DEF Finalize, IInv, LockHeld
<1>2. Managed'
  <2> SUFFICES ASSUME NEW g \in Handlers, handler[g].step # "idle"
               PROVE  (HasManager(handler[g].household) \/ Exempt(handler[g].household))'
    BY DEF Managed, Finalize
  <2>1. PICK household : household = handler[g].household
    OBVIOUS
  <2>2. HasManager(household) \/ Exempt(household)
    BY <2>1 DEF IInv, Managed
  <2>3. HasManager(household)' \/ Exempt(household)'
    BY <2>2, FinalizeLeaves DEF Exempt, Finalize
  <2> QED BY <2>1, <2>3 DEF HasManager, Exempt, Finalize
<1> QED BY <1>1, <1>2, FinalizeLeaves DEF IInv, LockHeld, Justified, Finalize

-----------------------------------------------------------------------------
LEMMA NextIInv == IInv /\ [Next]_vars => IInv'
<1> SUFFICES ASSUME IInv, [Next]_vars PROVE IInv'
  OBVIOUS
<1>1. CASE Next
  BY <1>1, RequestStep, CreatePersonStep, LockAndCheckStep, WriteStep, RollBackStep,
     AcceptStep, PrepareStep, FinalizeStep DEF Next
<1>2. CASE UNCHANGED vars
  <2>1. Grows /\ TypeOK' /\ LockHeld'
    BY <1>2 DEF vars, Grows, Usable, IInv, TypeOK, LockHeld
  <2> QED BY <1>2, <2>1, GrowingStep DEF vars
<1> QED BY <1>1, <1>2

LEMMA IInvHolds == Spec => []IInv
BY InitIInv, NextIInv, PTL DEF Spec

\* A step that only grows keeps every manager.
LEMMA GrowingActions ==
  ASSUME IInv, Next
  PROVE  \/ Grows
         \/ \E h \in Handlers : Write(h)
         \/ Finalize
<1>1. ASSUME NEW h \in Handlers, NEW actor \in People, Request(h, actor) PROVE Grows
  BY <1>1 DEF Request, Grows, Usable
<1>2. ASSUME NEW h \in Handlers, CreatePerson(h) PROVE Grows
  BY <1>2 DEF CreatePerson, Grows, IInv, TypeOK, Usable
<1>3. ASSUME NEW h \in Handlers, NEW op \in Locking, NEW p \in People, NEW role \in Roles,
             LockAndCheck(h, op, p, role) PROVE Grows
  BY <1>3 DEF LockAndCheck, Grows, Usable
<1>4. ASSUME NEW h \in Handlers, RollBack(h) PROVE Grows
  BY <1>4 DEF RollBack, Grows, Usable
<1>5. ASSUME NEW p \in People, AcceptInvitation(p) PROVE Grows
  BY <1>5 DEF AcceptInvitation, Grows, IInv, TypeOK, Account, Usable
<1>6. ASSUME Prepare PROVE Grows
  BY <1>6 DEF Prepare, Grows, Usable
<1> QED BY <1>1, <1>2, <1>3, <1>4, <1>5, <1>6 DEF Next

-----------------------------------------------------------------------------
(* Results *)

\* The checks for the last owner in app.ts and in local-bootstrap.ts suffice: the
\* installation always has an owner who can log in.
THEOREM OwnerRemainsHolds == Spec => []OwnerRemains
<1>1. IInv => OwnerRemains
  BY DEF IInv
<1> QED BY <1>1, IInvHolds, PTL

\* The checks for the last manager suffice: a household with a manager who can log
\* in keeps one, until the transition shuts the source household down.
THEOREM ManagerRemainsHolds == Spec => ManagerRemains
<1> DEFINE Stays == \A p \in People : HasManager(HouseholdOf[p]) =>
       HasManager(HouseholdOf[p])' \/ (transition' = "finalized" /\ HouseholdOf[p] = Source)
<1>1. ASSUME IInv, [Next]_vars PROVE Stays \/ UNCHANGED vars
  <2>1. CASE Grows
    BY <2>1, ManagersKept
  <2>2. ASSUME NEW h \in Handlers, Write(h) PROVE Stays
    BY <1>1, <2>2, WriteLeaves DEF Exempt
  <2>3. CASE Finalize
    BY <1>1, <2>3, FinalizeLeaves DEF Exempt
  <2> QED BY <1>1, <2>1, <2>2, <2>3, GrowingActions
<1> QED BY <1>1, IInvHolds, PTL DEF Spec, ManagerRemains
=============================================================================
