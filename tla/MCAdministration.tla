-------------------------- MODULE MCAdministration --------------------------
(***************************************************************************)
(* Administration of an installation and of a household for model          *)
(* checking.  The parts share no variables, so a behaviour moves one of    *)
(* them: all their behaviours are explored, without the product of their   *)
(* states.                                                                 *)
(***************************************************************************)
EXTENDS HouseholdPeople, Naturals, TLC

CONSTANTS o, a, l, m, h1, h2, Screens, Codes, MaxPairings, MaxAttempts, MaxInFlight,
          Urls, Editors, Testers, MaxSettings,
          Requests, MaxInvitations, MaxAccountRevision,
          Browsers, Slots, NoSlot, MaxTokens, MaxClicks,
          Addresses, NormalUrl, Efforts, Models, typed, normal, MaxRevision, MaxLate

ASSUME RedemptionBound == MaxAttempts \in Nat
ASSUME InvitationBound == MaxInvitations \in Nat \ {0}

Households == o :> h1 @@ a :> h1 @@ l :> h2 @@ m :> h2
Spellings  == typed :> normal @@ normal :> normal

VARIABLES part,
          pairing, shown, page, request,        \* DisplayPairing
          settings, edit, test,                 \* AiSettings
          login, invitation, serving,           \* AccountInvitation
          installation, tab, req, clicks,       \* InstallationClaim
          row, panel, sent                      \* AiSettingsPage

Pairing    == INSTANCE DisplayPairing
Ai         == INSTANCE AiSettings
Invitation == INSTANCE AccountInvitation WITH MaxRevision <- MaxAccountRevision
Setup      == INSTANCE InstallationClaim
Settings   == INSTANCE AiSettingsPage

ASSUME SpellingAssumption ==
  /\ NormalUrl \in [Addresses -> Addresses]
  /\ Settings!NoUrl \notin Addresses /\ Settings!NotSent \notin Addresses \cup Efforts

PairingVars    == <<pairing, shown, page, request>>
AiVars         == <<settings, edit, test>>
InvitationVars == <<login, invitation, serving>>
SetupVars      == <<installation, tab, req, clicks>>
SettingsVars   == <<row, panel, sent>>
MCVars == <<part, vars, PairingVars, AiVars, InvitationVars, SetupVars, SettingsVars>>

MCInit ==
  /\ part \in {"people", "pairing", "ai", "invitation", "setup", "settings"}
  /\ Init /\ Pairing!Init /\ Ai!Init /\ Invitation!AccessInit /\ Setup!ClaimInit
  /\ Settings!PageInit /\ row.value = CHOOSE v \in Settings!RowForms : v.provider = "openai"

MCNext ==
  /\ UNCHANGED part
  /\ IF part = "people" THEN Next ELSE UNCHANGED vars
  /\ IF part = "pairing" THEN Pairing!Next ELSE UNCHANGED PairingVars
  /\ IF part = "ai" THEN Ai!Next ELSE UNCHANGED AiVars
  /\ IF part = "invitation" THEN Invitation!AccessNext ELSE UNCHANGED InvitationVars
  /\ IF part = "setup" THEN Setup!ClaimNext ELSE UNCHANGED SetupVars
  /\ IF part = "settings" THEN Settings!PageNext ELSE UNCHANGED SettingsVars

MCSpec == MCInit /\ [][MCNext]_MCVars /\ Pairing!Fairness

PairedScreenAccepted == Pairing!PairedScreenAccepted
PairingEnds          == Pairing!PairingEnds
AvailabilityMeasured == Ai!AvailabilityMeasured
KeyStaysWithEndpoint == Ai!KeyStaysWithEndpoint
InvitationMatchesAccount == Invitation!InvitationMatchesAccount
ClaimedOnce          == Setup!ClaimedOnce
TypingSurvives       == Settings!TypingSurvives
=============================================================================
