----------------------- MODULE Administration_proofs -----------------------
(***************************************************************************)
(* What MCAdministration's parts promise for every number of screens,      *)
(* requests, browsers, editors and revisions: pairing, AI settings,        *)
(* invitations, the claim of an installation and the page of the AI        *)
(* settings.  Each part has an inductive invariant over its own variables; *)
(* the people of a household are in HouseholdPeople_proofs.                *)
(***************************************************************************)
EXTENDS MCAdministration, FiniteSetTheorems, TLAPS

-----------------------------------------------------------------------------
(* Pairing of a screen.  A pairing is redeemed once, so the credential     *)
(* that an answer carries or a browser keeps is the one of its display.    *)

PairingRow == [screen : Screens \cup {"none"}, code : Codes \cup {"none"},
               expired : BOOLEAN, approved : BOOLEAN, redeemed : BOOLEAN]
DisplayRow == [credential : Nat, revoked : BOOLEAN]
Cookie == [display : Pairing!Pairings \cup {0}, credential : Nat]
PageRow == [pairing : Pairing!Pairings \cup {0}, expired : BOOLEAN, redeeming : BOOLEAN,
            cookie : Cookie]
PageRequest == [kind : {"status", "redeem"}, screen : Screens, pairing : Pairing!Pairings,
                verifier : Pairing!Pairings \cup {0}, credential : Nat,
                answer : {"sent", "expired", "approved", "open", "credential", "refused",
                          "unheard"}]

PairingShape ==
  /\ pairing \in [Pairing!Pairings -> PairingRow]
  /\ shown \in [Pairing!Pairings -> DisplayRow]
  /\ page \in [Screens -> PageRow]
  /\ request \subseteq PageRequest

\* What a redemption left behind: the server accepts this credential.
Accepted(p, credential) ==
  /\ p \in Pairing!Pairings /\ pairing[p].redeemed
  /\ shown[p].revoked \/ shown[p].credential = credential

CookiesAccepted ==
  \A s \in Screens : Pairing!Paired(s) =>
    Accepted(page[s].cookie.display, page[s].cookie.credential)
AnswersAccepted ==
  \A r \in request : r.answer = "credential" => Accepted(r.pairing, r.credential)

PairingInv == PairingShape /\ CookiesAccepted /\ AnswersAccepted

LEMMA PairingBegins == Pairing!Init => PairingInv
<1> SUFFICES ASSUME Pairing!Init PROVE PairingInv
  OBVIOUS
<1>1. Pairing!NoPairing \in PairingRow /\ Pairing!NoDisplay \in DisplayRow
  BY DEF Pairing!NoPairing, PairingRow, Pairing!NoDisplay, DisplayRow
<1>2. Pairing!Blank \in PageRow /\ Pairing!Blank.cookie = Pairing!NoCookie
  BY DEF Pairing!Blank, Pairing!NoCookie, PageRow, Cookie
<1> QED BY <1>1, <1>2 DEF Pairing!Init, PairingInv, PairingShape, CookiesAccepted,
           AnswersAccepted, Pairing!Paired

\* A step that takes back no redemption, and replaces no credential but by a revocation.
Settles ==
  \A p \in Pairing!Pairings :
    /\ pairing[p].redeemed => pairing'[p].redeemed
    /\ shown[p].revoked => shown'[p].revoked
    /\ pairing[p].redeemed => shown'[p].revoked \/ shown'[p].credential = shown[p].credential

LEMMA AcceptedStays ==
  ASSUME Settles, NEW p, NEW credential, Accepted(p, credential)
  PROVE  Accepted(p, credential)'
BY DEF Accepted, Settles

\* Where the cookies of the pages and the credentials of the answers are as before.
LEMMA PairingKept ==
  ASSUME PairingInv, PairingShape', Settles,
         \A s \in Screens : page'[s].cookie = page[s].cookie,
         \A r \in request' : r.answer = "credential" =>
           r \in request \/ Accepted(r.pairing, r.credential)'
  PROVE  PairingInv'
<1>1. CookiesAccepted'
  BY AcceptedStays DEF PairingInv, CookiesAccepted, Pairing!Paired
<1>2. AnswersAccepted'
  BY AcceptedStays DEF PairingInv, AnswersAccepted
<1> QED BY <1>1, <1>2 DEF PairingInv

LEMMA SettledIfSame == UNCHANGED shown /\ UNCHANGED pairing => Settles
BY DEF Settles

LEMMA StartPairingStep ==
  ASSUME NEW s \in Screens, PairingInv, Pairing!StartPairing(s)
  PROVE  PairingInv'
<1>1. PICK p \in Pairing!Pairings, code \in Codes :
        /\ ~Pairing!Started(p)
        /\ pairing' = [pairing EXCEPT ![p] =
             [Pairing!NoPairing EXCEPT !.screen = s, !.code = code]]
        /\ page' = [page EXCEPT ![s].pairing = p, ![s].expired = FALSE]
  BY DEF Pairing!StartPairing
<1>2. [Pairing!NoPairing EXCEPT !.screen = s, !.code = code] \in PairingRow
  BY DEF Pairing!NoPairing, PairingRow
<1>3. ~pairing[p].redeemed
  BY <1>1 DEF Pairing!Started, Pairing!NoPairing
<1>4. UNCHANGED <<shown, request>>
  BY DEF Pairing!StartPairing
<1>5. PairingShape'
  <2>1. pairing' \in [Pairing!Pairings -> PairingRow]
    BY <1>1, <1>2 DEF PairingInv, PairingShape
  <2>2. page' \in [Screens -> PageRow]
    BY <1>1 DEF PairingInv, PairingShape, PageRow
  <2> QED BY <2>1, <2>2, <1>4 DEF PairingInv, PairingShape
<1>6. Settles
  BY <1>1, <1>3, <1>4 DEF PairingInv, PairingShape, Settles
<1>7. \A t \in Screens : page'[t].cookie = page[t].cookie
  BY <1>1 DEF PairingInv, PairingShape, PageRow
<1> QED BY <1>4, <1>5, <1>6, <1>7, PairingKept

LEMMA HouseholdPairingSteps ==
  ASSUME PairingInv,
         \/ \E p \in Pairing!Pairings : Pairing!PairingExpires(p) \/ Pairing!RevokeDisplay(p)
         \/ \E code \in Codes : Pairing!ApprovePairing(code)
  PROVE  PairingInv'
<1>1. UNCHANGED <<page, request>>
  BY DEF Pairing!PairingExpires, Pairing!RevokeDisplay, Pairing!ApprovePairing
<1>2. \/ UNCHANGED shown /\ \E p \in Pairing!Pairings :
            pairing' \in {[pairing EXCEPT ![p].expired = TRUE], [pairing EXCEPT ![p].approved = TRUE]}
      \/ UNCHANGED pairing /\ \E p \in Pairing!Pairings :
            shown' = [shown EXCEPT ![p] = [credential |-> 0, revoked |-> TRUE]]
  BY DEF Pairing!PairingExpires, Pairing!RevokeDisplay, Pairing!ApprovePairing
<1>3. PairingShape' /\ Settles
  <2>1. CASE /\ UNCHANGED shown
             /\ \E p \in Pairing!Pairings :
                  pairing' \in {[pairing EXCEPT ![p].expired = TRUE], [pairing EXCEPT ![p].approved = TRUE]}
    BY <1>1, <2>1 DEF PairingInv, PairingShape, PairingRow, Settles
  <2>2. CASE /\ UNCHANGED pairing
             /\ \E p \in Pairing!Pairings :
                  shown' = [shown EXCEPT ![p] = [credential |-> 0, revoked |-> TRUE]]
    <3>1. [credential |-> 0, revoked |-> TRUE] \in DisplayRow
      BY DEF DisplayRow
    <3> QED BY <1>1, <2>2, <3>1 DEF PairingInv, PairingShape, Settles
  <2> QED BY <1>2, <2>1, <2>2
<1> QED BY <1>1, <1>3, PairingKept

LEMMA TickStep ==
  ASSUME NEW s \in Screens, PairingInv, Pairing!Tick(s)
  PROVE  PairingInv'
<1>1. UNCHANGED <<pairing, shown>>
  BY DEF Pairing!Tick, Pairing!Ask
<1>2. page[s] \in PageRow
  BY DEF PairingInv, PairingShape
<1>3. CASE page' = [page EXCEPT ![s].expired = TRUE] /\ UNCHANGED request
  <2>1. PairingShape' /\ \A t \in Screens : page'[t].cookie = page[t].cookie
    BY <1>1, <1>3 DEF PairingInv, PairingShape, PageRow
  <2> QED BY <1>1, <1>3, <2>1, SettledIfSame, PairingKept
<1>4. CASE Pairing!Ask(s)
  <2> DEFINE asked == [kind |-> "status", screen |-> s, pairing |-> page[s].pairing,
                       verifier |-> 0, credential |-> 0, answer |-> "sent"]
  <2>1. request' = request \cup {asked} /\ UNCHANGED page
    BY <1>4 DEF Pairing!Ask
  <2>2. asked \in PageRequest
    BY <1>2 DEF Pairing!Tick, Pairing!Waiting, PageRow, PageRequest
  <2>3. asked.answer = "sent"
    OBVIOUS
  <2> HIDE DEF asked
  <2>4. PairingShape'
    BY <1>1, <2>1, <2>2 DEF PairingInv, PairingShape
  <2> QED BY <1>1, <2>1, <2>3, <2>4, SettledIfSame, PairingKept
<1> QED BY <1>3, <1>4 DEF Pairing!Tick

LEMMA PairAgainStep ==
  ASSUME NEW s \in Screens, PairingInv, Pairing!PairAgain(s)
  PROVE  PairingInv'
<1>1. page' = [page EXCEPT ![s] = Pairing!Blank] /\ UNCHANGED <<pairing, shown, request>>
  BY DEF Pairing!PairAgain
<1>2. Pairing!Blank \in PageRow /\ Pairing!Blank.cookie = Pairing!NoCookie
  BY DEF Pairing!Blank, Pairing!NoCookie, PageRow, Cookie
<1>3. PairingShape'
  BY <1>1, <1>2 DEF PairingInv, PairingShape
<1>4. CookiesAccepted'
  BY <1>1, <1>2 DEF PairingInv, PairingShape, CookiesAccepted, Accepted, Pairing!Paired
<1> QED BY <1>1, <1>3, <1>4 DEF PairingInv, AnswersAccepted, Accepted

-----------------------------------------------------------------------------
(* Requests of the pairing page *)

LEMMA FreshIsNat == Pairing!Fresh \in Nat
<1> DEFINE Used == {c \in 1..MaxAttempts :
           \/ \E p \in Pairing!Pairings : shown[p].credential >= c
           \/ \E s \in Screens : page[s].cookie.credential >= c
           \/ \E r \in request : r.credential >= c}
<1>1. IsFiniteSet(1..MaxAttempts)
  BY RedemptionBound, FS_Interval
<1>2. IsFiniteSet(Used)
  BY <1>1, FS_Subset
<1>3. Cardinality(Used) \in Nat
  BY <1>2, FS_CardinalityType
<1>4. Pairing!Fresh = 1 + Cardinality(Used)
  BY DEF Pairing!Fresh, Pairing!Cardinality, Cardinality
<1> HIDE DEF Used
<1> QED BY <1>3, <1>4

LEMMA ReadStatusStep ==
  ASSUME NEW r \in request, PairingInv, Pairing!ReadStatus(r)
  PROVE  PairingInv'
<1>1. UNCHANGED <<pairing, shown, page>>
  BY DEF Pairing!ReadStatus
<1>2. PICK answer \in {"expired", "approved", "open"} : Pairing!Answered(r, answer)
  BY DEF Pairing!ReadStatus
<1>3. /\ [r EXCEPT !.answer = answer] \in PageRequest
      /\ [r EXCEPT !.answer = answer].answer # "credential"
  BY DEF PairingInv, PairingShape, PageRequest
<1>4. PairingShape'
  BY <1>1, <1>2, <1>3 DEF Pairing!Answered, PairingInv, PairingShape
<1> QED BY <1>1, <1>2, <1>3, <1>4, SettledIfSame, PairingKept DEF Pairing!Answered

LEMMA StatusAnsweredStep ==
  ASSUME NEW r \in request, PairingInv, Pairing!StatusAnswered(r)
  PROVE  PairingInv'
<1>1. UNCHANGED <<pairing, shown>> /\ r \in PageRequest
  BY DEF Pairing!StatusAnswered, PairingInv, PairingShape
<1>2. r.screen \in Screens /\ r.pairing \in Pairing!Pairings
  BY <1>1 DEF PageRequest
<1>3. CASE r.answer = "approved" /\ Pairing!Fresh <= MaxAttempts
  <2> DEFINE redeem == [kind |-> "redeem", screen |-> r.screen, pairing |-> r.pairing,
                        verifier |-> Pairing!Verifier(r.screen),
                        credential |-> Pairing!Fresh, answer |-> "sent"]
  <2>1. /\ request' = (request \ {r}) \cup {redeem}
        /\ page' = [page EXCEPT ![r.screen].redeeming = TRUE]
    BY <1>3 DEF Pairing!StatusAnswered
  <2>2. Pairing!Verifier(r.screen) \in Pairing!Pairings \cup {0}
    BY <1>2 DEF Pairing!Verifier, PairingInv, PairingShape, PageRow
  <2>3. redeem \in PageRequest /\ redeem.answer = "sent"
    BY <1>2, <2>2, FreshIsNat DEF PageRequest
  <2> HIDE DEF redeem
  <2>4. PairingShape' /\ \A t \in Screens : page'[t].cookie = page[t].cookie
    BY <1>1, <2>1, <2>3 DEF PairingInv, PairingShape, PageRow
  <2> QED BY <1>1, <2>1, <2>3, <2>4, SettledIfSame, PairingKept
<1>4. CASE ~(r.answer = "approved" /\ Pairing!Fresh <= MaxAttempts)
  <2> DEFINE gone == page[r.screen].expired \/ r.answer = "expired"
  <2>1. request' = request \ {r} /\ page' = [page EXCEPT ![r.screen].expired = gone]
    BY <1>4 DEF Pairing!StatusAnswered
  <2>2. gone \in BOOLEAN
    BY <1>2 DEF PairingInv, PairingShape, PageRow
  <2> HIDE DEF gone
  <2>3. PairingShape' /\ \A t \in Screens : page'[t].cookie = page[t].cookie
    BY <1>1, <2>1, <2>2 DEF PairingInv, PairingShape, PageRow
  <2> QED BY <1>1, <2>1, <2>3, SettledIfSame, PairingKept
<1> QED BY <1>3, <1>4

\* A redemption finds its pairing not redeemed, so nobody holds a credential of it yet.
LEMMA RedeemStep ==
  ASSUME NEW r \in request, PairingInv, Pairing!RedeemPairing(r)
  PROVE  PairingInv'
<1>1. UNCHANGED page /\ r \in PageRequest
  BY DEF Pairing!RedeemPairing, PairingInv, PairingShape
<1>2. r.pairing \in Pairing!Pairings /\ r.credential \in Nat
  BY <1>1 DEF PageRequest
<1>3. CASE Pairing!Redeemable(r.pairing) /\ r.verifier = r.pairing
  <2>1. /\ pairing' = [pairing EXCEPT ![r.pairing].redeemed = TRUE]
        /\ shown' = [shown EXCEPT ![r.pairing].credential = r.credential]
        /\ Pairing!Reply(r, "credential")
    BY <1>3 DEF Pairing!RedeemPairing
  <2>2. ~pairing[r.pairing].redeemed
    BY <1>3 DEF Pairing!Redeemable
  <2> DEFINE given == [r EXCEPT !.answer = "credential"]
  <2>3. /\ given \in PageRequest /\ given.pairing = r.pairing
        /\ given.credential = r.credential
    BY <1>1 DEF PageRequest
  <2>4. request' \subseteq (request \ {r}) \cup {given}
    BY <2>1 DEF Pairing!Reply, Pairing!Answered
  <2> HIDE DEF given
  <2>5. PairingShape'
    <3>1. pairing' \in [Pairing!Pairings -> PairingRow]
      BY <1>2, <2>1 DEF PairingInv, PairingShape, PairingRow
    <3>2. shown' \in [Pairing!Pairings -> DisplayRow]
      BY <1>2, <2>1 DEF PairingInv, PairingShape, DisplayRow
    <3> QED BY <1>1, <2>3, <2>4, <3>1, <3>2 DEF PairingInv, PairingShape
  <2>6. Settles
    BY <1>2, <2>1, <2>2 DEF PairingInv, PairingShape, PairingRow, DisplayRow, Settles
  <2>7. Accepted(given.pairing, given.credential)'
    BY <1>2, <2>1, <2>3 DEF PairingInv, PairingShape, PairingRow, DisplayRow, Accepted
  <2> QED BY <1>1, <2>4, <2>5, <2>6, <2>7, PairingKept
<1>4. CASE ~(Pairing!Redeemable(r.pairing) /\ r.verifier = r.pairing)
  <2> DEFINE refused == [r EXCEPT !.answer = "refused"]
  <2>1. UNCHANGED <<pairing, shown>> /\ request' \subseteq (request \ {r}) \cup {refused}
    BY <1>4 DEF Pairing!RedeemPairing, Pairing!Reply, Pairing!Answered
  <2>2. refused \in PageRequest /\ refused.answer # "credential"
    BY <1>1 DEF PageRequest
  <2> HIDE DEF refused
  <2>3. PairingShape'
    BY <1>1, <2>1, <2>2 DEF PairingInv, PairingShape
  <2> QED BY <1>1, <2>1, <2>2, <2>3, SettledIfSame, PairingKept
<1> QED BY <1>3, <1>4

LEMMA RedeemAnsweredStep ==
  ASSUME NEW r \in request, PairingInv, Pairing!RedeemAnswered(r)
  PROVE  PairingInv'
<1>1. UNCHANGED <<pairing, shown>> /\ request' = request \ {r} /\ r \in PageRequest
  BY DEF Pairing!RedeemAnswered, PairingInv, PairingShape
<1>2. /\ r.screen \in Screens /\ r.pairing \in Pairing!Pairings /\ r.credential \in Nat
  BY <1>1 DEF PageRequest
<1>3. CASE r.answer = "credential"
  <2> DEFINE cookie == [display |-> r.pairing, credential |-> r.credential]
  <2>1. page' = [page EXCEPT ![r.screen].cookie = cookie]
    BY <1>3 DEF Pairing!RedeemAnswered
  <2>2. /\ cookie \in Cookie /\ cookie.display = r.pairing
        /\ cookie.credential = r.credential
    BY <1>2 DEF Cookie
  <2> HIDE DEF cookie
  <2>3. PairingShape'
    BY <1>1, <2>1, <2>2 DEF PairingInv, PairingShape, PageRow
  <2>4. \A s \in Screens : page'[s].cookie = IF s = r.screen THEN cookie ELSE page[s].cookie
    BY <2>1 DEF PairingInv, PairingShape, PageRow
  <2>5. Accepted(r.pairing, r.credential)
    BY <1>3 DEF PairingInv, AnswersAccepted
  <2>6. CookiesAccepted'
    BY <1>1, <2>2, <2>4, <2>5 DEF PairingInv, CookiesAccepted, Accepted, Pairing!Paired
  <2> QED BY <1>1, <2>3, <2>6 DEF PairingInv, AnswersAccepted, Accepted
<1>4. CASE r.answer # "credential"
  <2>1. page' = [page EXCEPT ![r.screen].redeeming = FALSE]
    BY <1>4 DEF Pairing!RedeemAnswered
  <2>2. PairingShape' /\ \A t \in Screens : page'[t].cookie = page[t].cookie
    BY <1>1, <2>1 DEF PairingInv, PairingShape, PageRow
  <2> QED BY <1>1, <2>2, SettledIfSame, PairingKept
<1> QED BY <1>3, <1>4

LEMMA RequestLostStep ==
  ASSUME NEW r \in request, PairingInv, Pairing!RequestLost(r)
  PROVE  PairingInv'
<1> DEFINE unheard == [r EXCEPT !.answer = "unheard"]
<1>1. /\ UNCHANGED <<pairing, shown>> /\ request' \subseteq (request \ {r}) \cup {unheard}
      /\ page' = [page EXCEPT ![r.screen].redeeming = FALSE]
  BY DEF Pairing!RequestLost, Pairing!Answered
<1>2. unheard \in PageRequest /\ unheard.answer # "credential"
  BY DEF PairingInv, PairingShape, PageRequest
<1> HIDE DEF unheard
<1>3. PairingShape' /\ \A t \in Screens : page'[t].cookie = page[t].cookie
  BY <1>1, <1>2 DEF PairingInv, PairingShape, PageRow
<1> QED BY <1>1, <1>2, <1>3, SettledIfSame, PairingKept

LEMMA PairingInductive == PairingInv /\ [Pairing!Next]_PairingVars => PairingInv'
<1> SUFFICES ASSUME PairingInv, [Pairing!Next]_PairingVars PROVE PairingInv'
  OBVIOUS
<1>1. CASE UNCHANGED PairingVars
  BY <1>1 DEF PairingVars, PairingInv, PairingShape, CookiesAccepted, AnswersAccepted,
              Accepted, Pairing!Paired
<1>2. CASE Pairing!Next
  BY <1>2, StartPairingStep, TickStep, PairAgainStep, HouseholdPairingSteps, ReadStatusStep,
     StatusAnsweredStep, RedeemStep, RedeemAnsweredStep, RequestLostStep
     DEF Pairing!Next, Pairing!Answer
<1> QED BY <1>1, <1>2

\* A redemption never leaves a browser with a credential that the server does not
\* accept, however often and late the page of the screen redeems.
THEOREM PairedScreenAcceptedHolds == MCSpec => []PairedScreenAccepted
<1>1. MCInit => PairingInv
  BY PairingBegins DEF MCInit
<1>2. [MCNext]_MCVars => [Pairing!Next]_PairingVars
  BY DEF MCNext, MCVars, PairingVars
<1>3. PairingInv => PairedScreenAccepted
  BY DEF PairingInv, CookiesAccepted, Accepted, PairedScreenAccepted, Pairing!PairedScreenAccepted
<1> QED BY <1>1, <1>2, <1>3, PairingInductive, PTL DEF MCSpec

-----------------------------------------------------------------------------
(* AI settings.  Neither property is inductive: a key is right because the *)
(* edit that brings one says for which endpoint it was entered, and a      *)
(* stored result is right because the test that is under way has read the  *)
(* settings of its revision, and revisions only grow.                      *)

\* A key that is sent was entered for the endpoint that the edit results in.
EnteredForEndpoint ==
  \A e \in Editors : edit[e].entered = Ai!Normalized(edit[e].endpoint)

\* A test knows the settings of the revision that it read.
TestsKnowRevision ==
  \A t \in Testers :
    test[t].step = "asking" =>
      /\ test[t].rev <= settings.rev
      /\ test[t].rev = settings.rev =>
           test[t].endpoint = settings.endpoint /\ test[t].key = settings.key

AiInv == /\ Ai!TypeOK /\ EnteredForEndpoint /\ TestsKnowRevision
        /\ Ai!KeyStaysWithEndpoint /\ Ai!AvailabilityMeasured

-----------------------------------------------------------------------------
LEMMA NormalizedType ==
  ASSUME NEW x \in Ai!Endpoints
  PROVE  Ai!Normalized(x) \in Ai!Endpoints
BY DEF Ai!Normalized, Ai!Endpoints, Ai!Providers, Ai!Compatible

LEMMA EmptyIsNormal == Ai!Empty \in Ai!Endpoints /\ Ai!Normalized(Ai!Empty) = Ai!Empty
<1>1. Ai!Empty \in Ai!Endpoints
  BY DEF Ai!Empty, Ai!Endpoints, Ai!Providers
<1>2. Ai!Empty.provider # Ai!Compatible
  BY DEF Ai!Empty, Ai!Compatible
<1>3. [Ai!Empty EXCEPT !.url = Ai!NoUrl] = Ai!Empty
  BY DEF Ai!Empty
<1> QED BY <1>1, <1>2, <1>3 DEF Ai!Normalized

LEMMA InitAiInv == Ai!Init => AiInv
<1> SUFFICES ASSUME Ai!Init PROVE AiInv
  OBVIOUS
<1>1. Ai!NoKey \in Ai!Keys /\ Ai!Empty \in Ai!Endpoints /\ Ai!Empty \in Ai!Keys /\ Ai!Normalized(Ai!Empty) = Ai!Empty
  BY EmptyIsNormal DEF Ai!Keys
<1>2. settings \in Ai!Settings
  BY <1>1 DEF Ai!Init, Ai!Settings, Ai!NeverTested
<1>3. edit \in [Editors -> Ai!Edit]
  BY <1>1 DEF Ai!Init, Ai!Edit, Ai!NoEdit
<1>4. test \in [Testers -> Ai!Test]
  BY <1>1 DEF Ai!Init, Ai!Test, Ai!NoTest
<1>5. EnteredForEndpoint
  BY <1>1 DEF Ai!Init, Ai!NoEdit, EnteredForEndpoint
<1>6. TestsKnowRevision
  BY DEF Ai!Init, Ai!NoTest, TestsKnowRevision
<1>7. Ai!KeyStaysWithEndpoint /\ Ai!AvailabilityMeasured
  BY DEF Ai!Init, Ai!KeyStaysWithEndpoint, Ai!AvailabilityMeasured
<1> QED BY <1>2, <1>3, <1>4, <1>5, <1>6, <1>7 DEF AiInv, Ai!TypeOK

-----------------------------------------------------------------------------
(* Every edit ends in Ai!Store, with a key that fits its endpoint. *)

LEMMA StoreStep ==
  ASSUME AiInv, NEW e \in Editors, NEW key \in Ai!Keys,
         key = Ai!NoKey \/ key = Ai!Normalized(edit[e].endpoint),
         Ai!Store(e, key), Ai!Done(e), UNCHANGED test
  PROVE  AiInv'
<1>1. /\ edit[e] \in Ai!Edit /\ edit[e].endpoint \in Ai!Endpoints /\ settings.rev \in Nat
  BY DEF AiInv, Ai!TypeOK, Ai!Edit, Ai!Settings
<1>2. Ai!Normalized(edit[e].endpoint) \in Ai!Endpoints /\ Ai!Empty \in Ai!Endpoints /\ Ai!NoKey \in Ai!Keys
  BY <1>1, NormalizedType, EmptyIsNormal DEF Ai!Keys
<1>3. settings' \in Ai!Settings
  BY <1>1, <1>2 DEF Ai!Store, Ai!Settings, Ai!NeverTested
<1>4. edit' \in [Editors -> Ai!Edit] /\ EnteredForEndpoint'
  <2>1. Ai!NoEdit \in Ai!Edit /\ Ai!NoEdit.entered = Ai!Normalized(Ai!NoEdit.endpoint)
    BY EmptyIsNormal DEF Ai!NoEdit, Ai!Edit
  <2> QED BY <2>1 DEF Ai!Done, AiInv, Ai!TypeOK, EnteredForEndpoint
<1>5. test' \in [Testers -> Ai!Test]
  BY DEF AiInv, Ai!TypeOK
<1>6. TestsKnowRevision'
  <2> SUFFICES ASSUME NEW t \in Testers, test[t].step = "asking"
               PROVE  /\ test[t].rev \in Nat /\ settings'.rev \in Nat
                      /\ test[t].rev < settings'.rev
    BY DEF TestsKnowRevision
  <2>1. test[t].rev \in Nat /\ test[t].rev <= settings.rev
    BY DEF AiInv, Ai!TypeOK, TestsKnowRevision, Ai!Test
  <2>2. settings'.rev = settings.rev + 1
    BY DEF Ai!Store
  <2> QED BY <2>1, <2>2, <1>1
<1>7. Ai!KeyStaysWithEndpoint' /\ Ai!AvailabilityMeasured'
  BY DEF Ai!Store, Ai!KeyStaysWithEndpoint, Ai!AvailabilityMeasured, Ai!ShownStatus
<1> QED BY <1>3, <1>4, <1>5, <1>6, <1>7 DEF AiInv, Ai!TypeOK

LEMMA NextKeyFits ==
  ASSUME AiInv, NEW e \in Editors
  PROVE  Ai!NextKey(e) \in {Ai!NoKey, Ai!Normalized(edit[e].endpoint)}
<1>1. edit[e].entered = Ai!Normalized(edit[e].endpoint)
  BY DEF AiInv, EnteredForEndpoint
<1>2. settings.key \in {Ai!NoKey, settings.endpoint}
  BY DEF AiInv, Ai!KeyStaysWithEndpoint
<1> QED BY <1>1, <1>2 DEF Ai!NextKey

-----------------------------------------------------------------------------
LEMMA AiEditSteps ==
  ASSUME AiInv, NEW e \in Editors, Ai!UpdateSettings(e) \/ Ai!InsertSettings(e)
  PROVE  AiInv'
<1>1. edit[e].endpoint \in Ai!Endpoints /\ edit[e] \in Ai!Edit /\ Ai!NoEdit \in Ai!Edit
  BY EmptyIsNormal DEF AiInv, Ai!TypeOK, Ai!Edit, Ai!NoEdit
<1>2. Ai!Normalized(edit[e].endpoint) \in Ai!Keys /\ Ai!NoKey \in Ai!Keys
  BY <1>1, NormalizedType DEF Ai!Keys
<1>3. ASSUME edit' = [edit EXCEPT ![e].step = "insert"], UNCHANGED <<settings, test>>
      PROVE  AiInv'
  <2>1. edit' \in [Editors -> Ai!Edit]
    BY <1>1, <1>3 DEF AiInv, Ai!TypeOK, Ai!Edit
  <2>2. EnteredForEndpoint'
    BY <1>3 DEF AiInv, Ai!TypeOK, EnteredForEndpoint
  <2> QED BY <1>3, <2>1, <2>2 DEF AiInv, Ai!TypeOK, TestsKnowRevision, Ai!KeyStaysWithEndpoint,
                               Ai!AvailabilityMeasured, Ai!ShownStatus
<1>4. ASSUME Ai!Done(e), UNCHANGED <<settings, test>>
      PROVE  AiInv'
  <2>1. edit' \in [Editors -> Ai!Edit] /\ EnteredForEndpoint'
    BY <1>1, <1>4, EmptyIsNormal DEF AiInv, Ai!TypeOK, EnteredForEndpoint, Ai!Done, Ai!NoEdit
  <2> QED BY <1>4, <2>1 DEF AiInv, Ai!TypeOK, TestsKnowRevision, Ai!KeyStaysWithEndpoint,
                          Ai!AvailabilityMeasured, Ai!ShownStatus
<1>5. ASSUME Ai!Store(e, Ai!NextKey(e)), Ai!Done(e), UNCHANGED test
      PROVE  AiInv'
  BY <1>2, <1>5, NextKeyFits, StoreStep
<1>6. ASSUME Ai!Store(e, IF edit[e].key = "new" THEN edit[e].entered ELSE Ai!NoKey),
             Ai!Done(e), UNCHANGED test
      PROVE  AiInv'
  <2>1. edit[e].entered = Ai!Normalized(edit[e].endpoint)
    BY DEF AiInv, EnteredForEndpoint
  <2> DEFINE key == IF edit[e].key = "new" THEN edit[e].entered ELSE Ai!NoKey
  <2>2. key \in Ai!Keys /\ (key = Ai!NoKey \/ key = Ai!Normalized(edit[e].endpoint))
    BY <1>2, <2>1
  <2> QED BY <1>6, <2>2, StoreStep
<1>7. CASE Ai!UpdateSettings(e)
  BY <1>3, <1>4, <1>5, <1>7 DEF Ai!UpdateSettings
<1>8. CASE Ai!InsertSettings(e)
  BY <1>4, <1>6, <1>8 DEF Ai!InsertSettings
<1> QED BY <1>7, <1>8

LEMMA DraftStep ==
  ASSUME AiInv, NEW e \in Editors, NEW p \in Ai!Providers, NEW u \in Urls \cup {Ai!NoUrl},
         NEW k \in {"keep", "remove", "new"}, Ai!Draft(e, p, u, k)
  PROVE  AiInv'
<1> DEFINE drafted == [provider |-> p, url |-> u]
           new == [step |-> "sent", endpoint |-> drafted, key |-> k, rev |-> settings.rev,
                   entered |-> Ai!Normalized(drafted)]
<1>1. drafted \in Ai!Endpoints /\ Ai!Normalized(drafted) \in Ai!Endpoints
  BY NormalizedType DEF Ai!Endpoints
<1>2. edit' = [edit EXCEPT ![e] = new] /\ UNCHANGED <<settings, test>>
  BY DEF Ai!Draft
<1>3. new \in Ai!Edit /\ new.entered = Ai!Normalized(new.endpoint)
  <2> HIDE DEF drafted
  <2> QED BY <1>1 DEF Ai!Edit, AiInv, Ai!TypeOK, Ai!Settings
<1>4. edit' \in [Editors -> Ai!Edit] /\ EnteredForEndpoint'
  <2> HIDE DEF new
  <2> QED BY <1>2, <1>3 DEF AiInv, Ai!TypeOK, EnteredForEndpoint
<1> QED BY <1>2, <1>4 DEF AiInv, Ai!TypeOK, TestsKnowRevision, Ai!KeyStaysWithEndpoint,
                          Ai!AvailabilityMeasured, Ai!ShownStatus

LEMMA TestSteps ==
  ASSUME AiInv, NEW t \in Testers, Ai!AskProvider(t) \/ Ai!TestConnection(t) \/ Ai!TestLost(t)
  PROVE  AiInv'
<1>1. Ai!NoTest \in Ai!Test /\ Ai!NoTest.step = "none"
  BY EmptyIsNormal DEF Ai!NoTest, Ai!Test, Ai!Keys
<1>2. CASE Ai!AskProvider(t)
  <2>1. [step |-> "asking", rev |-> settings.rev, endpoint |-> settings.endpoint,
         key |-> settings.key] \in Ai!Test
    BY DEF AiInv, Ai!TypeOK, Ai!Settings, Ai!Test
  <2>2. test' \in [Testers -> Ai!Test]
    BY <1>2, <2>1 DEF Ai!AskProvider, AiInv, Ai!TypeOK
  <2>3. TestsKnowRevision'
    BY <1>2 DEF Ai!AskProvider, AiInv, Ai!TypeOK, TestsKnowRevision, Ai!Settings
  <2> QED BY <1>2, <2>2, <2>3 DEF Ai!AskProvider, AiInv, Ai!TypeOK, EnteredForEndpoint,
                            Ai!KeyStaysWithEndpoint, Ai!AvailabilityMeasured, Ai!ShownStatus
<1>3. CASE Ai!TestLost(t)
  <2>1. test' \in [Testers -> Ai!Test] /\ TestsKnowRevision'
    BY <1>1, <1>3 DEF Ai!TestLost, AiInv, Ai!TypeOK, TestsKnowRevision
  <2> QED BY <1>3, <2>1 DEF Ai!TestLost, AiInv, Ai!TypeOK, EnteredForEndpoint,
                            Ai!KeyStaysWithEndpoint, Ai!AvailabilityMeasured, Ai!ShownStatus
<1>4. CASE Ai!TestConnection(t)
  <2>1. PICK result \in Ai!Results : Ai!StoreResult(t, result)
    BY <1>4 DEF Ai!TestConnection, Ai!Results
  <2>2. test[t].step = "asking" /\ test' = [test EXCEPT ![t] = Ai!NoTest] /\ edit' = edit
    BY <1>4 DEF Ai!TestConnection
  <2>3. /\ settings'.rev = settings.rev /\ settings'.endpoint = settings.endpoint
        /\ settings'.key = settings.key
    BY <2>1 DEF Ai!StoreResult, AiInv, Ai!TypeOK, Ai!Settings
  <2>4. settings' \in Ai!Settings
    BY <2>1 DEF Ai!StoreResult, AiInv, Ai!TypeOK, Ai!Settings, Ai!Test, Ai!Results
  <2>5. test' \in [Testers -> Ai!Test] /\ TestsKnowRevision'
    BY <1>1, <2>2, <2>3 DEF AiInv, Ai!TypeOK, TestsKnowRevision
  <2>6. Ai!AvailabilityMeasured'
    <3>1. CASE settings.rev > 0 /\ settings.rev = test[t].rev
      <4>1. settings'.tested = [endpoint |-> test[t].endpoint, key |-> test[t].key]
        BY <2>1, <3>1 DEF Ai!StoreResult, AiInv, Ai!TypeOK, Ai!Settings
      <4>2. test[t].endpoint = settings.endpoint /\ test[t].key = settings.key
        BY <2>2, <3>1 DEF AiInv, TestsKnowRevision
      <4> QED BY <2>3, <4>1, <4>2 DEF Ai!AvailabilityMeasured
    <3>2. CASE ~(settings.rev > 0 /\ settings.rev = test[t].rev)
      BY <2>1, <3>2 DEF Ai!StoreResult, AiInv, Ai!AvailabilityMeasured, Ai!ShownStatus
    <3> QED BY <3>1, <3>2
  <2> QED BY <2>2, <2>3, <2>4, <2>5, <2>6 DEF AiInv, Ai!TypeOK, EnteredForEndpoint,
                                          Ai!KeyStaysWithEndpoint
<1> QED BY <1>2, <1>3, <1>4

LEMMA NextAiInv == AiInv /\ [Ai!Next]_AiVars => AiInv'
<1> SUFFICES ASSUME AiInv, [Ai!Next]_AiVars PROVE AiInv'
  OBVIOUS
<1>1. CASE Ai!Next
  BY <1>1, AiEditSteps, DraftStep, TestSteps DEF Ai!Next
<1>2. CASE UNCHANGED AiVars
  BY <1>2 DEF AiVars, AiInv, Ai!TypeOK, EnteredForEndpoint, TestsKnowRevision,
              Ai!KeyStaysWithEndpoint, Ai!AvailabilityMeasured, Ai!ShownStatus
<1> QED BY <1>1, <1>2

LEMMA AiInvHolds == MCSpec => []AiInv
<1>1. MCInit => AiInv
  BY InitAiInv DEF MCInit
<1>2. [MCNext]_MCVars => [Ai!Next]_AiVars
  BY DEF MCNext, MCVars, AiVars
<1> QED BY <1>1, <1>2, NextAiInv, PTL DEF MCSpec

\* settingsDto never shows the result of a test of other settings than the stored
\* ones, whatever edits and tests overlap.
THEOREM AvailabilityMeasuredHolds == MCSpec => []AvailabilityMeasured
<1>1. AiInv => AvailabilityMeasured
  BY DEF AiInv, AvailabilityMeasured
<1> QED BY <1>1, AiInvHolds, PTL

\* updateSettings never leaves a key to a provider or an address that it was not
\* entered for.
THEOREM KeyStaysWithEndpointHolds == MCSpec => []KeyStaysWithEndpoint
<1>1. AiInv => KeyStaysWithEndpoint
  BY DEF AiInv, KeyStaysWithEndpoint
<1> QED BY <1>1, AiInvHolds, PTL

-----------------------------------------------------------------------------
(* Invitations.  An account has at most one link that is neither used nor  *)
(* revoked, and it has one exactly as long as it has no password.          *)

Link == [status : {"none", "open", "revoked", "accepted"}, expired : BOOLEAN]
Rows == {Invitation!Installation, Invitation!Account}
          \cup {Invitation!Invitation(i) : i \in Invitation!Invitations}
Transaction == [kind : {"none", "create", "reissue", "disable", "accept"},
                waits : SUBSET Rows, holds : SUBSET Rows,
                link : Invitation!Invitations \cup {0}, base : Nat, disable : BOOLEAN]

AccessShape ==
  /\ login \in [there : BOOLEAN, password : BOOLEAN, disabled : BOOLEAN, rev : Nat]
  /\ invitation \in [Invitation!Invitations -> Link]
  /\ serving \in [Requests -> Transaction]
  /\ \A q \in Requests : serving[q].kind = "accept" => serving[q].link \in Invitation!Invitations

OpenLinks == {i \in Invitation!Invitations : Invitation!Open(i)}

LinkFits ==
  /\ ~login.there => ~login.password /\ \A i \in Invitation!Invitations : invitation[i].status = "none"
  /\ login.password => OpenLinks = {}
  /\ login.there /\ ~login.password => \E i \in Invitation!Invitations : OpenLinks = {i}

AccessInv == AccessShape /\ LinkFits

LEMMA FirstLink == 1 \in Invitation!Invitations
BY InvitationBound DEF Invitation!Invitations

LEMMA UnservedType == Invitation!Unserved \in Transaction /\ Invitation!Unserved.kind = "none"
BY DEF Invitation!Unserved, Transaction

LEMMA AccessBegins == Invitation!AccessInit => AccessInv
<1> SUFFICES ASSUME Invitation!AccessInit PROVE AccessInv
  OBVIOUS
<1>1. AccessShape
  BY UnservedType DEF Invitation!AccessInit, AccessShape, Link
<1>2. LinkFits
  BY DEF Invitation!AccessInit, LinkFits, OpenLinks, Invitation!Open
<1> QED BY <1>1, <1>2 DEF AccessInv

\* Requests that begin, wait for rows or end without a write.
LEMMA ServingStep ==
  ASSUME AccessInv, NEW q \in Requests, UNCHANGED <<login, invitation>>,
         NEW t \in Transaction, serving' = [serving EXCEPT ![q] = t],
         t.kind = "accept" => t.link \in Invitation!Invitations
  PROVE  AccessInv'
BY DEF AccessInv, AccessShape, LinkFits, OpenLinks, Invitation!Open

LEMMA BeginStep ==
  ASSUME AccessInv, NEW q \in Requests, NEW kind \in {"create", "reissue", "disable", "accept"},
         NEW item \in Rows, NEW link \in Invitation!Invitations \cup {0}, NEW base \in Nat,
         NEW disable \in BOOLEAN, kind = "accept" => link \in Invitation!Invitations,
         Invitation!Begin(q, kind, item, link, base, disable)
  PROVE  AccessInv'
<1> DEFINE t == [kind |-> kind, waits |-> {item}, holds |-> {}, link |-> link,
                 base |-> base, disable |-> disable]
<1>1. t \in Transaction /\ t.kind = kind /\ t.link = link
  BY DEF Transaction
<1>2. serving' = [serving EXCEPT ![q] = t] /\ UNCHANGED <<login, invitation>>
  BY DEF Invitation!Begin
<1> HIDE DEF t
<1> QED BY <1>1, <1>2, ServingStep

LEMMA AskSteps ==
  ASSUME AccessInv, NEW q \in Requests,
         \/ Invitation!AskCreate(q) \/ Invitation!AskReissue(q)
         \/ \E d \in BOOLEAN : Invitation!AskDisable(q, d)
         \/ \E i \in Invitation!Invitations : Invitation!AskAccept(q, i)
  PROVE  AccessInv'
<1>1. Invitation!Installation \in Rows /\ login.rev \in Nat
  BY DEF Rows, AccessInv, AccessShape
<1>2. \A i \in Invitation!Invitations : Invitation!Invitation(i) \in Rows
  BY DEF Rows
<1>3. CASE Invitation!AskCreate(q)
  BY <1>1, <1>3, BeginStep DEF Invitation!AskCreate
<1>4. CASE Invitation!AskReissue(q)
  BY <1>1, <1>4, BeginStep DEF Invitation!AskReissue
<1>5. CASE \E d \in BOOLEAN : Invitation!AskDisable(q, d)
  BY <1>1, <1>5, BeginStep DEF Invitation!AskDisable
<1>6. CASE \E i \in Invitation!Invitations : Invitation!AskAccept(q, i)
  BY <1>2, <1>6, BeginStep DEF Invitation!AskAccept
<1> QED BY <1>3, <1>4, <1>5, <1>6

LEMMA LockStep ==
  ASSUME AccessInv, NEW q \in Requests, Invitation!Lock(q)
  PROVE  AccessInv'
<1>1. serving[q] \in Transaction
  BY DEF AccessInv, AccessShape
<1>2. PICK item \in serving[q].waits :
        serving' = [serving EXCEPT ![q].holds = @ \cup {item},
                                   ![q].waits = Invitation!LockedAfter(q, item)]
  BY DEF Invitation!Lock
<1>3. item \in Rows /\ Invitation!LockedAfter(q, item) \in SUBSET Rows
  <2>1. item \in Rows
    BY <1>1 DEF Transaction
  <2> QED BY <2>1 DEF Invitation!LockedAfter, Rows
<1> DEFINE waits == Invitation!LockedAfter(q, item)
           t == [serving[q] EXCEPT !.holds = @ \cup {item}, !.waits = waits]
<1>4. serving' = [serving EXCEPT ![q] = t]
  BY <1>2 DEF AccessInv, AccessShape
<1>5. t \in Transaction /\ t.kind = serving[q].kind /\ t.link = serving[q].link
  <2>1. waits \in SUBSET Rows
    BY <1>3
  <2> HIDE DEF waits
  <2> QED BY <1>1, <1>3, <2>1 DEF Transaction
<1>6. t.kind = "accept" => t.link \in Invitation!Invitations
  BY <1>5 DEF AccessInv, AccessShape
<1>7. UNCHANGED <<login, invitation>>
  BY DEF Invitation!Lock
<1> HIDE DEF t
<1> QED BY <1>4, <1>5, <1>6, <1>7, ServingStep

LEMMA AbortStep ==
  ASSUME AccessInv, NEW q \in Requests, Invitation!Abort(q)
  PROVE  AccessInv'
BY UnservedType, ServingStep DEF Invitation!Abort, Invitation!End

\* The end of a transaction that wrote.
LEMMA EndKeepsServing ==
  ASSUME AccessInv, NEW q \in Requests, Invitation!End(q)
  PROVE  /\ serving' \in [Requests -> Transaction]
         /\ \A p \in Requests : serving'[p].kind = "accept" => serving'[p].link \in Invitation!Invitations
BY UnservedType DEF Invitation!End, AccessInv, AccessShape

LEMMA CreateStep ==
  ASSUME AccessInv, NEW q \in Requests, NEW password \in BOOLEAN, Invitation!Create(q, password)
  PROVE  AccessInv'
<1>1. /\ ~login.there /\ Invitation!End(q)
      /\ login' = [login EXCEPT !.there = TRUE, !.password = password]
      /\ invitation' = IF password THEN invitation ELSE [invitation EXCEPT ![1].status = "open"]
  BY DEF Invitation!Create
<1>2. AccessShape'
  <2>1. invitation' \in [Invitation!Invitations -> Link]
    BY <1>1, FirstLink DEF AccessInv, AccessShape, Link
  <2>2. login' \in [there : BOOLEAN, password : BOOLEAN, disabled : BOOLEAN, rev : Nat]
    BY <1>1 DEF AccessInv, AccessShape
  <2> QED BY <1>1, <2>1, <2>2, EndKeepsServing DEF AccessShape
<1>3. login'.there /\ login'.password = password
  BY <1>1 DEF AccessInv, AccessShape
<1>4. OpenLinks' = IF password THEN {} ELSE {1}
  BY <1>1, FirstLink DEF AccessInv, AccessShape, Link, LinkFits, OpenLinks, Invitation!Open
<1> QED BY <1>2, <1>3, <1>4, FirstLink DEF AccessInv, LinkFits

LEMMA ReissueStep ==
  ASSUME AccessInv, NEW q \in Requests, Invitation!Reissue(q)
  PROVE  AccessInv'
<1>1. PICK i \in Invitation!Invitations :
        invitation' = [j \in Invitation!Invitations |->
            IF j = i THEN [status |-> "open", expired |-> FALSE]
            ELSE IF Invitation!Open(j) THEN [invitation[j] EXCEPT !.status = "revoked"]
            ELSE invitation[j]]
  BY DEF Invitation!Reissue
<1>2. /\ login' = [login EXCEPT !.rev = @ + 1] /\ Invitation!End(q)
      /\ login.there /\ ~login.password
  BY DEF Invitation!Reissue, Invitation!Reissuable, Invitation!Pending
<1>3. AccessShape'
  <2>1. invitation' \in [Invitation!Invitations -> Link]
    BY <1>1 DEF AccessInv, AccessShape, Link
  <2>2. login' \in [there : BOOLEAN, password : BOOLEAN, disabled : BOOLEAN, rev : Nat]
    BY <1>2 DEF AccessInv, AccessShape
  <2> QED BY <1>2, <2>1, <2>2, EndKeepsServing DEF AccessShape
<1>4. login'.there /\ ~login'.password
  BY <1>2 DEF AccessInv, AccessShape
<1>5. OpenLinks' = {i}
  <2>1. \A j \in Invitation!Invitations : (invitation'[j].status = "open") <=> j = i
    BY <1>1 DEF AccessInv, AccessShape, Link, Invitation!Open
  <2> QED BY <2>1 DEF OpenLinks, Invitation!Open
<1> QED BY <1>3, <1>4, <1>5 DEF AccessInv, LinkFits

LEMMA DisableStep ==
  ASSUME AccessInv, NEW q \in Requests, Invitation!Disable(q)
  PROVE  AccessInv'
<1>1. /\ login' = [login EXCEPT !.disabled = serving[q].disable, !.rev = @ + 1]
      /\ Invitation!End(q) /\ UNCHANGED invitation
  BY DEF Invitation!Disable
<1>2. serving[q].disable \in BOOLEAN
  BY DEF AccessInv, AccessShape, Transaction
<1>3. /\ login' \in [there : BOOLEAN, password : BOOLEAN, disabled : BOOLEAN, rev : Nat]
      /\ login'.there = login.there /\ login'.password = login.password
  <2> DEFINE next == login.rev + 1
             disabled == serving[q].disable
  <2>1. next \in Nat /\ disabled \in BOOLEAN
    BY <1>2 DEF AccessInv, AccessShape
  <2>2. login' = [login EXCEPT !.disabled = disabled, !.rev = next]
    BY <1>1
  <2> HIDE DEF next, disabled
  <2> QED BY <2>1, <2>2 DEF AccessInv, AccessShape
<1>4. AccessShape'
  BY <1>1, <1>3, EndKeepsServing DEF AccessInv, AccessShape
<1> QED BY <1>1, <1>3, <1>4 DEF AccessInv, LinkFits, OpenLinks, Invitation!Open

LEMMA AcceptStep ==
  ASSUME AccessInv, NEW q \in Requests, Invitation!Accept(q)
  PROVE  AccessInv'
<1> DEFINE i == serving[q].link
<1>1. /\ login' = [login EXCEPT !.password = TRUE, !.rev = @ + 1]
      /\ invitation' = [invitation EXCEPT ![i].status = "accepted"]
      /\ Invitation!End(q) /\ Invitation!Open(i) /\ serving[q].kind = "accept"
  BY DEF Invitation!Accept, Invitation!Acceptable
<1>2. i \in Invitation!Invitations
  BY <1>1 DEF AccessInv, AccessShape
<1> HIDE DEF i
<1>3. AccessShape'
  <2>1. invitation' \in [Invitation!Invitations -> Link]
    BY <1>1 DEF AccessInv, AccessShape, Link
  <2>2. login' \in [there : BOOLEAN, password : BOOLEAN, disabled : BOOLEAN, rev : Nat]
    <3> DEFINE next == login.rev + 1
    <3>1. next \in Nat /\ login' = [login EXCEPT !.password = TRUE, !.rev = next]
      BY <1>1 DEF AccessInv, AccessShape
    <3> HIDE DEF next
    <3> QED BY <3>1 DEF AccessInv, AccessShape
  <2> QED BY <1>1, <2>1, <2>2, EndKeepsServing DEF AccessShape
<1>4. login.there /\ ~login.password
  BY <1>1, <1>2 DEF AccessInv, LinkFits, OpenLinks, Invitation!Open
<1>5. login'.there /\ login'.password
  BY <1>1, <1>4 DEF AccessInv, AccessShape
<1>6. OpenLinks = {i}
  BY <1>1, <1>2, <1>4 DEF AccessInv, LinkFits, OpenLinks
<1>7. OpenLinks' = {}
  BY <1>1, <1>2, <1>6 DEF AccessInv, AccessShape, Link, OpenLinks, Invitation!Open
<1> QED BY <1>3, <1>5, <1>7 DEF AccessInv, LinkFits

LEMMA ExpireStep ==
  ASSUME AccessInv, NEW i \in Invitation!Invitations, Invitation!Expire(i)
  PROVE  AccessInv'
<1>1. invitation' = [invitation EXCEPT ![i].expired = TRUE] /\ UNCHANGED <<login, serving>>
  BY DEF Invitation!Expire
<1>2. AccessShape' /\ \A j \in Invitation!Invitations : invitation'[j].status = invitation[j].status
  BY <1>1 DEF AccessInv, AccessShape, Link
<1> QED BY <1>1, <1>2 DEF AccessInv, LinkFits, OpenLinks, Invitation!Open

LEMMA AccessInductive == AccessInv /\ [Invitation!AccessNext]_InvitationVars => AccessInv'
<1> SUFFICES ASSUME AccessInv, [Invitation!AccessNext]_InvitationVars PROVE AccessInv'
  OBVIOUS
<1>1. CASE UNCHANGED InvitationVars
  BY <1>1 DEF InvitationVars, AccessInv, AccessShape, LinkFits, OpenLinks, Invitation!Open
<1>2. CASE Invitation!AccessNext
  BY <1>2, AskSteps, LockStep, AbortStep, CreateStep, ReissueStep, DisableStep, AcceptStep,
     ExpireStep DEF Invitation!AccessNext
<1> QED BY <1>1, <1>2

\* An account waits for its first password with exactly one link that works, and has
\* none afterwards, for any number of requests that overlap and are aborted.
THEOREM InvitationMatchesAccountHolds == MCSpec => []InvitationMatchesAccount
<1>1. MCInit => AccessInv
  BY AccessBegins DEF MCInit
<1>2. [MCNext]_MCVars => [Invitation!AccessNext]_InvitationVars
  BY DEF MCNext, MCVars, InvitationVars
<1>3. ASSUME AccessInv PROVE InvitationMatchesAccount
  <2>1. login.there => Cardinality(OpenLinks) = IF login.password THEN 0 ELSE 1
    BY <1>3, FS_EmptySet, FS_Singleton DEF AccessInv, AccessShape, LinkFits
  <2>2. Invitation!Cardinality(OpenLinks) = Cardinality(OpenLinks)
    BY DEF Invitation!Cardinality, Cardinality
  <2> QED BY <2>1, <2>2 DEF InvitationMatchesAccount, Invitation!InvitationMatchesAccount, OpenLinks
<1> QED BY <1>1, <1>2, <1>3, AccessInductive, PTL DEF MCSpec

-----------------------------------------------------------------------------
(* The claim.  The row of the installation is held by one request at a     *)
(* time, and what its holder saw of it is still so when it writes.         *)

Tab == [view : {"loading", "error", "public", "member"}, claimed : BOOLEAN,
        form : {"welcome", "claim"}, busy : Slots \cup {NoSlot}, session : BOOLEAN]
Req == [kind : {"none", "status", "me", "login", "begin", "claim", "demo"},
        tab : Browsers \cup {"none"}, token : Nat,
        at : {"none", "sent", "claiming", "locked", "answered"},
        saw : BOOLEAN, holds : BOOLEAN, awaited : BOOLEAN, got : BOOLEAN]

\* A slot is free, or a request of a browser uses it.
Sound(r) == r = Setup!NoRequest \/ (r.kind # "none" /\ r.tab \in Browsers)

ClaimShape ==
  /\ installation \in [there : BOOLEAN, claimed : BOOLEAN, token : Nat, tokens : Nat,
                       households : Nat]
  /\ tab \in [Browsers -> Tab]
  /\ req \in [Slots -> Req]
  /\ \A s \in Slots : Sound(req[s])

OneHolder ==
  /\ \A r, s \in Slots : req[r].holds /\ req[s].holds => r = s
  /\ \A s \in Slots : req[s].holds => installation.there /\ req[s].saw = installation.claimed
  /\ installation.claimed => installation.there

Claimed == /\ installation.households = IF installation.claimed THEN 1 ELSE 0
           /\ installation.claimed => installation.token = 0

ClaimInv == ClaimShape /\ OneHolder /\ Claimed

LEMMA NoRequestType == /\ Setup!NoRequest \in Req /\ ~Setup!NoRequest.holds
                       /\ Setup!NoRequest.kind = "none"
BY DEF Setup!NoRequest, Req

LEMMA AskingType ==
  ASSUME NEW kind \in {"status", "me", "login", "begin", "claim", "demo"}, NEW b \in Browsers,
         NEW token \in Nat
  PROVE  /\ Setup!Asking(kind, b, token) \in Req /\ ~Setup!Asking(kind, b, token).holds
         /\ Sound(Setup!Asking(kind, b, token))
BY DEF Setup!Asking, Setup!NoRequest, Req, Sound

LEMMA ClaimBegins == Setup!ClaimInit => ClaimInv
<1> SUFFICES ASSUME Setup!ClaimInit PROVE ClaimInv
  OBVIOUS
<1>1. /\ installation.claimed = FALSE /\ installation.households = 0
      /\ installation \in [there : BOOLEAN, claimed : BOOLEAN, token : Nat, tokens : Nat,
                           households : Nat]
  BY DEF Setup!ClaimInit
<1>2. tab \in [Browsers -> Tab]
  BY DEF Setup!ClaimInit, Tab
<1>3. req \in [Slots -> Req] /\ \A s \in Slots : Sound(req[s]) /\ ~req[s].holds
  BY NoRequestType DEF Setup!ClaimInit, Sound
<1> QED BY <1>1, <1>2, <1>3 DEF ClaimInv, ClaimShape, OneHolder, Claimed

LEMMA UsedSlot ==
  ASSUME ClaimInv, NEW s \in Slots
  PROVE  /\ req[s].kind # "none" => req[s].tab \in Browsers
         /\ req[s].kind = "none" => req[s] = Setup!NoRequest
BY NoRequestType DEF ClaimInv, ClaimShape, Sound

\* Steps of one request that leave the installation as it is and take no lock.
LEMMA ReqStep ==
  ASSUME ClaimInv, UNCHANGED installation, tab' \in [Browsers -> Tab],
         NEW s \in Slots, NEW r \in Req, req' = [req EXCEPT ![s] = r],
         r.holds => req[s].holds /\ r.saw = req[s].saw,
         Sound(r)
  PROVE  ClaimInv'
<1>1. ClaimShape'
  BY DEF ClaimInv, ClaimShape
<1>2. \A t \in Slots : req'[t].holds => req[t].holds /\ req'[t].saw = req[t].saw
  BY DEF ClaimInv, ClaimShape
<1>3. OneHolder'
  BY <1>2 DEF ClaimInv, OneHolder
<1> QED BY <1>1, <1>3 DEF ClaimInv, Claimed

\* A page that shows something else.
LEMMA ShowStep ==
  ASSUME ClaimInv, NEW b \in Browsers, NEW t \in Tab, Setup!Show(b, t)
  PROVE  tab' \in [Browsers -> Tab]
<1>1. [t EXCEPT !.busy = NoSlot] \in Tab
  BY DEF Tab
<1> QED BY <1>1 DEF Setup!Show, ClaimInv, ClaimShape

LEMMA SettledStep ==
  ASSUME ClaimInv, NEW b \in Browsers, NEW s, NEW t \in Tab, Setup!Settled(b, s, t)
  PROVE  tab' \in [Browsers -> Tab]
<1> DEFINE free == [t EXCEPT !.busy = IF t.busy = s THEN NoSlot ELSE t.busy]
<1>1. free \in Tab
  BY DEF Tab
<1>2. Setup!Show(b, free)
  BY DEF Setup!Settled
<1> HIDE DEF free
<1> QED BY <1>1, <1>2, ShowStep

-----------------------------------------------------------------------------
(* What people do *)

LEMMA AskStep ==
  ASSUME ClaimInv, UNCHANGED installation, tab' \in [Browsers -> Tab], NEW s \in Slots,
         NEW b \in Browsers, NEW kind \in {"status", "me", "login", "begin", "claim", "demo"},
         Setup!Ask(s, kind, b, 0)
  PROVE  ClaimInv'
<1>1. req' = [req EXCEPT ![s] = Setup!Asking(kind, b, 0)]
  BY DEF Setup!Ask
<1> QED BY <1>1, AskingType, ReqStep

LEMMA PageSteps ==
  ASSUME ClaimInv, NEW b \in Browsers, Setup!OpenClaim(b) \/ Setup!Back(b)
  PROVE  ClaimInv'
<1>1. UNCHANGED <<installation, req>>
  BY DEF Setup!OpenClaim, Setup!Back
<1>2. \A f \in {"welcome", "claim"} : [tab[b] EXCEPT !.form = f] \in Tab
  BY DEF ClaimInv, ClaimShape, Tab
<1>3. tab' \in [Browsers -> Tab]
  BY <1>2, ShowStep DEF Setup!OpenClaim, Setup!Back
<1> QED BY <1>1, <1>3 DEF ClaimInv, ClaimShape, OneHolder, Claimed

LEMMA CallSteps ==
  ASSUME ClaimInv, NEW b \in Browsers, NEW s \in Slots,
         \/ Setup!Open(b, s) \/ Setup!Retry(b, s) \/ Setup!StartDemo(b, s)
         \/ Setup!SubmitClaim(b, s) \/ Setup!SignIn(b, s)
  PROVE  ClaimInv'
<1>1. UNCHANGED installation
  BY DEF Setup!Open, Setup!Retry, Setup!StartDemo, Setup!SubmitClaim, Setup!SignIn,
         Setup!Working, Setup!Click
<1>2. PICK kind \in {"status", "demo", "begin", "login"} : Setup!Ask(s, kind, b, 0)
  BY DEF Setup!Open, Setup!Retry, Setup!StartDemo, Setup!SubmitClaim, Setup!SignIn, Setup!Working
<1>3. tab' = tab \/ tab' = [tab EXCEPT ![b].busy = s]
  BY DEF Setup!Open, Setup!Retry, Setup!StartDemo, Setup!SubmitClaim, Setup!SignIn, Setup!Working
<1>4. tab' \in [Browsers -> Tab]
  BY <1>3 DEF ClaimInv, ClaimShape, Tab
<1> QED BY <1>1, <1>2, <1>4, AskStep

-----------------------------------------------------------------------------
(* The server *)

LEMMA ReplyType ==
  ASSUME ClaimInv, NEW s \in Slots, req[s].kind # "none", NEW ok \in BOOLEAN,
         NEW token \in Nat, Setup!Reply(s, ok, token)
  PROVE  \E r \in Req : req' = [req EXCEPT ![s] = r] /\ ~r.holds /\ Sound(r)
<1> DEFINE r == [req[s] EXCEPT !.at = "answered", !.got = ok, !.token = token, !.holds = FALSE]
<1>1. req[s] \in Req /\ req[s].tab \in Browsers
  BY UsedSlot DEF ClaimInv, ClaimShape
<1>2. req' = [req EXCEPT ![s] = r]
  BY DEF Setup!Reply, ClaimInv, ClaimShape
<1>3. r \in Req /\ ~r.holds /\ r.tab = req[s].tab /\ r.kind = req[s].kind
  BY <1>1 DEF Req
<1> HIDE DEF r
<1> QED BY <1>1, <1>2, <1>3 DEF Sound

LEMMA AnswerStep ==
  ASSUME ClaimInv, NEW s \in Slots, req[s].kind # "none", NEW ok \in BOOLEAN,
         NEW token \in Nat, Setup!Reply(s, ok, token), UNCHANGED <<installation, tab>>
  PROVE  ClaimInv'
<1>1. PICK r \in Req : req' = [req EXCEPT ![s] = r] /\ ~r.holds /\ Sound(r)
  BY ReplyType
<1>2. tab' \in [Browsers -> Tab]
  BY DEF ClaimInv, ClaimShape
<1> QED BY <1>1, <1>2, ReqStep

\* The holder of the row, or the request that inserts it, writes and answers.
LEMMA WriteStep ==
  ASSUME ClaimInv, NEW s \in Slots, req[s].kind # "none", NEW ok \in BOOLEAN,
         NEW token \in Nat, Setup!Reply(s, ok, token), UNCHANGED tab,
         installation' \in [there : BOOLEAN, claimed : BOOLEAN, token : Nat, tokens : Nat,
                            households : Nat],
         installation'.there, req[s].holds \/ ~installation.there, Claimed'
  PROVE  ClaimInv'
<1>1. PICK r \in Req : req' = [req EXCEPT ![s] = r] /\ ~r.holds /\ Sound(r)
  BY ReplyType
<1>2. ClaimShape'
  BY <1>1 DEF ClaimInv, ClaimShape
<1>3. \A t \in Slots : ~req'[t].holds
  BY <1>1 DEF ClaimInv, ClaimShape, OneHolder
<1> QED BY <1>2, <1>3 DEF ClaimInv, OneHolder

LEMMA LockRowStep ==
  ASSUME ClaimInv, NEW s \in Slots, Setup!LockRow(s)
  PROVE  ClaimInv'
<1> DEFINE r == [req[s] EXCEPT !.at = "locked", !.holds = installation.there,
                               !.saw = installation.claimed]
<1>1. UNCHANGED <<installation, tab>> /\ req[s].kind # "none"
  BY DEF Setup!LockRow, Setup!At
<1>2. req' = [req EXCEPT ![s] = r]
  BY DEF Setup!LockRow, ClaimInv, ClaimShape
<1>3. /\ r \in Req /\ r.holds = installation.there /\ r.saw = installation.claimed
      /\ r.tab = req[s].tab /\ r.kind = req[s].kind
  BY DEF ClaimInv, ClaimShape, Req
<1>4. installation.there => \A t \in Slots : ~req[t].holds
  BY DEF Setup!LockRow, Setup!Lockable
<1> HIDE DEF r
<1>5. ClaimShape'
  BY <1>1, <1>2, <1>3, UsedSlot DEF ClaimInv, ClaimShape, Sound
<1>6. OneHolder'
  BY <1>1, <1>2, <1>3, <1>4 DEF ClaimInv, ClaimShape, OneHolder
<1> QED BY <1>1, <1>5, <1>6 DEF ClaimInv, Claimed

LEMMA BeginClaimStep ==
  ASSUME ClaimInv, NEW s \in Slots, Setup!Begin(s)
  PROVE  ClaimInv'
<1>1. req[s].kind = "begin" /\ UNCHANGED tab
  BY DEF Setup!Begin, Setup!At
<1> DEFINE next == installation.tokens + 1
<1>2. next \in Nat
  BY DEF ClaimInv, ClaimShape
<1>3. CASE req[s].saw \/ (installation.there /\ ~req[s].holds)
  BY <1>1, <1>3, AnswerStep DEF Setup!Begin
<1>4. CASE ~(req[s].saw \/ (installation.there /\ ~req[s].holds))
  <2>1. /\ installation' = [installation EXCEPT !.there = TRUE, !.token = next, !.tokens = next]
        /\ Setup!Reply(s, TRUE, next)
    BY <1>4 DEF Setup!Begin
  <2>2. ~installation.claimed /\ (req[s].holds \/ ~installation.there)
    BY <1>4 DEF ClaimInv, OneHolder
  <2> HIDE DEF next
  <2>3. installation' \in [there : BOOLEAN, claimed : BOOLEAN, token : Nat, tokens : Nat,
                           households : Nat]
    BY <1>2, <2>1 DEF ClaimInv, ClaimShape
  <2>4. /\ installation'.there /\ installation'.claimed = installation.claimed
        /\ installation'.households = installation.households
    BY <2>1 DEF ClaimInv, ClaimShape
  <2>5. Claimed'
    BY <2>2, <2>4 DEF ClaimInv, Claimed
  <2> QED BY <1>1, <1>2, <2>1, <2>2, <2>3, <2>4, <2>5, WriteStep
<1> QED BY <1>3, <1>4

LEMMA DemoInsertStep ==
  ASSUME ClaimInv, NEW s \in Slots, Setup!LookAndInsert(s)
  PROVE  ClaimInv'
<1> DEFINE r == [req[s] EXCEPT !.at = "claiming"]
           next == installation.tokens + 1
<1>1. req' = [req EXCEPT ![s] = r] /\ UNCHANGED tab /\ req[s].kind = "demo"
  BY DEF Setup!LookAndInsert, Setup!Step, Setup!At, ClaimInv, ClaimShape
<1>2. r \in Req /\ r.holds = req[s].holds /\ r.saw = req[s].saw /\ r.tab = req[s].tab /\ r.kind = req[s].kind
  BY DEF ClaimInv, ClaimShape, Req
<1>3. tab' \in [Browsers -> Tab] /\ Sound(r)
  BY <1>1, <1>2, UsedSlot DEF ClaimInv, ClaimShape, Sound
<1>4. CASE installation.there
  <2>1. UNCHANGED installation
    BY <1>4 DEF Setup!LookAndInsert
  <2> HIDE DEF r
  <2> QED BY <1>1, <1>2, <1>3, <2>1, ReqStep
<1>5. CASE ~installation.there
  <2>1. installation' = [installation EXCEPT !.there = TRUE, !.token = next, !.tokens = next]
    BY <1>5 DEF Setup!LookAndInsert
  <2>2. next \in Nat
    BY DEF ClaimInv, ClaimShape
  <2> HIDE DEF next, r
  <2>3. installation' \in [there : BOOLEAN, claimed : BOOLEAN, token : Nat, tokens : Nat,
                           households : Nat]
    BY <2>1, <2>2 DEF ClaimInv, ClaimShape
  <2>4. /\ installation'.there /\ installation'.claimed = installation.claimed
        /\ installation'.households = installation.households
    BY <2>1 DEF ClaimInv, ClaimShape
  <2>5. ClaimShape'
    BY <1>1, <1>2, <1>3, <2>3 DEF ClaimInv, ClaimShape
  <2>6. \A t \in Slots : req'[t].holds = req[t].holds /\ req'[t].saw = req[t].saw
    BY <1>1, <1>2 DEF ClaimInv, ClaimShape
  <2>7. OneHolder' /\ ~installation.claimed
    BY <1>5, <2>4, <2>6 DEF ClaimInv, OneHolder
  <2>8. Claimed'
    BY <2>4, <2>7 DEF ClaimInv, Claimed
  <2> QED BY <2>5, <2>7, <2>8 DEF ClaimInv
<1> QED BY <1>4, <1>5

LEMMA ReceiveClaimStep ==
  ASSUME ClaimInv, NEW s \in Slots, Setup!ReceiveClaim(s)
  PROVE  ClaimInv'
<1> DEFINE r == [req[s] EXCEPT !.at = "claiming"]
<1>1. req' = [req EXCEPT ![s] = r] /\ UNCHANGED <<installation, tab>> /\ req[s].kind = "claim"
  BY DEF Setup!ReceiveClaim, Setup!Step, Setup!At, ClaimInv, ClaimShape
<1>2. r \in Req /\ r.holds = req[s].holds /\ r.saw = req[s].saw /\ r.tab = req[s].tab /\ r.kind = req[s].kind
  BY DEF ClaimInv, ClaimShape, Req
<1>3. tab' \in [Browsers -> Tab] /\ Sound(r)
  BY <1>1, <1>2, UsedSlot DEF ClaimInv, ClaimShape, Sound
<1> HIDE DEF r
<1> QED BY <1>1, <1>2, <1>3, ReqStep

LEMMA ClaimStep ==
  ASSUME ClaimInv, NEW s \in Slots, Setup!Claim(s)
  PROVE  ClaimInv'
<1>1. req[s].kind # "none" /\ UNCHANGED tab
  BY DEF Setup!Claim, Setup!At
<1>2. CASE ~(req[s].holds /\ ~req[s].saw /\ Setup!TokenFits(s))
  BY <1>1, <1>2, AnswerStep DEF Setup!Claim
<1>3. CASE req[s].holds /\ ~req[s].saw /\ Setup!TokenFits(s)
  <2> DEFINE next == installation.households + 1
  <2>1. /\ installation' = [installation EXCEPT !.claimed = TRUE, !.token = 0, !.households = next]
        /\ Setup!Reply(s, TRUE, 0)
    BY <1>3 DEF Setup!Claim
  <2>2. ~installation.claimed /\ installation.there /\ req[s].holds
    BY <1>3 DEF ClaimInv, OneHolder
  <2>3. next = 1
    BY <2>2 DEF ClaimInv, Claimed
  <2> HIDE DEF next
  <2>4. installation' \in [there : BOOLEAN, claimed : BOOLEAN, token : Nat, tokens : Nat,
                           households : Nat]
    BY <2>1, <2>3 DEF ClaimInv, ClaimShape
  <2>5. /\ installation'.there = installation.there /\ installation'.claimed = TRUE
        /\ installation'.households = 1 /\ installation'.token = 0
    BY <2>1, <2>3 DEF ClaimInv, ClaimShape
  <2>6. Claimed'
    BY <2>5 DEF Claimed
  <2> QED BY <1>1, <2>1, <2>2, <2>4, <2>5, <2>6, WriteStep
<1> QED BY <1>2, <1>3

LEMMA TokenExpiresStep ==
  ASSUME ClaimInv, Setup!TokenExpires
  PROVE  ClaimInv'
<1>1. installation' = [installation EXCEPT !.token = 0] /\ UNCHANGED <<tab, req>>
  BY DEF Setup!TokenExpires
<1>2. /\ installation'.there = installation.there /\ installation'.claimed = installation.claimed
      /\ installation'.households = installation.households /\ installation'.token = 0
      /\ installation' \in [there : BOOLEAN, claimed : BOOLEAN, token : Nat, tokens : Nat,
                            households : Nat]
  BY <1>1 DEF ClaimInv, ClaimShape
<1>3. ClaimShape' /\ OneHolder'
  BY <1>1, <1>2 DEF ClaimInv, ClaimShape, OneHolder
<1>4. Claimed'
  BY <1>2 DEF ClaimInv, Claimed
<1> QED BY <1>3, <1>4 DEF ClaimInv

LEMMA LookSteps ==
  ASSUME ClaimInv, NEW s \in Slots, Setup!Look(s) \/ Setup!Refuse(s)
  PROVE  ClaimInv'
<1>1. UNCHANGED <<installation, tab>> /\ req[s].kind # "none"
  BY DEF Setup!Look, Setup!Refuse, Setup!At
<1>2. \E ok \in BOOLEAN : Setup!Reply(s, ok, 0)
  <2>1. installation.claimed \in BOOLEAN /\ tab[req[s].tab].session \in BOOLEAN
    BY <1>1, UsedSlot DEF ClaimInv, ClaimShape, Tab
  <2> QED BY <2>1 DEF Setup!Look, Setup!Refuse, Setup!At
<1> QED BY <1>1, <1>2, AnswerStep

-----------------------------------------------------------------------------
(* The answers *)

LEMMA ThenStep ==
  ASSUME ClaimInv, UNCHANGED installation, tab' \in [Browsers -> Tab], NEW s \in Slots,
         req[s].kind # "none", NEW kind \in {"status", "me", "claim"}, NEW token \in Nat,
         Setup!Then(s, kind, token)
  PROVE  ClaimInv'
<1>1. req[s].tab \in Browsers
  BY UsedSlot
<1>2. req' = [req EXCEPT ![s] = Setup!Asking(kind, req[s].tab, token)]
  BY DEF Setup!Then
<1> QED BY <1>1, <1>2, AskingType, ReqStep

LEMMA DoneStep ==
  ASSUME ClaimInv, UNCHANGED installation, tab' \in [Browsers -> Tab], NEW s \in Slots,
         Setup!Done(s)
  PROVE  ClaimInv'
BY NoRequestType, ReqStep DEF Setup!Done, Sound

LEMMA ArrivesStep ==
  ASSUME ClaimInv, NEW s \in Slots, Setup!Arrives(s)
  PROVE  ClaimInv'
<1> DEFINE b == req[s].tab
<1>1. req[s].at = "answered" /\ UNCHANGED installation /\ req[s].awaited
  BY DEF Setup!Arrives
<1>2. req[s].kind # "none" /\ b \in Browsers /\ tab[b] \in Tab /\ req[s].token \in Nat
  <2>1. req[s].kind # "none"
    BY <1>1, UsedSlot DEF Setup!NoRequest
  <2> QED BY <2>1, UsedSlot DEF ClaimInv, ClaimShape, Req
<1>3. CASE req[s].kind = "status"
  <2>1. Setup!StatusArrives(s, b)
    BY <1>3 DEF Setup!Arrives
  <2>2. /\ [tab[b] EXCEPT !.claimed = TRUE] \in Tab
        /\ [tab[b] EXCEPT !.claimed = FALSE, !.view = "public"] \in Tab
    BY <1>2 DEF Tab
  <2> HIDE DEF b
  <2> QED BY <1>1, <1>2, <2>1, <2>2, ShowStep, SettledStep, ThenStep, DoneStep DEF Setup!StatusArrives
<1>4. CASE req[s].kind = "me"
  <2>1. Setup!MeArrives(s, b)
    BY <1>4 DEF Setup!Arrives
  <2>2. [tab[b] EXCEPT !.view = IF req[s].got THEN "member" ELSE "public"] \in Tab
    BY <1>2 DEF Tab
  <2> HIDE DEF b
  <2> QED BY <1>1, <1>2, <2>1, <2>2, SettledStep, DoneStep DEF Setup!MeArrives
<1>5. CASE req[s].kind \notin {"status", "me"} /\ req[s].got
  <2>1. Setup!CallSucceeds(s, b)
    BY <1>5 DEF Setup!Arrives
  <2>2. [tab[b] EXCEPT !.session = TRUE] \in Tab
    BY <1>2 DEF Tab
  <2>3. tab \in [Browsers -> Tab]
    BY DEF ClaimInv, ClaimShape
  <2> HIDE DEF b
  <2> QED BY <1>1, <1>2, <2>1, <2>2, <2>3, ShowStep, ThenStep DEF Setup!CallSucceeds
<1>6. CASE req[s].kind \notin {"status", "me"} /\ ~req[s].got
  <2>1. Setup!CallFails(s, b)
    BY <1>6 DEF Setup!Arrives
  <2> HIDE DEF b
  <2> QED BY <1>1, <1>2, <2>1, SettledStep, DoneStep DEF Setup!CallFails
<1> QED BY <1>3, <1>4, <1>5, <1>6

LEMMA GiveUpStep ==
  ASSUME ClaimInv, NEW s \in Slots, Setup!GiveUp(s)
  PROVE  ClaimInv'
<1> DEFINE b == req[s].tab
           alone == [req[s] EXCEPT !.awaited = FALSE]
           t == IF req[s].kind \in {"status", "me"} THEN [tab[b] EXCEPT !.view = "error"] ELSE tab[b]
<1>1. /\ UNCHANGED installation /\ req[s].awaited /\ Setup!Settled(b, s, t)
      /\ req' = [req EXCEPT ![s] = IF req[s].at = "answered" THEN Setup!NoRequest ELSE alone]
  BY DEF Setup!GiveUp
<1>2. req[s].kind # "none" /\ b \in Browsers
  BY <1>1, UsedSlot DEF Setup!NoRequest
<1>3. t \in Tab
  BY <1>2 DEF ClaimInv, ClaimShape, Tab
<1>4. /\ alone \in Req /\ alone.holds = req[s].holds /\ alone.saw = req[s].saw
      /\ alone.tab = req[s].tab /\ alone.kind = req[s].kind
  BY DEF ClaimInv, ClaimShape, Req
<1> HIDE DEF t, alone
<1>5. tab' \in [Browsers -> Tab]
  BY <1>1, <1>2, <1>3, SettledStep
<1>6. CASE req[s].at = "answered"
  BY <1>1, <1>5, <1>6, DoneStep DEF Setup!Done
<1>7. CASE req[s].at # "answered"
  BY <1>1, <1>2, <1>4, <1>5, <1>7, ReqStep DEF Sound
<1> QED BY <1>6, <1>7

LEMMA ForgottenStep ==
  ASSUME ClaimInv, NEW s \in Slots, Setup!Forgotten(s)
  PROVE  ClaimInv'
<1>1. UNCHANGED <<installation, tab>> /\ Setup!Done(s)
  BY DEF Setup!Forgotten
<1>2. tab' \in [Browsers -> Tab]
  BY <1>1 DEF ClaimInv, ClaimShape
<1> QED BY <1>1, <1>2, DoneStep

LEMMA ClaimInductive == ClaimInv /\ [Setup!ClaimNext]_SetupVars => ClaimInv'
<1> SUFFICES ASSUME ClaimInv, [Setup!ClaimNext]_SetupVars PROVE ClaimInv'
  OBVIOUS
<1>1. CASE UNCHANGED SetupVars
  BY <1>1 DEF SetupVars, ClaimInv, ClaimShape, OneHolder, Claimed
<1>2. CASE Setup!ClaimNext
  BY <1>2, PageSteps, CallSteps, LockRowStep, BeginClaimStep, DemoInsertStep, ReceiveClaimStep,
     ClaimStep, TokenExpiresStep, LookSteps, ArrivesStep, GiveUpStep, ForgottenStep
     DEF Setup!ClaimNext
<1> QED BY <1>1, <1>2

\* An installation is claimed once and no claim token outlives its claim, for any
\* number of browsers that begin, claim and start the demo.
THEOREM ClaimedOnceHolds == MCSpec => []ClaimedOnce
<1>1. MCInit => ClaimInv
  BY ClaimBegins DEF MCInit
<1>2. [MCNext]_MCVars => [Setup!ClaimNext]_SetupVars
  BY DEF MCNext, MCVars, SetupVars
<1>3. ClaimInv => ClaimedOnce
  BY DEF ClaimInv, Claimed, ClaimedOnce, Setup!ClaimedOnce
<1> QED BY <1>1, <1>2, <1>3, ClaimInductive, PTL DEF MCSpec

-----------------------------------------------------------------------------
(* The page of the AI settings.  It awaits one answer at a time, and that  *)
(* answer belongs to what the page is doing: while a save is under way the *)
(* form holds what was sent, and a connection is only tested with a form   *)
(* that holds no changes.                                                  *)

Forms == Settings!Forms
Bodies == [provider : {"openai", Settings!Compatible},
           url : Addresses \cup {Settings!NoUrl, Settings!NotSent},
           efforts : Efforts \cup {Settings!NotSent}, models : Models]
SettingsRow == [rev : Nat, value : Forms, hasKey : BOOLEAN]
Panel == [shown : {"loading", "retry", "form"}, settings : SettingsRow, draft : Forms,
          newKey : BOOLEAN, remove : BOOLEAN, doing : {"nothing", "saving", "testing"},
          saved : BOOLEAN]
Sent == [kind : {"load", "save", "test", "read"}, rev : Nat, value : Bodies,
         newKey : BOOLEAN, remove : BOOLEAN, awaited : BOOLEAN,
         answer : {"none", "ok", "refused"}, got : SettingsRow]

PageShape == row \in SettingsRow /\ panel \in Panel /\ sent \subseteq Sent

\* What an awaited answer says about the page p.
Belongs(r, p) ==
  /\ r.kind = "load" => p.shown = "loading"
  /\ r.kind = "save" => /\ p.shown = "form" /\ p.doing = "saving"
                        /\ r.value = Settings!Body(p.draft)
                        /\ r.newKey = p.newKey /\ r.remove = p.remove
  /\ r.kind \in {"test", "read"} => p.shown = "form" /\ p.doing = "testing"

\* A connection is tested with a form that holds no changes, and a page that shows no
\* form has none and waits for nothing that the form asked.
Quiet(p) == /\ p.doing = "testing" => ~Settings!Dirty(p)
            /\ p.shown # "form" => p.doing = "nothing" /\ ~Settings!Dirty(p)

\* The settings got hold what was sent with r: its address in its normal spelling.
Holds(got, r) ==
  /\ got.value.provider = r.value.provider /\ got.value.models = r.value.models
  /\ r.value.provider = Settings!Compatible /\ r.value.url # Settings!NotSent
       /\ r.value.efforts # Settings!NotSent
     => got.value.url = Settings!Normal(r.value.url) /\ got.value.efforts = r.value.efforts
  /\ r.newKey => got.hasKey
  /\ r.remove /\ ~r.newKey => ~got.hasKey

\* The server stores what it was sent.
Stored(r) == r.kind = "save" /\ r.answer = "ok" => Holds(r.got, r)

Awaiting == /\ \A r \in sent : r.awaited => Belongs(r, panel)
            /\ \A r, q \in sent : r.awaited /\ q.awaited => r = q

PageInv == PageShape /\ Quiet(panel) /\ Awaiting /\ \A r \in sent : Stored(r)

LEMMA BodyType ==
  ASSUME NEW v \in Forms
  PROVE  LET w == Settings!Body(v) IN
           /\ w \in Bodies /\ w.provider = v.provider /\ w.models = v.models
           /\ v.provider = Settings!Compatible =>
                /\ w = v /\ w.url # Settings!NotSent /\ w.efforts # Settings!NotSent
BY SpellingAssumption DEF Forms, Settings!Forms, Bodies, Settings!Body, Settings!NotSent,
   Settings!NoUrl, Settings!Compatible

LEMMA PatchedType ==
  ASSUME NEW v \in Bodies, row.value \in Forms
  PROVE  LET w == Settings!Patched(v) IN
           /\ w \in Forms /\ w.provider = v.provider /\ w.models = v.models
           /\ v.provider = Settings!Compatible /\ v.url # Settings!NotSent
                /\ v.efforts # Settings!NotSent
              => w.url = Settings!Normal(v.url) /\ w.efforts = v.efforts
<1> DEFINE url == IF v.url = Settings!NotSent THEN row.value.url ELSE v.url
           efforts == IF v.efforts = Settings!NotSent THEN row.value.efforts ELSE v.efforts
           stored == IF v.provider = Settings!Compatible THEN Settings!Normal(url) ELSE Settings!NoUrl
<1>1. /\ url \in Addresses \cup {Settings!NoUrl} /\ efforts \in Efforts
      /\ v.provider \in {"openai", Settings!Compatible} /\ v.models \in Models
  BY DEF Bodies, Forms, Settings!Forms
<1>2. stored \in Addresses \cup {Settings!NoUrl}
  <2> HIDE DEF url
  <2> QED BY <1>1, SpellingAssumption DEF Settings!Normal
<1>3. Settings!Patched(v) = [provider |-> v.provider, models |-> v.models, efforts |-> efforts,
                             url |-> stored]
  BY Zenon DEF Settings!Patched
<1>4. v.provider = Settings!Compatible /\ v.url # Settings!NotSent /\ v.efforts # Settings!NotSent
        => stored = Settings!Normal(v.url) /\ efforts = v.efforts
  OBVIOUS
<1> HIDE DEF url, efforts, stored
<1> QED BY <1>1, <1>2, <1>3, <1>4 DEF Forms, Settings!Forms

LEMMA RequestType ==
  ASSUME NEW p \in Panel, NEW kind \in {"load", "save", "test", "read"}
  PROVE  LET r == Settings!Request(kind, p) IN
           /\ r \in Sent /\ r.kind = kind /\ r.answer = "none" /\ r.awaited
           /\ r.value = Settings!Body(p.draft) /\ r.newKey = p.newKey /\ r.remove = p.remove
<1>1. Settings!Body(p.draft) \in Bodies
  BY BodyType DEF Panel
<1> QED BY <1>1 DEF Settings!Request, Panel, Sent, SettingsRow

LEMMA PageBegins == Settings!PageInit => PageInv
<1> SUFFICES ASSUME Settings!PageInit PROVE PageInv
  OBVIOUS
<1>1. row \in SettingsRow
  <2>1. {0} \subseteq Nat /\ {FALSE} \subseteq BOOLEAN /\ Settings!RowForms \subseteq Forms
    BY DEF Settings!RowForms, Forms
  <2> QED BY <2>1, Zenon DEF Settings!PageInit, SettingsRow
<1>2. /\ panel \in Panel /\ panel.shown = "loading" /\ panel.doing = "nothing"
      /\ panel.draft = panel.settings.value /\ ~panel.newKey /\ ~panel.remove
  BY <1>1 DEF Settings!PageInit, Panel, SettingsRow
<1> DEFINE first == Settings!Request("load", panel)
<1>3. /\ first \in Sent /\ first.kind = "load" /\ first.answer = "none"
  BY <1>2, RequestType
<1>4. sent = {first}
  BY DEF Settings!PageInit
<1> HIDE DEF first
<1> QED BY <1>1, <1>2, <1>3, <1>4 DEF PageInv, PageShape, Quiet, Awaiting, Belongs, Stored,
           Settings!Dirty

\* Where the page only changes, and awaits nothing.
LEMMA PanelStep ==
  ASSUME PageInv, UNCHANGED <<row, sent>>, panel' \in Panel, Quiet(panel'),
         \A r \in sent : ~r.awaited
  PROVE  PageInv'
BY DEF PageInv, PageShape, Awaiting

\* Where it awaits nothing yet and sends a request.
LEMMA SendStep ==
  ASSUME PageInv, UNCHANGED row, panel' \in Panel, Quiet(panel'),
         \A r \in sent : ~r.awaited,
         NEW r \in Sent, sent' = sent \cup {r}, r.answer = "none", Belongs(r, panel')
  PROVE  PageInv'
BY DEF PageInv, PageShape, Awaiting, Stored

LEMMA NothingAwaited ==
  ASSUME PageInv, panel.doing = "nothing", panel.shown # "loading"
  PROVE  \A r \in sent : ~r.awaited
BY DEF PageInv, PageShape, Awaiting, Belongs, Sent

LEMMA EditableStep ==
  ASSUME PageInv, Settings!Editable
  PROVE  /\ panel.shown = "form" /\ panel.doing = "nothing"
         /\ \A r \in sent : ~r.awaited
BY NothingAwaited DEF Settings!Editable, Settings!Busy

LEMMA FormSteps ==
  ASSUME PageInv, \/ Settings!TypeKey \/ Settings!CheckRemove
                  \/ \E v \in Forms : Settings!Type(v)
  PROVE  PageInv'
<1>1. /\ UNCHANGED <<row, sent>> /\ panel.shown = "form" /\ panel.doing = "nothing"
      /\ \A r \in sent : ~r.awaited
  BY EditableStep DEF Settings!TypeKey, Settings!CheckRemove, Settings!Type
<1>2. panel' \in Panel /\ panel'.shown = "form" /\ panel'.doing = "nothing"
  BY <1>1 DEF Settings!TypeKey, Settings!CheckRemove, Settings!Type, PageInv, PageShape, Panel
<1> QED BY <1>1, <1>2, PanelStep DEF Quiet

LEMMA SendSteps ==
  ASSUME PageInv, Settings!Retry \/ Settings!Save \/ Settings!TestConnection
  PROVE  PageInv'
<1>1. UNCHANGED row /\ panel \in Panel
  BY DEF Settings!Retry, Settings!Save, Settings!TestConnection, PageInv, PageShape
<1>2. \A r \in sent : ~r.awaited
  <2>1. CASE Settings!Retry
    BY <2>1, NothingAwaited DEF Settings!Retry, PageInv, Quiet
  <2> QED BY <2>1, EditableStep DEF Settings!Save, Settings!TestConnection, Settings!SaveOffered,
             Settings!TestOffered
<1>3. CASE Settings!Retry
  <2> DEFINE r == Settings!Request("load", panel)
  <2>1. r \in Sent /\ r.kind = "load" /\ r.answer = "none"
    BY <1>1, RequestType
  <2>2. /\ panel' \in Panel /\ panel'.shown = "loading" /\ panel'.doing = panel.doing
        /\ panel.shown = "retry" /\ sent' = sent \cup {r}
        /\ panel'.draft = panel.draft /\ panel'.settings = panel.settings
        /\ panel'.newKey = panel.newKey /\ panel'.remove = panel.remove
    BY <1>1, <1>3 DEF Settings!Retry, Settings!Send, Panel
  <2>3. Quiet(panel')
    BY <2>2 DEF PageInv, Quiet, Settings!Dirty
  <2> HIDE DEF r
  <2> QED BY <1>1, <1>2, <2>1, <2>2, <2>3, SendStep DEF Belongs
<1>4. CASE Settings!Save
  <2> DEFINE r == Settings!Request("save", panel)
  <2>1. /\ r \in Sent /\ r.kind = "save" /\ r.answer = "none"
        /\ r.value = Settings!Body(panel.draft) /\ r.newKey = panel.newKey
        /\ r.remove = panel.remove
    BY <1>1, RequestType
  <2>2. panel.shown = "form"
    BY <1>4 DEF Settings!Save, Settings!SaveOffered, Settings!Editable
  <2>3. /\ panel' \in Panel /\ panel'.shown = "form" /\ panel'.doing = "saving"
        /\ panel'.draft = panel.draft /\ panel'.newKey = panel.newKey
        /\ panel'.remove = panel.remove /\ sent' = sent \cup {r}
    BY <1>1, <1>4, <2>2 DEF Settings!Save, Settings!Send, Panel
  <2> HIDE DEF r
  <2> QED BY <1>1, <1>2, <2>1, <2>3, SendStep DEF Belongs, Quiet
<1>5. CASE Settings!TestConnection
  <2> DEFINE r == Settings!Request("test", panel)
  <2>1. r \in Sent /\ r.kind = "test" /\ r.answer = "none"
    BY <1>1, RequestType
  <2>2. panel.shown = "form" /\ ~Settings!Dirty(panel)
    BY <1>5 DEF Settings!TestConnection, Settings!TestOffered, Settings!Editable
  <2>3. /\ panel' \in Panel /\ panel'.shown = "form" /\ panel'.doing = "testing"
        /\ panel'.draft = panel.draft /\ panel'.newKey = panel.newKey
        /\ panel'.remove = panel.remove /\ panel'.settings = panel.settings
        /\ sent' = sent \cup {r}
    BY <1>1, <1>5, <2>2 DEF Settings!TestConnection, Settings!Send, Panel
  <2>4. Quiet(panel')
    BY <2>2, <2>3 DEF Quiet, Settings!Dirty
  <2> HIDE DEF r
  <2> QED BY <1>1, <1>2, <2>1, <2>3, <2>4, SendStep DEF Belongs
<1> QED BY <1>3, <1>4, <1>5

-----------------------------------------------------------------------------
(* The server, and others who save *)

LEMMA ServeStep ==
  ASSUME PageInv, NEW r \in sent, Settings!Serve(r)
  PROVE  PageInv'
<1>1. r \in Sent /\ row \in SettingsRow /\ UNCHANGED panel
  BY DEF Settings!Serve, PageInv, PageShape
<1>2. r.kind = "save" => r.value \in Bodies
  BY <1>1 DEF Sent
<1>3. ASSUME row' = Settings!Updated(r) PROVE row' \in SettingsRow /\ Holds(row', r)
  <2> DEFINE value == Settings!Patched(r.value)
             key == r.newKey \/ (row.hasKey /\ ~r.remove /\ Settings!SameEndpoint(value, row.value))
             next == row.rev + 1
  <2>1. row' = [rev |-> next, value |-> value, hasKey |-> key]
    BY <1>3 DEF Settings!Updated
  <2>2. /\ value \in Forms /\ value.provider = r.value.provider /\ value.models = r.value.models
        /\ r.value.provider = Settings!Compatible /\ r.value.url # Settings!NotSent
             /\ r.value.efforts # Settings!NotSent
           => value.url = Settings!Normal(r.value.url) /\ value.efforts = r.value.efforts
    BY <1>1, PatchedType DEF Sent, SettingsRow
  <2>3. next \in Nat
    BY <1>1 DEF SettingsRow
  <2>4. key \in BOOLEAN /\ (r.newKey => key) /\ (r.remove /\ ~r.newKey => ~key)
    BY <1>1 DEF Sent
  <2> HIDE DEF value, key, next
  <2>5. row'.value = value /\ row'.hasKey = key
    BY <2>1
  <2> QED BY <2>1, <2>2, <2>3, <2>4, <2>5 DEF SettingsRow, Holds
<1>4. PICK answer \in {"ok", "refused"}, got \in SettingsRow :
        /\ row' \in SettingsRow /\ Settings!Answered(r, answer, got)
        /\ r.kind = "save" /\ answer = "ok" => Holds(got, r)
  <2>1. CASE /\ r.kind = "save" /\ row' = Settings!Updated(r) /\ Settings!Answered(r, "ok", row')
    BY <1>3, <2>1
  <2>2. CASE r.kind # "save" /\ row' = row /\ Settings!Answered(r, "ok", row)
    BY <1>1, <2>2
  <2>3. CASE row' = row /\ Settings!Answered(r, "refused", r.got)
    BY <1>1, <2>3 DEF Sent
  <2> QED BY <2>1, <2>2, <2>3 DEF Settings!Serve
<1> DEFINE q == [r EXCEPT !.answer = answer, !.got = got]
<1>5. /\ q \in Sent /\ q.awaited = r.awaited /\ q.kind = r.kind /\ q.value = r.value
      /\ q.newKey = r.newKey /\ q.remove = r.remove /\ q.got = got /\ q.answer = answer
  BY <1>1, <1>4 DEF Sent
<1>6. sent' = (sent \ {r}) \cup (IF r.awaited THEN {q} ELSE {})
  BY <1>4 DEF Settings!Answered
<1> HIDE DEF q
<1>7. Stored(q)
  BY <1>4, <1>5 DEF Stored, Holds
<1>8. PageShape'
  BY <1>1, <1>4, <1>5, <1>6 DEF PageInv, PageShape
<1>9. Awaiting'
  <2>1. Belongs(r, panel) => Belongs(q, panel)
    BY <1>5 DEF Belongs
  <2> QED BY <1>1, <1>5, <1>6, <2>1 DEF PageInv, Awaiting
<1>10. \A s \in sent' : Stored(s)
  BY <1>6, <1>7 DEF PageInv
<1> QED BY <1>1, <1>8, <1>9, <1>10 DEF PageInv

LEMMA OtherSavesStep ==
  ASSUME PageInv, NEW v \in Forms, NEW hasKey \in BOOLEAN, Settings!OtherMemberSaves(v, hasKey)
  PROVE  PageInv'
<1> DEFINE next == row.rev + 1
<1>1. row' = [rev |-> next, value |-> v, hasKey |-> hasKey] /\ UNCHANGED <<panel, sent>>
  BY DEF Settings!OtherMemberSaves
<1>2. next \in Nat
  BY DEF PageInv, PageShape, SettingsRow
<1> HIDE DEF next
<1>3. row' \in SettingsRow
  BY <1>1, <1>2 DEF SettingsRow
<1> QED BY <1>1, <1>3 DEF PageInv, PageShape, Awaiting

LEMMA VanishStep ==
  ASSUME PageInv, NEW r \in sent, Settings!Vanish(r)
  PROVE  PageInv'
BY DEF Settings!Vanish, PageInv, PageShape, Awaiting

-----------------------------------------------------------------------------
(* Answers *)

LEMMA FailedType ==
  ASSUME PageInv, NEW r \in sent, r.awaited
  PROVE  LET p == Settings!Failed(r) IN
           /\ p \in Panel /\ Quiet(p)
           /\ p.draft = panel.draft /\ p.newKey = panel.newKey /\ p.remove = panel.remove
<1>1. panel \in Panel /\ r \in Sent
  BY DEF PageInv, PageShape
<1>2. CASE r.kind = "load"
  <2> DEFINE p == [panel EXCEPT !.shown = "retry"]
  <2>1. panel.doing = "nothing"
    BY <1>2 DEF PageInv, Awaiting, Belongs, Quiet
  <2>2. /\ p \in Panel /\ p.doing = "nothing" /\ p.settings = panel.settings
        /\ p.draft = panel.draft /\ p.newKey = panel.newKey /\ p.remove = panel.remove
    BY <1>1, <2>1 DEF Panel
  <2> HIDE DEF p
  <2>3. Quiet(p)
    BY <1>2, <2>2 DEF PageInv, Awaiting, Belongs, Quiet, Settings!Dirty
  <2>4. Settings!Failed(r) = p
    BY <1>2 DEF Settings!Failed, p
  <2> QED BY <2>2, <2>3, <2>4
<1>3. CASE r.kind # "load"
  <2> DEFINE p == [panel EXCEPT !.doing = "nothing"]
  <2>2. /\ p \in Panel /\ p.doing = "nothing" /\ p.shown = panel.shown
        /\ p.settings = panel.settings /\ p.draft = panel.draft /\ p.newKey = panel.newKey /\ p.remove = panel.remove
    BY <1>1 DEF Panel
  <2> HIDE DEF p
  <2>3. Quiet(p)
    BY <2>2 DEF PageInv, Quiet, Settings!Dirty
  <2>4. Settings!Failed(r) = p
    BY <1>3 DEF Settings!Failed, p
  <2> QED BY <2>2, <2>3, <2>4
<1> QED BY <1>2, <1>3

\* The form takes the settings of an answer; the page is then at rest, or still testing.
LEMMA FilledType ==
  ASSUME NEW p \in Panel, NEW got \in SettingsRow
  PROVE  LET q == Settings!Filled(p, got) IN
           /\ q \in Panel /\ q.settings = got /\ q.draft = got.value
           /\ q.newKey = p.newKey /\ q.remove = p.remove /\ q.shown = p.shown /\ q.doing = p.doing
BY DEF Settings!Filled, Panel, SettingsRow

LEMMA ClearedType ==
  ASSUME NEW p \in Panel
  PROVE  LET q == Settings!KeyCleared(p) IN
           /\ q \in Panel /\ q.settings = p.settings /\ q.draft = p.draft
           /\ ~q.newKey /\ ~q.remove /\ q.shown = p.shown /\ q.doing = p.doing
BY DEF Settings!KeyCleared, Panel

LEMMA ReceivedType ==
  ASSUME PageInv, NEW r \in sent, r.awaited
  PROVE  LET p == Settings!Received(r) IN
           /\ p \in Panel /\ Quiet(p)
           /\ r.kind = "test" => p = panel
           /\ r.kind = "save" => p.saved /\ p.settings = r.got /\ p.draft = r.got.value
<1> DEFINE filled == Settings!Filled(panel, r.got)
           cleared == Settings!KeyCleared(filled)
<1>1. panel \in Panel /\ r \in Sent /\ Quiet(panel) /\ Belongs(r, panel)
  BY DEF PageInv, PageShape, Awaiting
<1>2. r.got \in SettingsRow /\ r.kind \in {"load", "save", "test", "read"}
  BY <1>1 DEF Sent
<1>3. filled \in Panel /\ filled.settings = r.got /\ filled.shown = panel.shown
  BY <1>1, <1>2, FilledType
<1>4. filled.doing = panel.doing
  BY <1>1, <1>2, FilledType
<1>5. /\ cleared \in Panel /\ cleared.settings = r.got /\ cleared.doing = panel.doing
      /\ cleared.draft = r.got.value /\ cleared.shown = panel.shown
  <2>1. filled.draft = r.got.value
    BY <1>1, <1>2, FilledType
  <2> HIDE DEF filled
  <2> QED BY <1>3, <1>4, <2>1, ClearedType
<1>6. Settings!Received(r) =
        CASE r.kind = "load" -> [cleared EXCEPT !.shown = "form"]
          [] r.kind = "save" -> [cleared EXCEPT !.saved = TRUE, !.doing = "nothing"]
          [] r.kind = "read" -> [filled EXCEPT !.doing = "nothing"]
          [] r.kind = "test" -> panel
  BY DEF Settings!Received
<1> HIDE DEF filled, cleared
<1>7. CASE r.kind = "load"
  <2> DEFINE p == [cleared EXCEPT !.shown = "form"]
  <2>1. panel.doing = "nothing"
    BY <1>1, <1>7 DEF Belongs, Quiet
  <2>2. p \in Panel /\ p.doing = "nothing" /\ p.shown = "form"
    BY <1>5, <2>1 DEF Panel
  <2>3. Settings!Received(r) = p
    BY <1>6, <1>7
  <2> HIDE DEF p
  <2> QED BY <1>7, <2>2, <2>3 DEF Quiet
<1>8. CASE r.kind = "save"
  <2> DEFINE p == [cleared EXCEPT !.saved = TRUE, !.doing = "nothing"]
  <2>1. /\ p \in Panel /\ p.doing = "nothing" /\ p.saved /\ p.settings = r.got
        /\ p.draft = r.got.value /\ p.shown = "form"
    BY <1>1, <1>5, <1>8 DEF Panel, Belongs
  <2>2. Settings!Received(r) = p
    BY <1>6, <1>8
  <2> HIDE DEF p
  <2> QED BY <1>8, <2>1, <2>2 DEF Quiet
<1>9. CASE r.kind = "read"
  <2> DEFINE p == [filled EXCEPT !.doing = "nothing"]
  <2>1. p \in Panel /\ p.doing = "nothing" /\ p.shown = "form"
    BY <1>1, <1>3, <1>9 DEF Panel, Belongs
  <2>2. Settings!Received(r) = p
    BY <1>6, <1>9
  <2> HIDE DEF p
  <2> QED BY <1>9, <2>1, <2>2 DEF Quiet
<1>10. CASE r.kind = "test"
  BY <1>1, <1>6, <1>10
<1> QED BY <1>2, <1>7, <1>8, <1>9, <1>10

\* An answer that the page awaited is gone, and so the page awaits nothing.
LEMMA AnswerTaken ==
  ASSUME PageInv, NEW r \in sent, r.awaited, UNCHANGED row, panel' \in Panel, Quiet(panel'),
         NEW left, left \subseteq Sent, sent' = (sent \ {r}) \cup left,
         \A q \in left : Stored(q) /\ (q.awaited => Belongs(q, panel')),
         \A q, s \in left : q = s
  PROVE  PageInv'
<1>1. \A q \in sent \ {r} : ~q.awaited
  BY DEF PageInv, Awaiting
<1>2. PageShape'
  BY DEF PageInv, PageShape
<1>3. Awaiting'
  BY <1>1 DEF Awaiting
<1> QED BY <1>2, <1>3 DEF PageInv

LEMMA ReceiveStep ==
  ASSUME PageInv, NEW r \in sent, Settings!Receive(r)
  PROVE  PageInv'
<1>1. /\ r.awaited /\ UNCHANGED row
      /\ panel' = IF r.answer = "ok" THEN Settings!Received(r) ELSE Settings!Failed(r)
  BY DEF Settings!Receive
<1>2. panel' \in Panel /\ Quiet(panel')
  BY <1>1, ReceivedType, FailedType
<1>3. CASE r.kind = "test" /\ r.answer = "ok"
  <2> DEFINE read == Settings!Request("read", panel)
  <2>1. sent' = (sent \ {r}) \cup {read}
    BY <1>3 DEF Settings!Receive
  <2>2. read \in Sent /\ read.kind = "read"
    BY RequestType DEF PageInv, PageShape
  <2>3. panel' = panel
    BY <1>1, <1>3, ReceivedType
  <2> HIDE DEF read
  <2>4. Stored(read) /\ Belongs(read, panel')
    BY <1>1, <1>3, <2>2, <2>3 DEF Stored, Belongs, PageInv, Awaiting
  <2>5. {read} \subseteq Sent /\ \A q, s \in {read} : q = s
    BY <2>2
  <2> QED BY <1>1, <1>2, <2>1, <2>4, <2>5, AnswerTaken
<1>4. CASE ~(r.kind = "test" /\ r.answer = "ok")
  <2>1. PICK left : left = {} /\ sent' = (sent \ {r}) \cup left
    BY <1>4 DEF Settings!Receive
  <2>2. /\ left \subseteq Sent /\ \A q, s \in left : q = s
        /\ \A q \in left : Stored(q) /\ (q.awaited => Belongs(q, panel'))
    BY <2>1
  <2> QED BY <1>1, <1>2, <2>1, <2>2, AnswerTaken
<1> QED BY <1>3, <1>4

LEMMA GiveUpAnswerStep ==
  ASSUME PageInv, NEW r \in sent, Settings!GiveUp(r)
  PROVE  PageInv'
<1>1. /\ r.awaited /\ UNCHANGED row /\ panel' = Settings!Failed(r)
  BY DEF Settings!GiveUp
<1>2. panel' \in Panel /\ Quiet(panel')
  BY <1>1, FailedType
<1>3. CASE /\ r.answer = "none" /\ r.kind = "save"
           /\ sent' = (sent \ {r}) \cup {[r EXCEPT !.awaited = FALSE]}
  <2> DEFINE alone == [r EXCEPT !.awaited = FALSE]
  <2>1. sent' = (sent \ {r}) \cup {alone}
    BY <1>3
  <2>2. alone \in Sent /\ ~alone.awaited /\ alone.answer = "none"
    BY <1>3 DEF PageInv, PageShape, Sent
  <2> HIDE DEF alone
  <2>3. {alone} \subseteq Sent /\ \A q \in {alone} : Stored(q) /\ ~q.awaited
    BY <2>2 DEF Stored
  <2> QED BY <1>1, <1>2, <2>1, <2>3, AnswerTaken
<1>4. CASE sent' = (sent \ {r}) \cup {}
  <2>1. PICK left : left = {} /\ sent' = (sent \ {r}) \cup left
    BY <1>4
  <2>2. /\ left \subseteq Sent /\ \A q, s \in left : q = s
        /\ \A q \in left : Stored(q) /\ (q.awaited => Belongs(q, panel'))
    BY <2>1
  <2> QED BY <1>1, <1>2, <2>1, <2>2, AnswerTaken
<1> QED BY <1>3, <1>4 DEF Settings!GiveUp

LEMMA PageInductive == PageInv /\ [Settings!PageNext]_SettingsVars => PageInv'
<1> SUFFICES ASSUME PageInv, [Settings!PageNext]_SettingsVars PROVE PageInv'
  OBVIOUS
<1>1. CASE UNCHANGED SettingsVars
  BY <1>1 DEF SettingsVars, PageInv, PageShape, Awaiting
<1>2. CASE Settings!PageNext
  <2>1. Settings!RowForms \subseteq Forms
    BY DEF Settings!RowForms, Forms
  <2> QED BY <1>2, <2>1, FormSteps, SendSteps, ServeStep, OtherSavesStep, VanishStep, ReceiveStep,
             GiveUpAnswerStep DEF Settings!PageNext, Forms
<1> QED BY <1>1, <1>2

\* What a step may do to changes that are not saved.
Survives ==
  Settings!Dirty(panel)
    /\ <<panel.draft, panel.newKey, panel.remove>> # <<panel'.draft, panel'.newKey, panel'.remove>>
  => \/ Settings!Typing
     \/ /\ panel'.saved /\ Settings!StoresForm(panel'.settings, panel)
        /\ panel'.draft = panel'.settings.value

LEMMA AnswerSurvives ==
  ASSUME PageInv, NEW r \in sent, Settings!Receive(r)
  PROVE  Survives
<1> SUFFICES ASSUME Settings!Dirty(panel), r.answer = "ok"
             PROVE  /\ panel'.saved /\ Settings!StoresForm(panel'.settings, panel)
                    /\ panel'.draft = panel'.settings.value
  BY FailedType DEF Settings!Receive, Survives
<1>1. r.awaited /\ panel' = Settings!Received(r)
  BY DEF Settings!Receive
<1>2. Belongs(r, panel) /\ Quiet(panel) /\ Stored(r) /\ panel \in Panel /\ r \in Sent
  BY <1>1 DEF PageInv, Awaiting, PageShape
<1>3. r.kind = "save"
  BY <1>2 DEF Belongs, Quiet, Sent
<1>4. panel'.saved /\ panel'.settings = r.got /\ panel'.draft = r.got.value
  BY <1>1, <1>3, ReceivedType
<1>5. /\ Holds(r.got, r) /\ r.value = Settings!Body(panel.draft)
      /\ r.newKey = panel.newKey /\ r.remove = panel.remove
  BY <1>2, <1>3 DEF Belongs, Stored
<1>6. /\ r.value.provider = panel.draft.provider /\ r.value.models = panel.draft.models
      /\ panel.draft.provider = Settings!Compatible =>
           /\ r.value = panel.draft /\ r.value.url # Settings!NotSent
           /\ r.value.efforts # Settings!NotSent
  BY <1>2, <1>5, BodyType DEF Panel
<1>7. Settings!StoresForm(r.got, panel)
  BY <1>5, <1>6 DEF Holds, Settings!StoresForm
<1> QED BY <1>4, <1>7

LEMMA StepSurvives == PageInv /\ [Settings!PageNext]_SettingsVars => [Survives]_(Settings!aiPage)
<1> SUFFICES ASSUME PageInv, Settings!PageNext PROVE Survives
  BY DEF SettingsVars, Settings!aiPage
<1>1. CASE Settings!Typing
  BY <1>1 DEF Survives
<1>2. CASE Settings!Retry \/ Settings!Save \/ Settings!TestConnection
  BY <1>2 DEF Survives, Settings!Retry, Settings!Save, Settings!TestConnection, PageInv, PageShape,
     Panel
<1>3. CASE \/ \E v \in Settings!RowForms, hasKey \in BOOLEAN : Settings!OtherMemberSaves(v, hasKey)
           \/ \E r \in sent : Settings!Serve(r) \/ Settings!Vanish(r)
  BY <1>3 DEF Survives, Settings!OtherMemberSaves, Settings!Serve, Settings!Vanish
<1>4. CASE \E r \in sent : Settings!GiveUp(r)
  BY <1>4, FailedType DEF Survives, Settings!GiveUp
<1>5. CASE \E r \in sent : Settings!Receive(r)
  BY <1>5, AnswerSurvives
<1> QED BY <1>1, <1>2, <1>3, <1>4, <1>5 DEF Settings!PageNext, Settings!Typing

\* What a member has typed and not saved changes only by more typing, or when the server
\* has stored just that and the page shows what was stored, for any addresses, spellings
\* and models, however late an answer or a save is and whoever saved in between.
THEOREM TypingSurvivesHolds == MCSpec => TypingSurvives
<1> DEFINE Moves == [Settings!PageNext]_SettingsVars
<1>1. MCInit => PageInv
  BY PageBegins DEF MCInit
<1>2. [MCNext]_MCVars => Moves
  BY DEF MCNext, MCVars, SettingsVars
<1>3. PageInv /\ Moves => PageInv'
  BY PageInductive
<1>4. PageInv /\ Moves => [Survives]_(Settings!aiPage)
  BY StepSurvives
<1>5. [Survives]_(Settings!aiPage) =>
        [Settings!Dirty(panel)
           /\ <<panel.draft, panel.newKey, panel.remove>>
                # <<panel'.draft, panel'.newKey, panel'.remove>>
         => \/ Settings!Typing
            \/ /\ panel'.saved /\ Settings!StoresForm(panel'.settings, panel)
               /\ panel'.draft = panel'.settings.value]_(Settings!aiPage)
  BY DEF Survives
<1> HIDE DEF Moves
<1> QED BY <1>1, <1>2, <1>3, <1>4, <1>5, PTL DEF MCSpec, TypingSurvives, Settings!TypingSurvives

=============================================================================
