-------------------------- MODULE MCMessageDelivery --------------------------
(***************************************************************************)
(* Messages for model checking: the service with its displays, and the     *)
(* pages of a member on which messages and monitors are written.  The      *)
(* parts share no variables, so a behaviour moves one of them; the page of *)
(* messages is taken twice, once with two households and overlapping       *)
(* reads, once with a dialog whose answers are lost.                       *)
(***************************************************************************)
EXTENDS MessageDelivery, Sequences

CONSTANTS d1, h1, h2, Texts, Reads, None, MaxPageRevision, MaxTasks, MaxRuns, Calls, MaxClicks,
          \* of the composer
          Homes, MaxMessages, MaxForms, MaxKeys, MaxSent, MaxSwitches, MaxPostRevision

ASSUME PageBounds  == MaxTasks \in Nat
ASSUME NoneIsApart == None \notin Texts \cup Calls

VARIABLES part,
          messages, board, read, form, sent,  \* MemberBoard
          tasks, panel, call                  \* MonitorsPanel

Board    == INSTANCE MemberBoard WITH Homes <- {h1, h2}, NoText <- None, MaxMessages <- 1,
              MaxForms <- 1, MaxKeys <- 1, MaxSent <- 1, MaxSwitches <- 1,
              MaxRevision <- MaxPageRevision
Composer == INSTANCE MemberBoard WITH NoText <- None, MaxRevision <- MaxPostRevision
Monitors == INSTANCE MonitorsPanel WITH NoCall <- None, MaxRevision <- MaxPageRevision

BoardVars    == <<messages, board, read, form, sent>>
MonitorsVars == <<tasks, panel, call>>
MCVars == <<part, vars, BoardVars, MonitorsVars>>

MCInit ==
  /\ part \in {"delivery", "board", "composer", "monitors"}
  /\ Init /\ Monitors!PanelInit
  /\ part # "delivery" => \A d \in Displays : ~display[d].private
  /\ IF part = "board" THEN Board!BoardInit ELSE Composer!BoardInit

MCNext ==
  /\ UNCHANGED part
  /\ IF part = "delivery" THEN Next ELSE UNCHANGED vars
  /\ IF part = "monitors" THEN Monitors!PanelNext ELSE UNCHANGED MonitorsVars
  /\ CASE part = "board" -> Board!BoardNext
       [] part = "composer" -> Composer!BoardNext
       [] OTHER -> UNCHANGED BoardVars

MCSpec == MCInit /\ [][MCNext]_MCVars

OneMessagePerAttempt == part = "composer" => Composer!OneMessagePerAttempt
FormStaysLocked      == Monitors!FormStaysLocked
ListNeverGoesBack    == Monitors!ListNeverGoesBack

\* Each part has the fairness of its own module.
PublishedIsDisplayed == Fairness => EventuallyDisplayed
BoardCatchesUp       == part = "board" /\ Board!BoardFairness => Board!BoardCatchesUp
EndedRunsShown       == part = "monitors" /\ Monitors!PanelFairness => Monitors!EndedRunsShown
=============================================================================
