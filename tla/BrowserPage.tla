---------------------------- MODULE BrowserPage -----------------------------
(***************************************************************************)
(* One browser: the page (ConnectPage), and the keyboard (BrowserKeyboard) *)
(* that the console it shows takes and gives back.                         *)
(***************************************************************************)
EXTENDS ConnectPage, BrowserKeyboard

CONSTANT MaxVisits  \* bound: addresses that the user goes to

ASSUME BrowserAssumption == MaxVisits \in Nat

VARIABLES
  owner,  \* the RFB object that has the keyboard, 0 if none
  visits  \* addresses that the user went to

browserVars == <<pageVars, keyVars, owner, visits>>

BrowserTypeOK == PageTypeOK /\ owner \in 0 .. Len(rfbs) /\ visits \in 0 .. MaxVisits

BrowserInit == PageInit /\ KeyboardInit /\ owner = 0 /\ visits = 0

(* (A second console at the same time would double the keys, no more; its  *)
(* keyboard is left out.)                                                  *)
ConsoleOpens ==
  \E i \in DOMAIN rfbs :
    /\ RfbOpens(i)
    /\ IF owner = 0 THEN Grab /\ owner' = i ELSE UNCHANGED <<keyVars, owner>>
    /\ UNCHANGED visits

(* updateState ungrabs with the states of the end.                         *)
KeyboardFollows ==
  IF owner = 0 THEN Forget /\ UNCHANGED owner
  ELSE IF rfbs'[owner].state # "normal" THEN Ungrab /\ owner' = 0
  ELSE UNCHANGED <<keyVars, owner>>

(* The page and the keyboard know no more of each other than that, so it   *)
(* is enough that the user types while the page waits for nothing, at its  *)
(* first console (Grab makes the others alike), and that from a console    *)
(* typed at the page goes away at once.                                    *)
AtRest ==
  visits = 0 /\ Len(rfbs) = 1 /\ popstates = 0 /\ \A h \in Hosts : ~Requested(h)

PageStep ==
  /\ pressing = NoPress
  /\ \/ Popstate
     \/ /\ platform = NoKey \/ popstates = 0
        /\ \/ RequestsAnswered
           \/ \E i \in DOMAIN rfbs : RfbCloses(i) \/ FailTimer(i) \/ DisconnTimer(i)
  /\ KeyboardFollows
  /\ UNCHANGED visits

UserNavigates ==
  /\ pressing = NoPress /\ visits < MaxVisits
  /\ \/ \E h \in Hosts : Submit(h)
     \/ \E address \in Addresses : Navigate(address)
  /\ visits' = visits + 1
  /\ UNCHANGED <<keyVars, owner>>

Types ==
  /\ (AtRest /\ UserTypes) \/ KeyPress \/ NoKeyPress \/ TimerFires
  /\ UNCHANGED <<pageVars, owner, visits>>

BrowserNext == ConsoleOpens \/ PageStep \/ UserNavigates \/ Types

BrowserSpec == BrowserInit /\ [][BrowserNext]_browserVars

-----------------------------------------------------------------------------
(* Console, address and error are those of one host, whatever comes in     *)
(* which order.                                                            *)
PageFollowsHost == BrowserTypeOK /\ OneConsole /\ AddressIsHost /\ ErrorNamesHost
=============================================================================
