---------------------------- MODULE SessionStart ----------------------------
(***************************************************************************)
(* From a request to a console: the list of recent hosts gives a new       *)
(* session its account (RecentDracs), with which its ctrlReader probes,    *)
(* dials and logs in (DracConnect), while other sessions do the same.      *)
(***************************************************************************)
EXTENDS RecentDracs, DracConnect

vars == <<recentVars, connectVars>>

StartInit == Init /\ ConnectInit

(* A session that setupDracClient makes begins with what it completed.     *)
BeginNew(h, given) ==
  \/ dracmap[h] # NoSession /\ UNCHANGED connectVars
  \/ dracmap[h] = NoSession /\ \E s \in Sessions : Begin(s, h, Completed(h, given))

Submit(f)   == SubmitForm(f) /\ BeginNew(form[f].host, form[f].account)
VisitPage(h) == Visit(h) /\ BeginNew(h, Account("", ""))

(* dracHandler deletes its host from dracmap.                              *)
FinishSession(h) ==
  /\ EndSession(h)
  /\ \E s \in Sessions : host[s] = h /\ Finish(s)

StartNext ==
  /\ alive
  /\ \/ \E f \in Forms, h \in Hosts, given \in Accounts : Post(f, h, given) /\ UNCHANGED connectVars
     \/ \E f \in Forms : Submit(f)
     \/ \E h \in Hosts : VisitPage(h) \/ FinishSession(h)
     \/ \E s \in Sessions : (Probe(s) \/ Connect(s)) /\ UNCHANGED recentVars

StartSpec == StartInit /\ [][StartNext]_vars

-----------------------------------------------------------------------------
StartTypeOK == TypeOK /\ ConnectTypeOK

(* A DRAC is never tried with the account of another host, nor with one    *)
(* that was replaced since: what a session logs in with is what the list   *)
(* shows of its host, as long as that is listed.                           *)
TriesListedAccount ==
  \A s \in Sessions : Current(s) /\ Listed(host[s])
    => account[s] = Account(Entry(host[s]).login, Entry(host[s]).passwd)

(* Whichever sessions come and go, what C writes goes to the socket of its *)
(* own session, and in TLS where the DRAC wants that.                      *)
RightSockets == StartTypeOK /\ OwnSockets /\ TlsKept
=============================================================================
