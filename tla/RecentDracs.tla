---------------------------- MODULE RecentDracs -----------------------------
(***************************************************************************)
(* The list of recent hosts and the credentials it remembers: recentDracs, *)
(* getRecentDrac and the part of setupDracClient (drac.go) that keeps      *)
(* them, and connectHandler (http.go), which looks an account up in one    *)
(* critical section and uses it in a later one.                            *)
(*                                                                         *)
(* The sessions are here only as dracmap: which host has one, and with     *)
(* which account it was started.                                           *)
(***************************************************************************)
EXTENDS Accounts, Sequences, SequencesExt

CONSTANTS
  Forms,      \* submitters of the connect form
  NoSession,
  MaxRecent,  \* 10 in the code
  MaxStarts   \* bound: sessions started

ASSUME RecentAssumption ==
  MaxRecent \in Nat \ {0} /\ MaxStarts \in Nat /\ NoSession \notin Accounts

VARIABLES
  recent,     \* recentDracs, the front first
  dracmap,    \* the account of the session of a host
  form,       \* of a submitter: the request it is in
  order,      \* history: the hosts, the one started last first
  starts

recentVars == <<recent, dracmap, form, order, starts>>

Entries == [host : Hosts, login : Words \cup {""}, passwd : Words \cup {""}]
Idle == [state |-> "idle"]

TypeOK ==
  /\ recent \in Seq(Entries) /\ Len(recent) <= MaxRecent
  /\ dracmap \in [Hosts -> Accounts \cup {NoSession}]
  /\ form \in [Forms -> {Idle} \cup [state : {"found"}, host : Hosts, account : Accounts]]
  /\ order \in Seq(Hosts) /\ starts \in 0 .. MaxStarts

Init ==
  /\ recent = <<>> /\ dracmap = [h \in Hosts |-> NoSession]
  /\ form = [f \in Forms |-> Idle]
  /\ order = <<>> /\ starts = 0

-----------------------------------------------------------------------------
Listed(h) == \E i \in DOMAIN recent : recent[i].host = h

(* getRecentDrac: the first entry of the host.                             *)
GetRecentDrac(h) == SelectInSeq(recent, LAMBDA e : e.host = h)

Entry(h) == recent[GetRecentDrac(h)]

(* setupDracClient with a new session: what is missing is taken from the   *)
(* entry of the host, which is removed, and a new one put in front; the    *)
(* walk over the list ends there, for a removed element has no next one.   *)
Completed(h, account) ==
  IF ~Listed(h) THEN account
  ELSE Account(IF account.login = "" THEN Entry(h).login ELSE account.login,
               IF account.passwd = "" THEN Entry(h).passwd ELSE account.passwd)

EntryAsGiven(h, account) == [host |-> h, login |-> account.login, passwd |-> account.passwd]

NewEntry(h, account) ==
  LET a == Completed(h, account) IN [host |-> h, login |-> a.login, passwd |-> a.passwd]

Without(h) == IF Listed(h) THEN RemoveAt(recent, GetRecentDrac(h)) ELSE recent

Trimmed(list) == IF Len(list) > MaxRecent THEN Front(list) ELSE list

DropsSecond(list, entry) ==
  IF Len(list) = MaxRecent THEN <<entry>> \o Tail(list) ELSE <<entry>> \o list

InFront(list, entry) == Trimmed(<<entry>> \o list)

SetupDracClient(h, account) ==
  \/ /\ dracmap[h] # NoSession
     /\ UNCHANGED <<recent, dracmap, order, starts>>
  \/ /\ dracmap[h] = NoSession /\ starts < MaxStarts
     /\ dracmap' = [dracmap EXCEPT ![h] = Completed(h, account)]
     /\ recent' = InFront(Without(h), NewEntry(h, account))
     /\ order' = <<h>> \o RemoveFirst(order, h)
     /\ starts' = starts + 1

-----------------------------------------------------------------------------
(* A POST to connectHandler.  With a login and a password they are used;   *)
(* if either is missing both are taken from the list; without an entry the *)
(* answer is "need credentials", and nothing happens.                      *)
Post(f, h, account) ==
  /\ form[f] = Idle
  /\ \/ /\ account.login # "" /\ account.passwd # ""
        /\ form' = [form EXCEPT ![f] = [state |-> "found", host |-> h, account |-> account]]
     \/ /\ account.login = "" \/ account.passwd = ""
        /\ Listed(h)
        /\ form' = [form EXCEPT ![f] = [state |-> "found", host |-> h,
                                        account |-> Account(Entry(h).login, Entry(h).passwd)]]
  /\ UNCHANGED <<recent, dracmap, order, starts>>

SubmitForm(f) ==
  /\ form[f] # Idle
  /\ SetupDracClient(form[f].host, form[f].account)
  /\ form' = [form EXCEPT ![f] = Idle]

(* A png, a gif or a viewer, without an account.                           *)
Visit(h) ==
  /\ dracmap[h] = NoSession
  /\ SetupDracClient(h, Account("", ""))
  /\ UNCHANGED form

(* dracHandler removes its session.                                        *)
EndSession(h) ==
  /\ dracmap[h] # NoSession
  /\ dracmap' = [dracmap EXCEPT ![h] = NoSession]
  /\ UNCHANGED <<recent, form, order, starts>>

Next ==
  \/ \E f \in Forms, h \in Hosts, account \in Accounts : Post(f, h, account)
  \/ \E f \in Forms : SubmitForm(f)
  \/ \E h \in Hosts : Visit(h) \/ EndSession(h)

Spec == Init /\ [][Next]_recentVars

-----------------------------------------------------------------------------
(* The list is the MaxRecent hosts started last, the last one first, each  *)
(* once: what is dropped was started longest ago.                          *)
NewestListed ==
  [i \in DOMAIN recent |-> recent[i].host] = SubSeq(order, 1, IF Len(order) < MaxRecent THEN Len(order) ELSE MaxRecent)

(* A visit without an account never wipes out a password that is known, as *)
(* long as the host is listed.                                             *)
PasswordKept ==
  [][\A h \in Hosts : Listed(h) /\ Entry(h).passwd # "" /\ Listed(h)'
       => (Entry(h).passwd)' # ""]_recentVars

-----------------------------------------------------------------------------
(* What README.md:6 says of a screenshot: a host of which nothing is known *)
(* is asked as root with calvin.  It is asked with no account.             *)
DefaultAccount ==
  [][\A h \in Hosts : dracmap[h] = NoSession /\ ~Listed(h) /\ Visit(h)
       => dracmap'[h] = Account("root", "calvin")]_recentVars
=============================================================================
