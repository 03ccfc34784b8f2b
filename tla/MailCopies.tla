------------------------------ MODULE MailCopies ------------------------------
(***************************************************************************)
(* What the mail queue promises about the copies of a mail, as if queue    *)
(* and workers were a single bookkeeper: a mail is queued once, with one   *)
(* copy to come; a copy comes by being sent; and a copy that is lost stays *)
(* lost, unless an administrator asks for another one.  Module             *)
(* BriefingDelivery shows how rows, claims and workers that crash          *)
(* implement this.                                                         *)
(***************************************************************************)
EXTENDS Naturals

CONSTANT Mails

VARIABLES
  queued,  \* mails that have been queued
  toCome,  \* copies of each that are still to come
  sent,    \* copies that a server has taken
  excused  \* copies more than the one a mail is queued for

copiesVars == <<queued, toCome, sent, excused>>

CopiesInit ==
  /\ queued = {}
  /\ toCome = [m \in Mails |-> 0] /\ sent = [m \in Mails |-> 0] /\ excused = [m \in Mails |-> 0]

\* A handler or the scheduler queues a mail that never was.
QueueOnce(m) ==
  /\ m \notin queued
  /\ queued' = queued \cup {m}
  /\ toCome' = [toCome EXCEPT ![m] = 1]
  /\ UNCHANGED <<sent, excused>>

\* An administrator has it tried again; a copy that waits is not doubled.
TryAgain(m) ==
  /\ m \in queued
  /\ excused' = [excused EXCEPT ![m] = @ + 1]
  /\ toCome' = toCome \/ toCome' = [toCome EXCEPT ![m] = @ + 1]
  /\ UNCHANGED <<queued, sent>>

\* A server takes a copy ...
Send(m) ==
  /\ toCome[m] > 0
  /\ sent'   = [sent EXCEPT ![m] = @ + 1]
  /\ toCome' = [toCome EXCEPT ![m] = @ - 1]
  /\ UNCHANGED <<queued, excused>>

\* ... or takes it and breaks the session, so that it is still to come.
SendUnnoticed(m) ==
  /\ toCome[m] > 0
  /\ sent'    = [sent EXCEPT ![m] = @ + 1]
  /\ excused' = [excused EXCEPT ![m] = @ + 1]
  /\ UNCHANGED <<queued, toCome>>

\* Copies are cancelled, given up, or lost with a worker that dies.
Lose ==
  /\ toCome' \in [Mails -> Nat] /\ \A m \in Mails : toCome'[m] <= toCome[m]
  /\ UNCHANGED <<queued, sent, excused>>

CopiesNext ==
  \/ \E m \in Mails : QueueOnce(m) \/ TryAgain(m) \/ Send(m) \/ SendUnnoticed(m)
  \/ Lose

CopiesSpec == CopiesInit /\ [][CopiesNext]_copiesVars
=============================================================================
