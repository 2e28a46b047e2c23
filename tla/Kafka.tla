------------------------------- MODULE Kafka -------------------------------
(***************************************************************************)
(* The broker as the services use it (external: kafkajs and Kafka are not  *)
(* part of the repository).                                                *)
(*                                                                         *)
(* A topic is a log: a sequence that only grows.  Docker-compose starts    *)
(* one broker that creates topics on first use, with one partition, so a   *)
(* topic is delivered in the order it was written; nothing orders two      *)
(* topics with respect to each other.  A consumer group has, for every     *)
(* topic, the number of messages it has handled ("pos") and the number it  *)
(* has committed.  eachMessage handles one message at a time: a handler    *)
(* that returns moves pos, one that throws leaves pos alone and the same   *)
(* message is delivered again.                                             *)
(*                                                                         *)
(* kafkajs commits handled offsets in the background.  Since a commit is   *)
(* visible only to a consumer that starts anew, the choice of when it      *)
(* happened is made at that moment: the group resumes at any offset        *)
(* between the last known commit and pos.  All consumers subscribe with    *)
(* fromBeginning: false, so a group that has not committed anything in a   *)
(* topic starts at its end, each time it joins, until its first commit.    *)
(***************************************************************************)
EXTENDS Naturals, Sequences

\* There is a message the group has not handled.
HasNext(log, pos) == pos < Len(log)

\* The message eachMessage hands to the handler.
NextMessage(log, pos) == log[pos + 1]

\* Where a restarted consumer may resume: everything past the last commit that
\* was already handled may be delivered once more.
ResumePoints(committed, pos) == committed .. pos

\* What is known of a group's commits in a topic: the lowest offset it may have
\* committed, whether it has surely committed one, and, as history, the messages
\* it has jumped over.
Commit == [from : Nat, sure : BOOLEAN, skipped : SUBSET Nat]

\* A group of which nothing is known: it may be new, or have committed before.
FirstCommit == [from |-> 0, sure |-> FALSE, skipped |-> {}]

\* How a group may stand, in a topic of len messages, when it has joined anew: at
\* a commit or, if it has made none, at the end.  (At the end it makes no
\* difference yet which it was.)
Rejoined(c, pos, len) ==
    LET atCommit == {[pos |-> k, committed |-> [c EXCEPT !.from = k, !.sure = TRUE]] : k \in ResumePoints(c.from, pos)}
        atEnd == [pos |-> len,
                  committed |-> [from |-> IF len \in ResumePoints(c.from, pos) THEN len ELSE len + 1,
                                 sure |-> FALSE, skipped |-> c.skipped \cup ((pos + 1) .. len)]] IN
    IF c.sure THEN atCommit ELSE {w \in atCommit : w.pos < len} \cup {atEnd}

\* Messages of a log, without their order.
Messages(log) == {log[i] : i \in 1 .. Len(log)}
=============================================================================
