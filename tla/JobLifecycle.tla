---------------------------- MODULE JobLifecycle ----------------------------
(***************************************************************************)
(* What the service promises about one card job to someone who only reads  *)
(* GET /jobs/{id} and sends approve or request-changes: no workers, no     *)
(* attempts, no retries.                                                   *)
(*                                                                         *)
(* A job is accepted, its run is started, one card becomes visible and is  *)
(* never replaced, and a verdict is taken once, about a visible card, on   *)
(* the word of a human. A run may fail at any moment, even after its card  *)
(* became visible; and a card may become visible after its run has failed, *)
(* when the thread that publishes it outlives the run.                     *)
(***************************************************************************)
EXTENDS Naturals

CONSTANTS Jobs, MaxCard

VARIABLES phase,     \* what became of the job
          card,      \* the card its row shows, 0 for none
          word,      \* the human's last word, if any
          verdict    \* the verdict the run has taken, if any

avars == <<phase, card, word, verdict>>

AInit == /\ phase   = [j \in Jobs |-> "absent"]
         /\ card    = [j \in Jobs |-> 0]
         /\ word    = [j \in Jobs |-> "none"]
         /\ verdict = [j \in Jobs |-> "none"]

Accept(j) ==
    /\ phase[j] = "absent"
    /\ phase' = [phase EXCEPT ![j] = "accepted"]
    /\ UNCHANGED <<card, word, verdict>>

Start(j) ==
    /\ phase[j] = "accepted"
    /\ phase' = [phase EXCEPT ![j] = "running"]
    /\ UNCHANGED <<card, word, verdict>>

Show(j) ==
    /\ phase[j] \in {"running", "failed"}
    /\ card[j] = 0
    /\ \E c \in 1..MaxCard : card' = [card EXCEPT ![j] = c]
    /\ UNCHANGED <<phase, word, verdict>>

Speak(j) ==
    /\ phase[j] = "running"
    /\ \E d \in {"approve", "request_changes"} : word' = [word EXCEPT ![j] = d]
    /\ UNCHANGED <<phase, card, verdict>>

Decide(j) ==
    /\ phase[j] = "running"
    /\ card[j] # 0
    /\ verdict[j] = "none"
    /\ \/ word[j] = "approve" /\ verdict' = [verdict EXCEPT ![j] = "approved"]
       \/ word[j] = "request_changes" /\ verdict' = [verdict EXCEPT ![j] = "rejected"]
    /\ UNCHANGED <<phase, card, word>>

Complete(j) ==
    /\ phase[j] = "running"
    /\ verdict[j] # "none"
    /\ phase' = [phase EXCEPT ![j] = "completed"]
    /\ UNCHANGED <<card, word, verdict>>

Fail(j) ==
    /\ phase[j] = "running"
    /\ phase' = [phase EXCEPT ![j] = "failed"]
    /\ UNCHANGED <<card, word, verdict>>

ANext == \E j \in Jobs : \/ Accept(j) \/ Start(j) \/ Show(j) \/ Speak(j)
                         \/ Decide(j) \/ Complete(j) \/ Fail(j)

ASpec == AInit /\ [][ANext]_avars
=============================================================================
