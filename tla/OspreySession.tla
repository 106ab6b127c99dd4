---------------------------- MODULE OspreySession ----------------------------
(***************************************************************************)
(* What a connection promises its peer, whatever threads, queues and flags *)
(* it uses to keep the promise: Data is acknowledged in order up to the    *)
(* first End; each payload yields at most one result, after its            *)
(* acknowledgement; results are sent on credit; End comes once, when every *)
(* Data before the peer's End is acknowledged and no result is left, and   *)
(* is last.  Results of others may come in between.  A connection that is  *)
(* Alone promises more: results in the order of the payloads, and none     *)
(* that End overtakes.                                                     *)
(***************************************************************************)
EXTENDS Naturals, Sequences

CONSTANTS
    NoEnd,          \* the value of endAt while the peer has not sent End
    Alone,          \* nothing is published but one answer to the payload in hand
    Stranger        \* a result that is not the first of a payload of this session

VARIABLES
    accepted,       \* Data messages accepted
    endAt,          \* the value of accepted when the first End was accepted
    continues,      \* Continue messages of the peer
    acks,           \* Continue messages sent: payloads acknowledged
    outbox,         \* results not sent yet; a result is the number of its payload
    sent,           \* results sent
    endsSent        \* End messages sent

session == <<accepted, endAt, continues, acks, outbox, sent, endsSent>>

Init ==
    /\ accepted = 0 /\ endAt = NoEnd /\ continues = 0
    /\ acks = 0 /\ outbox = <<>> /\ sent = <<>> /\ endsSent = 0

AcceptData ==
    /\ accepted' = accepted + 1
    /\ UNCHANGED <<endAt, continues, acks, outbox, sent, endsSent>>

AcceptEnd ==
    /\ endAt = NoEnd
    /\ endAt' = accepted
    /\ UNCHANGED <<accepted, continues, acks, outbox, sent, endsSent>>

AcceptContinue ==
    /\ continues' = continues + 1
    /\ UNCHANGED <<accepted, endAt, acks, outbox, sent, endsSent>>

AcknowledgeData ==
    /\ endsSent = 0
    /\ acks < accepted /\ (endAt = NoEnd \/ acks < endAt)
    /\ acks' = acks + 1
    /\ UNCHANGED <<accepted, endAt, continues, outbox, sent, endsSent>>

Produce(k) ==
    /\ \A i \in 1..Len(sent) : sent[i] # k
    /\ \A i \in 1..Len(outbox) : outbox[i] # k
    /\ Alone => /\ endsSent = 0
                /\ \A i \in 1..Len(sent) : sent[i] < k
                /\ \A i \in 1..Len(outbox) : outbox[i] < k
    /\ outbox' = Append(outbox, k)
    /\ UNCHANGED <<accepted, endAt, continues, acks, sent, endsSent>>

ProduceForOthers ==
    /\ ~Alone
    /\ outbox' = Append(outbox, Stranger)
    /\ UNCHANGED <<accepted, endAt, continues, acks, sent, endsSent>>

SendResult ==
    /\ endsSent = 0
    /\ outbox # <<>> /\ Len(sent) <= continues
    /\ sent' = Append(sent, Head(outbox))
    /\ outbox' = Tail(outbox)
    /\ UNCHANGED <<accepted, endAt, continues, acks, endsSent>>

SendEnd ==
    /\ endsSent = 0
    /\ endAt # NoEnd /\ acks = endAt /\ outbox = <<>>
    /\ endsSent' = 1
    /\ UNCHANGED <<accepted, endAt, continues, acks, outbox, sent>>

Next ==
    \/ AcceptData \/ AcceptEnd \/ AcceptContinue
    \/ AcknowledgeData
    \/ (\E k \in 1..acks : Produce(k)) \/ ProduceForOthers
    \/ SendResult
    \/ SendEnd

Spec == Init /\ [][Next]_session
=============================================================================
