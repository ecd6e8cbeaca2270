--------------------------- MODULE DynamoOutboxRelay ---------------------------
(***************************************************************************)
(* DynamoDBOutboxRelayService.relayPendingMessages of the maintenance      *)
(* context, run by any number of processes over the OUTBOX# items.         *)
(*                                                                         *)
(* A call scans the table for PENDING and RETRY items and then works on    *)
(* the images it has in memory: for each it puts back PROCESSING with one  *)
(* more attempt, publishes, and puts back PUBLISHED, or RETRY or DEAD.     *)
(* No Put has a condition: each replaces the item by the image in memory,  *)
(* whatever other relays have made of it since the Scan.  A Scan is        *)
(* eventually consistent, and reads one page only: LastEvaluatedKey is not *)
(* followed, and the table is shared with everything else the context      *)
(* stores.  Any call may fail after it took effect.                        *)
(***************************************************************************)
EXTENDS Naturals, FiniteSets

CONSTANTS Messages,      \* outbox items: one per event announced
          Relays,        \* processes that run the relay
          MaxAttempts,   \* maxAttempts (5)
          MaxFaults,     \* bound: failed calls and crashes in a behaviour
          ShiftsAnytime  \* bound: FALSE if an item leaves or enters the page
                         \*        only while it waits for a relay

ASSUME DynamoOutboxRelayAssumption ==
    /\ MaxAttempts \in Nat \ {0}
    /\ MaxFaults \in Nat
    /\ ShiftsAnytime \in BOOLEAN

VARIABLES
    item,       \* the OUTBOX# items
    replica,    \* the item as a replica that lags behind still has it
    page,       \* the items that lie within the first page of the table
    sent,       \* the messages SNS has accepted
    tries,      \* how many attempts were begun, counted up to MaxAttempts
    faults,     \* how many calls have failed
    pc,         \* the next call of each relay
    batch,      \* the scanned items a relay has not finished
    current     \* the item it works on, as it was scanned

history == <<sent, tries, faults>>
relay == <<pc, batch, current>>
vars == <<item, replica, page, history, relay>>

Statuses == {"PENDING", "PROCESSING", "PUBLISHED", "RETRY", "DEAD"}

ItemRow == [status: Statuses, attempts: Nat]
NoItem == [status |-> "NONE", attempts |-> 0]

\* A scanned item, with the attempt count it has in memory.
Image == [id: Messages, attempts: Nat]
NoImage == [id |-> {}, attempts |-> 0]

Held(r) == {i.id : i \in batch[r]}

\* At most MaxFaults calls fail.
Fault == /\ faults < MaxFaults
         /\ faults' = faults + 1

----------------------------------------------------------------------------

\* DynamoDBMaintenanceRepository puts the item with its request.
Insert(m) ==
    /\ item[m] = NoItem
    /\ item' = [item EXCEPT ![m] = [status |-> "PENDING", attempts |-> 0]]
    /\ UNCHANGED <<replica, page, history, relay>>

Replicate(m) ==
    /\ replica[m] # item[m]
    /\ replica' = [replica EXCEPT ![m] = item[m]]
    /\ UNCHANGED <<item, page, history, relay>>

\* Variant: what waits for a retry is not found.
Outstanding_PendingOnly(i) == i.status = "PENDING"

\* The FilterExpression.
Outstanding(i) == i.status \in {"PENDING", "RETRY"}

\* The page ends after 1 MB, whatever the filter leaves of it: as the items
\* before m, or m itself, grow or shrink, m falls behind its end, or returns.
Shift(m) ==
    /\ ShiftsAnytime \/ (Outstanding(item[m]) /\ \A r \in Relays : m \notin Held(r))
    /\ page' = IF m \in page THEN page \ {m} ELSE page \cup {m}
    /\ UNCHANGED <<item, replica, history, relay>>

\* Variant: all scanned items are put back as PROCESSING at once.
Scan_TakeAll(r) ==
    /\ pc[r] = "idle"
    /\ LET B == {m \in page : Outstanding(item[m])}
       IN /\ B # {}
          /\ batch' = [batch EXCEPT ![r] =
                          {[id |-> m, attempts |-> item[m].attempts] : m \in B}]
          /\ item' = [m \in Messages |->
                         IF m \in B THEN [item[m] EXCEPT !.status = "PROCESSING"]
                                    ELSE item[m]]
    /\ pc' = [pc EXCEPT ![r] = "take"]
    /\ UNCHANGED <<replica, page, history, current>>

\* Each item may come from the replica that lags.
Scan(r) ==
    /\ pc[r] = "idle"
    /\ \E view \in [Messages -> {item, replica}] :
          LET B == {m \in page : Outstanding(view[m][m])}
          IN /\ B # {}
             /\ batch' = [batch EXCEPT ![r] =
                             {[id |-> m, attempts |-> view[m][m].attempts] : m \in B}]
    /\ pc' = [pc EXCEPT ![r] = "take"]
    /\ UNCHANGED <<item, replica, page, history, current>>

----------------------------------------------------------------------------

\* PutItem of the whole image, its attempt counted.
Put(r, i, s) ==
    item' = [item EXCEPT ![i.id] = [status |-> s, attempts |-> i.attempts + 1]]

Goto(r, l) == pc' = [pc EXCEPT ![r] = l]

\* The loop goes on to the next item of the batch, if there is one.
NextImage(r) ==
    /\ batch' = [batch EXCEPT ![r] = @ \ {current[r]}]
    /\ current' = [current EXCEPT ![r] = NoImage]
    /\ Goto(r, IF batch[r] = {current[r]} THEN "idle" ELSE "take")

\* The call ends with the rest of its batch unsettled.
Abandon(r) == /\ batch' = [batch EXCEPT ![r] = {}]
              /\ current' = [current EXCEPT ![r] = NoImage]
              /\ Goto(r, "idle")

\* The Put of PROCESSING succeeds; or fails, with or without effect.
PutProcessing(r) ==
    /\ pc[r] = "take"
    /\ \E i \in batch[r] :
          /\ current' = [current EXCEPT ![r] = i]
          /\ tries' = [tries EXCEPT ![i.id] = IF @ < MaxAttempts THEN @ + 1 ELSE @]
          /\ \/ Put(r, i, "PROCESSING") /\ Goto(r, "send") /\ UNCHANGED faults
             \/ /\ Fault
                /\ Put(r, i, "PROCESSING") \/ UNCHANGED item
                /\ Goto(r, "failed")
    /\ UNCHANGED <<replica, page, sent, batch>>

\* Variant: the error of the publication is logged and otherwise ignored.
Send_Swallow(r) ==
    /\ pc[r] = "send"
    /\ \/ sent' = sent \cup {current[r].id} /\ UNCHANGED faults
       \/ Fault /\ UNCHANGED sent
    /\ Goto(r, "sent")
    /\ UNCHANGED <<item, replica, page, tries, batch, current>>

\* SNS accepts the message and says so; or accepts it and the answer is
\* lost; or does not accept it.
Send(r) ==
    /\ pc[r] = "send"
    /\ LET accept == sent' = sent \cup {current[r].id}
       IN \/ accept /\ Goto(r, "sent") /\ UNCHANGED faults
          \/ /\ Fault
             /\ accept \/ UNCHANGED sent
             /\ Goto(r, "failed")
    /\ UNCHANGED <<item, replica, page, tries, batch, current>>

PutPublished(r) ==
    /\ pc[r] = "sent"
    /\ \/ Put(r, current[r], "PUBLISHED") /\ NextImage(r) /\ UNCHANGED faults
       \/ /\ Fault
          /\ Put(r, current[r], "PUBLISHED") \/ UNCHANGED item
          /\ Goto(r, "failed")
          /\ UNCHANGED <<batch, current>>
    /\ UNCHANGED <<replica, page, sent, tries>>

\* Variant: one attempt too many is granted.
NextStatus_OffByOne(i) == IF i.attempts >= MaxAttempts THEN "DEAD" ELSE "RETRY"

NextStatus(i) == IF i.attempts + 1 >= MaxAttempts THEN "DEAD" ELSE "RETRY"

\* The Put of the inner catch block: its error ends the call.
PutFailed(r) ==
    /\ pc[r] = "failed"
    /\ LET put == Put(r, current[r], NextStatus(current[r]))
       IN \/ put /\ NextImage(r) /\ UNCHANGED faults
          \/ /\ Fault
             /\ put \/ UNCHANGED item
             /\ Abandon(r)
    /\ UNCHANGED <<replica, page, sent, tries>>

\* Nothing but the item says that a relay was at work on it.
Crash(r) == /\ Fault
            /\ pc[r] # "idle"
            /\ Abandon(r)
            /\ UNCHANGED <<item, replica, page, sent, tries>>

----------------------------------------------------------------------------

Relay(r) == Scan(r) \/ PutProcessing(r) \/ Send(r) \/ PutPublished(r) \/ PutFailed(r)

Init ==
    /\ item = [m \in Messages |-> NoItem]
    /\ replica = [m \in Messages |-> NoItem]
    /\ page = Messages
    /\ sent = {}
    /\ tries = [m \in Messages |-> 0]
    /\ faults = 0
    /\ pc = [r \in Relays |-> "idle"]
    /\ batch = [r \in Relays |-> {}]
    /\ current = [r \in Relays |-> NoImage]

Next == \/ \E m \in Messages : Insert(m) \/ Replicate(m) \/ Shift(m)
        \/ \E r \in Relays : Relay(r) \/ Crash(r)

Spec == Init /\ [][Next]_vars

\* Node resumes a call that has been answered, whoever runs the relays calls
\* them again and again, and replicas catch up.
FairSpec == /\ Spec
            /\ \A r \in Relays : WF_vars(Relay(r))
            /\ \A m \in Messages : WF_vars(Replicate(m))
----------------------------------------------------------------------------

(* Items, replicas, counters and every relay's memory hold values of their *)
(* types.                                                                  *)
TypeOK ==
    /\ item \in [Messages -> ItemRow \cup {NoItem}]
    /\ replica \in [Messages -> ItemRow \cup {NoItem}]
    /\ page \subseteq Messages
    /\ sent \subseteq Messages
    /\ tries \in [Messages -> 0 .. MaxAttempts]
    /\ faults \in 0 .. MaxFaults
    /\ pc \in [Relays -> {"idle", "take", "send", "sent", "failed"}]
    /\ batch \in [Relays -> SUBSET Image]
    /\ current \in [Relays -> Image \cup {NoImage}]

(* An item says PUBLISHED only if SNS has accepted its message, whichever  *)
(* relay's image it is.                                                    *)
PublishedWasSent == \A m \in Messages : item[m].status = "PUBLISHED" => m \in sent

\* The promise of an outbox in terms of the table and of the histories.
Promise == INSTANCE OutboxPromise WITH
    announced <- {m \in Messages : item[m] # NoItem},
    begun <- tries,
    verdict <- [m \in Messages |->
                   IF item[m].status \in {"PUBLISHED", "DEAD"}
                   THEN item[m].status ELSE "OPEN"]

(* The relays keep the promise of OutboxPromise although they put images   *)
(* back that are out of date and their scans lag: nothing is sent that was *)
(* not announced and begun, an item turns PUBLISHED only when its message  *)
(* was sent, and DEAD only when MaxAttempts were really begun.             *)
RefinesPromise == Promise!Spec

(* The count of an item suits its status, so that no item a Scan finds has *)
(* used up its attempts, and one is given up only after MaxAttempts were   *)
(* really begun: relays put back counts that are out of date, and so lose  *)
(* attempts, but they never invent one.                                    *)
RetriesAreUsable ==
    \A m \in Messages :
       CASE item[m].status = "RETRY" -> item[m].attempts \in 1 .. MaxAttempts - 1
         [] item[m].status = "DEAD" ->
               item[m].attempts = MaxAttempts /\ tries[m] = MaxAttempts
         [] item[m].status \in {"PENDING", "NONE"} -> item[m].attempts = 0
         [] OTHER -> item[m].attempts \in 1 .. MaxAttempts

\* No Scan looks for the item, and no relay will put it back.
Stranded(m) == /\ item[m].status = "PROCESSING"
               /\ \A r \in Relays : m \notin Held(r)

(* A failed call or a dead relay leaves at most one item behind in         *)
(* PROCESSING: items are taken one by one, the rest of a batch stays where *)
(* a Scan finds it.                                                        *)
OneStrandedPerFault == Cardinality({m \in Messages : Stranded(m)}) <= faults

(* When the calls stop failing, every item comes to rest, PUBLISHED or     *)
(* DEAD, however many relays have scanned it and put it back; except one   *)
(* that was stranded, and one that keeps falling behind the first page of  *)
(* the table or stays there.                                               *)
SettledForGood ==
    \A m \in Messages :
       \/ <>[](\/ item[m] = NoItem
               \/ item[m].status \in {"PUBLISHED", "DEAD"}
               \/ Stranded(m))
       \/ []<>(m \notin page)
=============================================================================
