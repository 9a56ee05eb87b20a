------------------------------- MODULE Topics -------------------------------
(***************************************************************************)
(* Topics, segments and what a contact chose about them                    *)
(* (internal/audience), and whom a topic broadcast goes to                 *)
(* (Handlers.topicRecipientEmails).  A contact's choice is a row that goes *)
(* with the contact or the topic; without one the default of the topic     *)
(* counts.  Two handlers check that both ends exist before they insert a   *)
(* row, in an earlier statement.  Suppressions and the unsubscribed flag   *)
(* are one fact here, "reachable"; Consent is about the two.               *)
(***************************************************************************)
EXTENDS Naturals, Tenancy

CONSTANTS
    People,        \* addresses
    Topics,        \* topics that may be created
    Segments,      \* segments that may be created
    MaxPeople      \* bound: contacts created per address

ASSUME TopicsAssumption == MaxPeople \in Nat

VARIABLES
    person,     \* the id of the address's contact, 0 when there is none
    persons,    \* contacts created so far
    reachable,  \* neither unsubscribed nor suppressed
    topic,      \* default_subscription, or whether there is no row yet or any more
    choice,     \* topic_subscriptions.subscribed
    segments,   \* rows of segments
    dropped,    \* segments that were deleted
    members,    \* segment_members
    topicPc,    \* next statement of a request
    topicCall,  \* what it remembers
    declined    \* for the properties only: topics an address said no to

topicVars == <<person, persons, reachable, topic, choice, segments, dropped, members,
               topicPc, topicCall, declined>>

contactRows == <<person, persons, reachable>>
NoTopicCall == [id |-> 0]
Defaults == {"opt_in", "opt_out"}

TopicsTyped ==
    /\ person \in [People -> 0 .. MaxPeople]
    /\ persons \in [People -> 0 .. MaxPeople]
    /\ reachable \in [People -> BOOLEAN]
    /\ topic \in [Topics -> Defaults \cup {"unused", "deleted"}]
    /\ choice \in [Topics -> [People -> {"none", "yes", "no"}]]
    /\ segments \subseteq Segments \ dropped
    /\ dropped \subseteq Segments
    /\ members \subseteq segments \X People
    /\ topicPc \in [Clients -> {"idle", "subscribe", "join"}]
    /\ \A c \in Clients : topicPc[c] = "idle" <=> topicCall[c] = NoTopicCall
    /\ declined \subseteq Topics \X People
    /\ \A p \in Topics, a \in People :
         choice[p][a] # "none" => topic[p] \in Defaults /\ person[a] # 0

TopicsInit ==
    /\ person = [a \in People |-> 0]
    /\ persons = [a \in People |-> 0]
    /\ reachable = [a \in People |-> TRUE]
    /\ topic = [p \in Topics |-> "unused"]
    /\ choice = [p \in Topics |-> [a \in People |-> "none"]]
    /\ segments = {}
    /\ dropped = {}
    /\ members = {}
    /\ topicPc = [c \in Clients |-> "idle"]
    /\ topicCall = [c \in Clients |-> NoTopicCall]
    /\ declined = {}

TopicStep(c, next, args) ==
    /\ topicPc' = [topicPc EXCEPT ![c] = next]
    /\ topicCall' = [topicCall EXCEPT ![c] = args]

-----------------------------------------------------------------------------
\* The upsert leaves the row of a contact that exists, and what refers to it.
createContact(a) ==
    /\ person[a] = 0
    /\ persons[a] < MaxPeople
    /\ persons' = [persons EXCEPT ![a] = @ + 1]
    /\ person' = [person EXCEPT ![a] = persons[a] + 1]
    /\ UNCHANGED <<reachable, topic, choice, segments, dropped, members, topicPc,
                   topicCall, declined>>

\* ON DELETE CASCADE: choices and memberships go with the contact.
deleteContact(a) ==
    /\ person[a] # 0
    /\ person' = [person EXCEPT ![a] = 0]
    /\ choice' = [p \in Topics |-> [choice[p] EXCEPT ![a] = "none"]]
    /\ members' = {m \in members : m[2] # a}
    /\ declined' = {d \in declined : d[2] # a}
    /\ UNCHANGED <<persons, reachable, topic, segments, dropped, topicPc, topicCall>>

\* Unsubscribed or suppressed, or the opposite.
ReachabilityChanges(a) ==
    /\ reachable' = [reachable EXCEPT ![a] = ~@]
    /\ UNCHANGED <<person, persons, topic, choice, segments, dropped, members,
                   topicPc, topicCall,
                   declined>>

createTopic(p, default) ==
    /\ topic[p] = "unused"
    /\ topic' = [topic EXCEPT ![p] = default]
    /\ UNCHANGED <<contactRows, choice, segments, dropped, members, topicPc,
                   topicCall, declined>>

\* Its choices go with it.
deleteTopic(p) ==
    /\ topic[p] \in Defaults
    /\ topic' = [topic EXCEPT ![p] = "deleted"]
    /\ choice' = [choice EXCEPT ![p] = [a \in People |-> "none"]]
    /\ declined' = {d \in declined : d[1] # p}
    /\ UNCHANGED <<contactRows, segments, dropped, members, topicPc, topicCall>>

createSegment(g) ==
    /\ g \notin segments \cup dropped
    /\ segments' = segments \cup {g}
    /\ UNCHANGED <<dropped, contactRows, topic, choice, members, topicPc, topicCall,
                   declined>>

deleteSegment(g) ==
    /\ g \in segments
    /\ segments' = segments \ {g}
    /\ dropped' = dropped \cup {g}
    /\ members' = {m \in members : m[1] # g}
    /\ UNCHANGED <<contactRows, topic, choice, topicPc, topicCall, declined>>

\* AddToSegment: both are there; then the INSERT, which the foreign keys refuse
\* when one is gone and which changes nothing when the row exists.
addContactSegment(c, a, g) ==
    /\ topicPc[c] = "idle"
    /\ person[a] # 0 /\ g \in segments
    /\ TopicStep(c, "join", [id |-> person[a], address |-> a, about |-> g])
    /\ UNCHANGED <<contactRows, topic, choice, segments, dropped, members, declined>>

Join(c) ==
    LET q == topicCall[c] IN
    /\ topicPc[c] = "join"
    /\ members' = IF person[q.address] = q.id /\ q.about \in segments
                  THEN members \cup {<<q.about, q.address>>} ELSE members
    /\ TopicStep(c, "idle", NoTopicCall)
    /\ UNCHANGED <<contactRows, topic, choice, segments, dropped, declined>>

removeContactSegment(a, g) ==
    /\ <<g, a>> \in members
    /\ members' = members \ {<<g, a>>}
    /\ UNCHANGED <<contactRows, topic, choice, segments, dropped, topicPc, topicCall,
                   declined>>

-----------------------------------------------------------------------------
\* Fault: ON CONFLICT DO NOTHING.
InsertChoice(p, a, yes) ==
    choice' = IF choice[p][a] # "none" THEN choice
              ELSE [choice EXCEPT ![p][a] = IF yes THEN "yes" ELSE "no"]

\* ON CONFLICT DO UPDATE SET subscribed.
UpsertChoice(p, a, yes) ==
    choice' = [choice EXCEPT ![p][a] = IF yes THEN "yes" ELSE "no"]

Declare(p, a, yes) ==
    declined' = IF yes THEN declined \ {<<p, a>>} ELSE declined \cup {<<p, a>>}

setContactTopic(c, a, p, yes) ==
    /\ topicPc[c] = "idle"
    /\ person[a] # 0 /\ topic[p] \in Defaults
    /\ TopicStep(c, "subscribe", [id |-> person[a], address |-> a, about |-> p, yes |-> yes])
    /\ UNCHANGED <<contactRows, topic, choice, segments, dropped, members, declined>>

SetTopicSubscription(c) ==
    LET q == topicCall[c] IN
    /\ topicPc[c] = "subscribe"
    /\ IF person[q.address] = q.id /\ topic[q.about] \in Defaults
       THEN UpsertChoice(q.about, q.address, q.yes) /\ Declare(q.about, q.address, q.yes)
       ELSE UNCHANGED <<choice, declined>>
    /\ TopicStep(c, "idle", NoTopicCall)
    /\ UNCHANGED <<contactRows, topic, segments, dropped, members>>

\* The unsubscribe link with a topic: INSERT ... SELECT, no row without contact.
\* Its error is dropped: the wish is lost, whatever the page says.
handleUnsubscribeTopic(a, p) ==
    /\ person[a] # 0 /\ topic[p] \in Defaults
    /\ UpsertChoice(p, a, FALSE)
    /\ Declare(p, a, FALSE)
    /\ UNCHANGED <<contactRows, topic, segments, dropped, members, topicPc, topicCall>>

TopicRequestDies(c) ==
    /\ topicPc[c] # "idle"
    /\ TopicStep(c, "idle", NoTopicCall)
    /\ UNCHANGED <<contactRows, topic, choice, segments, dropped, members, declined>>

TopicsNext ==
    \/ \E a \in People :
         \/ createContact(a)
         \/ deleteContact(a)
         \/ ReachabilityChanges(a)
         \/ \E g \in Segments : removeContactSegment(a, g)
         \/ \E p \in Topics : handleUnsubscribeTopic(a, p)
    \/ \E p \in Topics :
         \/ deleteTopic(p)
         \/ \E default \in Defaults : createTopic(p, default)
    \/ \E g \in Segments : createSegment(g) \/ deleteSegment(g)
    \/ \E c \in Clients :
         \/ Join(c)
         \/ SetTopicSubscription(c)
         \/ TopicRequestDies(c)
         \/ \E a \in People :
              \/ \E g \in Segments : addContactSegment(c, a, g)
              \/ \E p \in Topics, yes \in BOOLEAN : setContactTopic(c, a, p, yes)

TopicsSpec == TopicsInit /\ [][TopicsNext]_topicVars

-----------------------------------------------------------------------------
\* The worker's query, for a whole topic and for one segment of its readers.
topicRecipientEmails(p) ==
    {a \in People :
       /\ person[a] # 0
       /\ reachable[a]
       /\ \/ choice[p][a] = "yes"
          \/ choice[p][a] = "none" /\ topic[p] = "opt_out"}

SegmentOf(p, g) == {a \in topicRecipientEmails(p) : <<g, a>> \in members}

\* The API's query: the topics a contact is shown as subscribed to.
ListContactTopics(a) ==
    {p \in Topics :
       /\ topic[p] \in Defaults
       /\ IF choice[p][a] = "none" THEN topic[p] = "opt_out" ELSE choice[p][a] = "yes"}

(* The list of recipients a broadcast of a topic reads names no address whose
   last word on the topic was a no by then, for as long as contact and topic
   exist: by the link, or by an API call that crosses with others; not by way
   of a segment either.  And the two queries agree: the list has the reachable
   contacts that are shown as subscribed.  HandleBroadcastSend reads the list
   once (handlers.go:292) and looks at no choice again: a no that comes later
   does not take the address off it
   (audience/service.go:322-378, handlers.go:391-427, :618-627).            *)
TopicChoiceIsKept ==
    \A p \in Topics, a \in People :
        /\ <<p, a>> \in declined => a \notin topicRecipientEmails(p)
        /\ a \in topicRecipientEmails(p) <=>
             (person[a] # 0 /\ reachable[a] /\ p \in ListContactTopics(a))
        /\ \A g \in Segments : a \in SegmentOf(p, g) =>
             g \in segments /\ <<p, a>> \notin declined
=============================================================================
