---------------------------- MODULE SupportTicket ----------------------------
(* A support ticket and the mail conversation it is handled in.            *)
(* backend/src/Services/support/support.service.js, with the replies that  *)
(* go into the same thread through ZMail:                                  *)
(* backend/src/Services/zmail/zmail.service.js.                            *)
(*                                                                         *)
(* One reporter opens tickets, each request with an idempotency key or     *)
(* with none, and talks to the one mailbox of the support team.  The form  *)
(* of the pages makes a new key at every click; only a client that sends   *)
(* the same request again repeats one.                                     *)
(* A request is a list of writes with an await between any two of them, so *)
(* requests interleave and a request may stop, with an error, before any   *)
(* of them.  A ticket and its thread go by the number of the ticket.       *)
(* Subjects, bodies, dates, counts, priorities, the assignment, notes and  *)
(* the history are left out, and so is the analysis that suggests a        *)
(* category and a priority: no status depends on them.                     *)
EXTENDS Naturals, Sequences, SequencesExt

CONSTANTS Requests,     \* the requests that may run at the same time
          Keys, NoKey,  \* idempotency keys; a request that sends none
          MaxNumbers,   \* bound: numbers given to tickets
          MaxMessages,  \* bound: a reply, or a second ticket, starts while there
                        \* are fewer messages
          MaxStops,     \* bound: requests that stop half way
          Wanted         \* bound: the statuses an agent asks for

ASSUME KeysAssumption == NoKey \notin Keys
ASSUME BoundsAssumption == {MaxNumbers, MaxMessages, MaxStops} \subseteq Nat

VARIABLES counter,   \* the number given last
          keys,      \* number -> the key of its request, stored with the ticket
          tickets,   \* number -> the stored ticket, or NoTicket
          threads,   \* number -> the people of its thread and its version
          mail,      \* number -> the messages of its thread
          request,   \* what each request has still to do
          stops,     \* requests that stopped half way
          asked,     \* number -> a message from the ticket's page, or the one that
                     \* opened it, was created since support last saved a reply
          unmarked,  \* numbers with such a message whose request leaves no mark
          overlapped \* keys with which two requests ran at once

vars == <<counter, keys, tickets, threads, mail, request, stops, asked, unmarked, overlapped>>

Numbers  == 1 .. MaxNumbers
Parties  == {"user", "support"}
NoTicket == [status |-> "none", unread |-> FALSE]
NoCopy   == NoTicket
Statuses == {"OPEN", "IN_PROGRESS", "WAITING_FOR_USER", "WAITING_FOR_SUPPORT",
             "RESOLVED", "CLOSED"}

AllowedTransitions(status) ==
    CASE status = "OPEN"        -> {"IN_PROGRESS", "RESOLVED", "CLOSED"}
      [] status = "IN_PROGRESS" -> {"WAITING_FOR_USER", "WAITING_FOR_SUPPORT",
                                    "RESOLVED", "CLOSED"}
      [] status \in {"WAITING_FOR_USER", "WAITING_FOR_SUPPORT"} ->
                                   {"IN_PROGRESS", "RESOLVED", "CLOSED"}
      [] status = "RESOLVED"    -> {"OPEN", "CLOSED"}
      [] status = "CLOSED"      -> {"OPEN"}

(* What each request writes, in this order.                                *)
\* Mutant: the record of the ticket is created before its conversation.
CreateTicketFirst ==
    <<"ticket", "post", "sender", "receiver", "acknowledge", "receiver", "sender">>

CreateSteps ==
    <<"post", "sender", "receiver", "ticket", "acknowledge", "receiver", "sender">>
UserReplySteps    == <<"post", "sender", "receiver", "save">>
SupportReplySteps == <<"post", "receiver", "sender", "save">>
MailSteps         == <<"thread", "post", "file">>
StatusSteps(to)   ==
    <<"status">> \o (IF to = "RESOLVED" THEN <<"load">> \o SupportReplySteps ELSE <<>>)

Idle == [op |-> "none", todo |-> <<>>, number |-> 0, by |-> "user", to |-> {},
         message |-> 0, want |-> "none", copy |-> NoCopy, version |-> 0, met |-> FALSE]

Init == /\ counter = 0
        /\ keys = [n \in Numbers |-> NoKey]
        /\ tickets = [n \in Numbers |-> NoTicket]
        /\ threads = [n \in Numbers |-> [people |-> <<>>, version |-> 0]]
        /\ mail = [n \in Numbers |-> <<>>]
        /\ request = [r \in Requests |-> Idle]
        /\ stops = 0
        /\ asked = [n \in Numbers |-> FALSE]
        /\ unmarked = {}
        /\ overlapped = {}

-----------------------------------------------------------------------------
(* Starting a request.                                                     *)

HasRoom == Len(FlattenSeq(mail)) < MaxMessages

Begin(r, new) == /\ request[r].op = "none"
                 /\ request' = [request EXCEPT ![r] = new]

Creating(q, k) == request[q].op = "create" /\ keys[request[q].number] = k

\* createTicket up to generateTicketNumber: a ticket that already has the key
\* is the answer, otherwise the counter gives the next number.  The check and
\* the creation of the ticket are many awaits apart.
Numbered(r, k) ==
    /\ counter < MaxNumbers /\ (HasRoom \/ \A n \in Numbers : tickets[n] = NoTicket)
    /\ counter' = counter + 1
    /\ keys' = [keys EXCEPT ![counter + 1] = k]
    /\ Begin(r, [Idle EXCEPT !.op = "create", !.todo = CreateSteps,
                             !.number = counter + 1, !.to = {"support"}])
    /\ overlapped' = overlapped \cup {j \in {k} : \E q \in Requests : Creating(q, j)}
    /\ UNCHANGED <<tickets, threads, mail, stops, asked, unmarked>>

\* Mutant: the idempotency key is not looked up.
SubmitAlways(r, k) == Numbered(r, k)

Submit(r, k) ==
    /\ k # NoKey => \A n \in Numbers : tickets[n] # NoTicket => keys[n] # k
    /\ Numbered(r, k)

\* userReply and supportReply load the ticket; support may not reply to a
\* closed one.
Reply(r, n, by) ==
    /\ tickets[n] # NoTicket /\ HasRoom
    /\ by = "support" => tickets[n].status # "CLOSED"
    /\ Begin(r, [Idle EXCEPT
                   !.op = "reply", !.number = n, !.by = by, !.to = Parties \ {by},
                   !.todo = IF by = "user" THEN UserReplySteps ELSE SupportReplySteps,
                   !.copy = tickets[n]])
    /\ UNCHANGED <<counter, keys, tickets, threads, mail, stops, asked, unmarked, overlapped>>

\* changeStatus loads the ticket and looks the transition up.
ChangeStatus(r, n, status) ==
    /\ tickets[n] # NoTicket
    /\ status \in AllowedTransitions(tickets[n].status)
    /\ status = "RESOLVED" => HasRoom
    /\ Begin(r, [Idle EXCEPT
                   !.op = "status", !.number = n, !.by = "support", !.to = {"user"},
                   !.todo = StatusSteps(status), !.want = status, !.copy = tickets[n]])
    /\ UNCHANGED <<counter, keys, tickets, threads, mail, stops, asked, unmarked, overlapped>>

\* replyToMessage of ZMail: whoever has the message in a mailbox and is one of
\* the people of the thread answers its sender, or its sender and the people it
\* was sent to.
MailReply(r, n, k, by, all) ==
    /\ HasRoom
    /\ by \in mail[n][k].boxes
    /\ \E i \in DOMAIN threads[n].people : threads[n].people[i] = by
    /\ Begin(r, [Idle EXCEPT
                   !.op = "mail", !.number = n, !.by = by, !.todo = MailSteps,
                   !.to = {mail[n][k].from}
                          \cup (IF all THEN mail[n][k].to \ {by} ELSE {}),
                   !.version = threads[n].version])
    /\ UNCHANGED <<counter, keys, tickets, threads, mail, stops, asked, unmarked, overlapped>>

-----------------------------------------------------------------------------
(* The writes of a request.                                                *)

At(r, step) == request[r].todo # <<>> /\ Head(request[r].todo) = step

\* The request goes on to its next write, or is over.
Advanced(r, with) == IF Tail(request[r].todo) = <<>> THEN Idle
                  ELSE [with EXCEPT !.todo = Tail(request[r].todo)]
Proceed(r, with)  == request' = [request EXCEPT ![r] = Advanced(r, with)]

Message(r) == [from |-> request[r].by, to |-> request[r].to, boxes |-> {}]

\* The message is created; the first message of a ticket comes with its thread.
\* A reply of the user that has loaded the ticket with the mark writes none when
\* it is saved: if support saved a reply meanwhile, no mark is left.
Post(r) ==
    /\ At(r, "post")
    /\ LET n == request[r].number
           onPage == request[r].op = "reply" /\ request[r].by = "user" IN
       /\ mail' = [mail EXCEPT ![n] = Append(@, Message(r))]
       /\ threads' = IF request[r].op = "create"
                     THEN [threads EXCEPT ![n].people = <<"user", "support">>]
                     ELSE threads
       /\ Proceed(r, [request[r] EXCEPT !.message = Len(mail[n]) + 1])
       /\ asked' = [asked EXCEPT ![n] = @ \/ onPage]
       /\ unmarked' = unmarked \cup
            (IF onPage /\ request[r].copy.unread /\ request[r].met THEN {n} ELSE {})
    /\ UNCHANGED <<counter, keys, tickets, stops, overlapped>>

\* The acknowledgement of a new ticket is a message of support.
Acknowledge(r) ==
    /\ At(r, "acknowledge")
    /\ LET n == request[r].number
           ack == [request[r] EXCEPT !.by = "support", !.to = {"user"},
                                     !.message = Len(mail[n]) + 1] IN
       /\ mail' = [mail EXCEPT ![n] =
                     Append(@, [from |-> "support", to |-> {"user"}, boxes |-> {}])]
       /\ Proceed(r, ack)
    /\ UNCHANGED <<counter, keys, tickets, threads, stops, asked, unmarked, overlapped>>

\* upsertMailboxEntry: an entry for the sender, or for the receivers.
File(r, step, owners) ==
    /\ At(r, step)
    /\ mail' = [mail EXCEPT ![request[r].number][request[r].message].boxes = @ \cup owners]
    /\ Proceed(r, request[r])
    /\ UNCHANGED <<counter, keys, tickets, threads, stops, asked, unmarked, overlapped>>

FileSender(r)   == File(r, "sender", {request[r].by})
FileReceiver(r) == File(r, "receiver", request[r].to)
\* sendMail inserts all the entries of its message with one command.
FileAll(r)      == File(r, "file", {request[r].by} \cup request[r].to)

\* sendMail saves the thread with the people of this message.  A list of people
\* that changed is saved on condition of the version that was loaded.
SaveThread(r) ==
    /\ At(r, "thread")
    /\ LET n == request[r].number
           people == <<request[r].by>> \o SetToSeq(request[r].to \ {request[r].by}) IN
       \/ /\ threads[n].people = people
          /\ threads' = threads
          /\ Proceed(r, request[r])
       \/ /\ threads[n].people # people /\ threads[n].version = request[r].version
          /\ threads' = [threads EXCEPT ![n] = [people |-> people, version |-> @.version + 1]]
          /\ Proceed(r, request[r])
       \/ /\ threads[n].people # people /\ threads[n].version # request[r].version
          /\ threads' = threads
          /\ request' = [request EXCEPT ![r] = Idle]
    /\ UNCHANGED <<counter, keys, tickets, mail, stops, asked, unmarked, overlapped>>

\* The ticket appears in the dashboard, unread.
CreateTicket(r) ==
    /\ At(r, "ticket")
    /\ tickets' = [tickets EXCEPT ![request[r].number] = [status |-> "OPEN", unread |-> TRUE]]
    /\ asked' = [asked EXCEPT ![request[r].number] = TRUE]
    /\ Proceed(r, request[r])
    /\ UNCHANGED <<counter, keys, threads, mail, stops, unmarked, overlapped>>

\* save() stores the fields that were changed since the ticket was loaded.
Stored(n, copy, new) ==
    [f \in DOMAIN new |-> IF new[f] # copy[f] THEN new[f] ELSE tickets[n][f]]

\* Mutant: the ticket is marked unread only when it waited for the user.
AfterUserReplyWaiting(copy) ==
    CASE copy.status = "WAITING_FOR_USER" -> [status |-> "WAITING_FOR_SUPPORT", unread |-> TRUE]
      [] copy.status = "CLOSED"           -> [copy EXCEPT !.status = "OPEN"]
      [] OTHER                            -> copy

AfterUserReply(copy) ==
    CASE copy.status = "CLOSED"           -> [status |-> "OPEN", unread |-> TRUE]
      [] copy.status = "WAITING_FOR_USER" -> [status |-> "WAITING_FOR_SUPPORT", unread |-> TRUE]
      [] OTHER                            -> [copy EXCEPT !.unread = TRUE]

AfterSupportReply(copy) ==
    [status |-> IF copy.status \in {"OPEN", "WAITING_FOR_SUPPORT"}
                THEN "WAITING_FOR_USER" ELSE copy.status,
     unread |-> FALSE]

\* The end of userReply.
SaveUserReply(r) ==
    /\ At(r, "save") /\ request[r].by = "user"
    /\ LET n == request[r].number IN
       tickets' = [tickets EXCEPT ![n] =
                     Stored(n, request[r].copy, AfterUserReply(request[r].copy))]
    /\ Proceed(r, request[r])
    /\ UNCHANGED <<counter, keys, threads, mail, stops, asked, unmarked, overlapped>>

\* The end of supportReply, which answers all that was written before.
SaveSupportReply(r) ==
    /\ At(r, "save") /\ request[r].by = "support"
    /\ LET n == request[r].number IN
       /\ tickets' = [tickets EXCEPT ![n] =
                        Stored(n, request[r].copy, AfterSupportReply(request[r].copy))]
       /\ asked' = [asked EXCEPT ![n] = FALSE]
       /\ unmarked' = unmarked \ {n}
       /\ request' = [q \in Requests |->
                        IF q = r THEN Advanced(r, request[r])
                        ELSE [request[q] EXCEPT !.met = @ \/ request[q].number = n]]
    /\ UNCHANGED <<counter, keys, threads, mail, stops, overlapped>>

\* The save of changeStatus; a resolved ticket goes on to send the notice.
SaveStatus(r) ==
    /\ At(r, "status")
    /\ LET n == request[r].number IN
       tickets' = [tickets EXCEPT ![n] =
                     Stored(n, request[r].copy,
                            [request[r].copy EXCEPT !.status = request[r].want])]
    /\ Proceed(r, request[r])
    /\ UNCHANGED <<counter, keys, threads, mail, stops, asked, unmarked, overlapped>>

\* The supportReply inside changeStatus loads the ticket again; on a ticket that
\* was closed meanwhile the notice fails and the failure is logged.
LoadForNotice(r) ==
    /\ At(r, "load")
    /\ IF tickets[request[r].number].status = "CLOSED"
       THEN request' = [request EXCEPT ![r] = Idle]
       ELSE Proceed(r, [request[r] EXCEPT !.copy = tickets[request[r].number]])
    /\ UNCHANGED <<counter, keys, tickets, threads, mail, stops, asked, unmarked, overlapped>>

\* What userReply has still to write once its message is created.
Posted == {<<"sender", "receiver", "save">>, <<"receiver", "save">>, <<"save">>}

\* A reply of the user whose message is created will mark ticket n.
Marks(r, n) == /\ request[r].number = n /\ request[r].by = "user"
               /\ request[r].todo \in Posted
               /\ ~request[r].copy.unread

\* A write fails, or the process ends: the rest of the request is not done.
Stop(r) ==
    /\ request[r].op # "none" /\ stops < MaxStops
    /\ stops' = stops + 1
    /\ request' = [request EXCEPT ![r] = Idle]
    /\ unmarked' = unmarked \cup {n \in Numbers : asked[n] /\ Marks(r, n)}
    /\ UNCHANGED <<counter, keys, tickets, threads, mail, asked, overlapped>>

Start(r) ==
    \/ \E k \in Keys \cup {NoKey} : Submit(r, k)
    \/ \E n \in Numbers, by \in Parties : Reply(r, n, by)
    \/ \E n \in Numbers, s \in Wanted : ChangeStatus(r, n, s)
    \/ \E n \in Numbers, by \in Parties, all \in BOOLEAN :
         \E k \in DOMAIN mail[n] : MailReply(r, n, k, by, all)

Write(r) ==
    \/ Post(r) \/ Acknowledge(r) \/ FileSender(r) \/ FileReceiver(r) \/ FileAll(r)
    \/ SaveThread(r) \/ CreateTicket(r) \/ SaveUserReply(r) \/ SaveSupportReply(r)
    \/ SaveStatus(r) \/ LoadForNotice(r)

Next == \E r \in Requests : Start(r) \/ Write(r) \/ Stop(r)

Spec == Init /\ [][Next]_vars

-----------------------------------------------------------------------------
(* A ticket in the dashboard can be read and answered: whatever stopped     *)
(* half way, the message that opened it is in the mailbox of the reporter   *)
(* and in the one of support.                                               *)
TicketHasConversation ==
    \A n \in Numbers : tickets[n] # NoTicket =>
        /\ mail[n] # <<>>
        /\ mail[n][1].from = "user"
        /\ mail[n][1].boxes = Parties

(* A key opens one ticket, however often the request is sent again, unless   *)
(* two requests with the key ran at the same time: the key is looked up long *)
(* before the ticket is stored and its index is not unique.                  *)
OneTicketPerKey ==
    \A m, n \in Numbers :
        /\ tickets[m] # NoTicket /\ tickets[n] # NoTicket
        /\ keys[m] = keys[n] /\ keys[n] \in Keys \ overlapped
        => m = n

(* A message created on the ticket's page since support last saved a reply   *)
(* keeps the ticket marked unread, or its request is about to mark it: no    *)
(* status change and no other reply that had loaded the ticket earlier takes *)
(* the mark away or loses it.  Left out are messages whose request stopped   *)
(* before the mark, and those whose request had loaded the ticket with the   *)
(* mark that support's reply then cleared, before the message was created.   *)
UnreadUntilAnswered ==
    \A n \in Numbers : asked[n] /\ n \notin unmarked =>
        tickets[n].unread \/ \E r \in Requests : Marks(r, n)
=============================================================================
