------------------------ MODULE SupportTicketProofs ------------------------
(* The unread mark of a ticket, its conversation and the key that opens    *)
(* it, for any number of requests, keys, tickets, messages and stops.      *)
(*                                                                         *)
(* save() writes the mark only where it differs from the copy the request  *)
(* has loaded.  A reply of the user with a copy that is marked leaves the  *)
(* stored mark alone; what makes that enough is that a ticket which such a *)
(* request has loaded stays marked until support saves (CopiesAreMarked),  *)
(* which the request has then met when it creates its message.             *)
(* How far the first message of a ticket is follows from the place its     *)
(* request has reached in the list of writes (Talk, Creates).              *)
EXTENDS SupportTicket, SequenceTheorems, TLAPS

IsTicket(t) ==
    /\ DOMAIN t = {"status", "unread"}
    /\ t = [f \in {"status", "unread"} |-> t[f]]
    /\ t.unread \in BOOLEAN

Fields == {"op", "todo", "number", "by", "to", "message", "want", "copy", "version", "met"}

\* A request with something to do is about a ticket.
IsRequest(x) ==
    /\ DOMAIN x = Fields
    /\ x = [f \in Fields |-> x[f]]
    /\ IsTicket(x.copy)
    /\ x.met \in BOOLEAN
    /\ x.todo # <<>> => x.number \in Numbers

\* What a reply of the user has still to write, and a request that is over.
Listed(x) ==
    /\ x.op = "reply" /\ x.by = "user" => x.todo \in {UserReplySteps} \cup Posted
    /\ x.op = "none" => x.todo = <<>>

Types ==
    /\ tickets = [n \in Numbers |-> tickets[n]]
    /\ \A n \in Numbers : IsTicket(tickets[n])
    /\ asked \in [Numbers -> BOOLEAN]
    /\ request = [r \in Requests |-> request[r]]
    /\ \A r \in Requests : IsRequest(request[r]) /\ Listed(request[r])

\* What a user's reply has loaded with the mark keeps it until support saves.
CopiesAreMarked ==
    \A r \in Requests :
        /\ request[r].todo # <<>> /\ request[r].by = "user"
        /\ request[r].copy.unread /\ ~request[r].met
        => tickets[request[r].number].unread

Inv == Types /\ CopiesAreMarked /\ UnreadUntilAnswered

-----------------------------------------------------------------------------
(* The conversation of a ticket.                                           *)

\* What a request to create a ticket, and a ZMail reply, have still to write.
Create1 == CreateSteps
Create2 == <<"sender", "receiver", "ticket", "acknowledge", "receiver", "sender">>
Create3 == <<"receiver", "ticket", "acknowledge", "receiver", "sender">>
Create4 == <<"ticket", "acknowledge", "receiver", "sender">>
Create5 == <<"acknowledge", "receiver", "sender">>
Create6 == <<"receiver", "sender">>
Create7 == <<"sender">>
Mail1   == MailSteps
Mail2   == <<"post", "file">>
Mail3   == <<"file">>

\* What a reply has still to write.
Replies == {<<"post", "sender", "receiver", "save">>, <<"sender", "receiver", "save">>,
            <<"receiver", "save">>, <<"save">>, <<"sender", "save">>,
            <<"post", "receiver", "sender", "save">>, <<"receiver", "sender", "save">>}

Letters == [from : Parties, to : SUBSET Parties, boxes : SUBSET Parties]

Begun(n)        == mail[n] # <<>> /\ mail[n][1].from = "user"
Conversation(n) == Begun(n) /\ mail[n][1].boxes = Parties

\* How far the first message is when a request is at its place in the list.
Creates(x) ==
    \/ x.todo = Create1 /\ mail[x.number] = <<>> /\ x.by = "user" /\ x.to = {"support"}
    \/ /\ x.todo = Create2 /\ Begun(x.number) /\ x.message = 1
       /\ x.by = "user" /\ x.to = {"support"}
    \/ /\ x.todo = Create3 /\ Begun(x.number) /\ x.message = 1
       /\ "user" \in mail[x.number][1].boxes /\ x.to = {"support"}
    \/ x.todo \in {Create4, Create5, Create6, Create7} /\ Conversation(x.number)

Proper(x) ==
    /\ x.op \in {"none", "create", "reply", "status", "mail"}
    /\ x.by \in Parties /\ x.to \subseteq Parties
    /\ x.op = "none" => x.todo = <<>>
    /\ x.op # "none" => x.number \in Numbers /\ x.number <= counter
    /\ x.op = "create" => Creates(x)
    /\ x.op \in {"reply", "status"} => Conversation(x.number)
    /\ x.op = "mail" => mail[x.number] # <<>> /\ x.todo \in {Mail1, Mail2, Mail3}

Talk ==
    /\ counter \in Nat
    /\ mail \in [Numbers -> Seq(Letters)]
    /\ \A r \in Requests : Proper(request[r])
    /\ \A n \in Numbers : n > counter => mail[n] = <<>>
    /\ \A q, r \in Requests :
          request[q].op = "create" /\ request[r].op = "create"
          /\ request[q].number = request[r].number => q = r
    /\ TicketHasConversation

\* A ticket that is there has a status, and whoever replies to one or changes its
\* status has found it there.
Exists(n) == tickets[n].status \in Statuses
Present ==
    /\ \A n \in Numbers : Exists(n) <=> tickets[n] # NoTicket
    /\ \A r \in Requests : request[r].op \in {"reply", "status"} =>
          /\ Exists(request[r].number) /\ request[r].copy.status \in Statuses
          /\ request[r].op = "status" => request[r].want \in Statuses
          /\ request[r].op = "reply" => request[r].todo \in Replies

\* While no two requests with a key have run at once, one of them at most is there, and
\* no ticket has the key before that one creates it.
OneCreates ==
    /\ keys = [n \in Numbers |-> keys[n]]
    /\ \A k \in Keys \ overlapped :
        /\ \A q, r \in Requests : Creating(q, k) /\ Creating(r, k) => q = r
        /\ \A r \in Requests :
              Creating(r, k) /\ request[r].todo \in {Create1, Create2, Create3, Create4}
              => \A n \in Numbers : Exists(n) => keys[n] # k
        /\ \A m, n \in Numbers :
              Exists(m) /\ Exists(n) /\ keys[m] = k /\ keys[n] = k => m = n

-----------------------------------------------------------------------------
LEMMA IdleIsRequest == IsRequest(Idle) /\ Idle.todo = <<>> /\ Idle.copy.unread = FALSE
<1>1. IsTicket(NoTicket) /\ NoTicket.unread = FALSE
  BY DEF IsTicket, NoTicket
<1>2. DOMAIN Idle = Fields /\ Idle = [f \in Fields |-> Idle[f]]
  BY DEF Idle, Fields
<1>3. Idle.copy = NoTicket /\ Idle.todo = <<>> /\ Idle.met = FALSE
  BY DEF Idle, NoCopy
<1> QED BY <1>1, <1>2, <1>3 DEF IsRequest

LEMMA IdleIsListed == Listed(Idle)
BY DEF Listed, Idle

LEMMA InitInv == Init => Inv
<1> SUFFICES ASSUME Init PROVE Inv
  OBVIOUS
<1>1. IsTicket(NoTicket)
  BY DEF IsTicket, NoTicket
<1>2. Types
  BY <1>1, IdleIsRequest, IdleIsListed DEF Init, Types
<1>3. \A n \in Numbers : asked[n] = FALSE
  BY DEF Init
<1>4. CopiesAreMarked
  BY IdleIsRequest DEF Init, CopiesAreMarked
<1> QED BY <1>2, <1>3, <1>4 DEF Inv, UnreadUntilAnswered

\* What is left of a list of writes after the first of them.
LEMMA PostedLists ==
  /\ \A t \in Posted : t # <<>> /\ Head(t) \in {"sender", "receiver", "save"}
  /\ \A t \in Posted : Head(t) # "save" => Tail(t) \in Posted
  /\ Tail(<<"save">>) = <<>>
  /\ \A t \in Posted : Head(t) = "save" => t = <<"save">>
  /\ UserReplySteps # <<>> /\ Head(UserReplySteps) = "post" /\ Tail(UserReplySteps) \in Posted
BY DEF Posted, UserReplySteps

\* A request that has gone on, or is over, is about the same ticket as before.
LEMMA AdvancedRequest ==
  ASSUME NEW r \in Requests, NEW x, IsRequest(x), request[r].todo # <<>>, x.number \in Numbers
  PROVE  /\ IsRequest(Advanced(r, x))
         /\ Advanced(r, x).todo = Tail(request[r].todo)
         /\ Advanced(r, x).todo # <<>> => /\ Advanced(r, x).number = x.number
                                          /\ Advanced(r, x).op = x.op
                                          /\ Advanced(r, x).by = x.by
                                          /\ Advanced(r, x).copy = x.copy
                                          /\ Advanced(r, x).met = x.met
<1>1. CASE Tail(request[r].todo) = <<>>
  BY <1>1, IdleIsRequest DEF Advanced
<1>2. CASE Tail(request[r].todo) # <<>>
  <2> DEFINE y == [x EXCEPT !.todo = Tail(request[r].todo)]
  <2>1. DOMAIN y = Fields /\ y = [f \in Fields |-> y[f]]
    BY DEF IsRequest
  <2>2. /\ y.number = x.number /\ y.by = x.by /\ y.copy = x.copy /\ y.met = x.met
        /\ y.op = x.op /\ y.todo = Tail(request[r].todo)
    BY DEF IsRequest, Fields
  <2>3. IsRequest(y)
    BY <2>1, <2>2 DEF IsRequest
  <2> QED BY <1>2, <2>2, <2>3 DEF Advanced
<1> QED BY <1>1, <1>2

\* A reply of the user that has gone on has the rest of its list to write.
LEMMA AdvancedListed ==
  ASSUME NEW r \in Requests, NEW x, IsRequest(x), request[r].todo # <<>>, x.number \in Numbers,
         Listed(request[r]), x.op = request[r].op,
         x.by = request[r].by \/ x.by = "support"
  PROVE  Listed(Advanced(r, x))
<1> DEFINE y == Advanced(r, x)
<1>1. IsRequest(y) /\ y.todo = Tail(request[r].todo)
      /\ (y.todo # <<>> => y.op = x.op /\ y.by = x.by)
  BY AdvancedRequest
<1>2. CASE y.todo = <<>>
  <2>1. Tail(request[r].todo) = <<>>
    BY <1>1, <1>2
  <2>2. y = Idle
    BY <2>1 DEF Advanced
  <2> QED BY <2>2, IdleIsListed
<1>3. CASE y.todo # <<>>
  <2>1. y.op = "reply" /\ y.by = "user" => request[r].op = "reply" /\ request[r].by = "user"
    BY <1>1, <1>3
  <2>2. request[r].todo \in {UserReplySteps} \cup Posted => y.todo \in Posted
    BY <1>1, <1>3, PostedLists
  <2>3. y.op # "none"
    BY <1>1, <1>3 DEF Listed
  <2> QED BY <2>1, <2>2, <2>3 DEF Listed
<1> QED BY <1>2, <1>3

\* A step of one request that writes no ticket: a message it leaves unanswered has its
\* mark, is about to get it, or is one of those that get none.
LEMMA RequestChanges ==
  ASSUME Inv, NEW r \in Requests, NEW y, IsRequest(y), Listed(y),
         request' = [request EXCEPT ![r] = y], tickets' = tickets,
         asked' \in [Numbers -> BOOLEAN], unmarked \subseteq unmarked',
         \A n \in Numbers : asked'[n] /\ n \notin unmarked' =>
            \/ asked[n] /\ (Marks(r, n) => Marks(r, n)')
            \/ tickets[n].unread \/ Marks(r, n)',
         y.todo # <<>> /\ y.by = "user" /\ y.copy.unread /\ ~y.met => tickets[y.number].unread
  PROVE  Inv'
<1>1. /\ request' = [q \in Requests |-> request'[q]]
      /\ \A q \in Requests : request'[q] = IF q = r THEN y ELSE request[q]
  BY DEF Inv, Types
<1>2. Types'
  BY <1>1 DEF Inv, Types
<1>3. CopiesAreMarked'
  BY <1>1 DEF Inv, CopiesAreMarked
<1>4. UnreadUntilAnswered'
  <2> SUFFICES ASSUME NEW n \in Numbers, asked'[n], n \notin unmarked', ~tickets[n].unread
               PROVE  \E q \in Requests : Marks(q, n)'
    BY DEF UnreadUntilAnswered
  <2>1. CASE Marks(r, n)'
    BY <2>1
  <2>2. CASE asked[n] /\ (Marks(r, n) => Marks(r, n)')
    <3>1. PICK q \in Requests : Marks(q, n)
      BY <2>2 DEF Inv, UnreadUntilAnswered
    <3>2. q # r => request'[q] = request[q]
      BY <1>1
    <3>3. q # r => Marks(q, n)'
      BY <3>1, <3>2 DEF Marks
    <3> QED BY <2>2, <3>1, <3>3
  <2> QED BY <2>1, <2>2
<1> QED BY <1>2, <1>3, <1>4 DEF Inv

\* A step of one request that writes a ticket and does not clear its mark.
LEMMA TicketChanges ==
  ASSUME Inv, NEW r \in Requests, NEW y, IsRequest(y), Listed(y), NEW n \in Numbers,
         NEW t, IsTicket(t), NEW a \in BOOLEAN,
         request' = [request EXCEPT ![r] = y],
         tickets' = [tickets EXCEPT ![n] = t],
         asked' = [asked EXCEPT ![n] = a], unmarked' = unmarked,
         tickets[n].unread => t.unread,
         a => asked[n] \/ t.unread,
         \A m \in Numbers : Marks(r, m) => m = n /\ t.unread,
         y.todo # <<>> /\ y.by = "user" /\ y.copy.unread /\ ~y.met => tickets'[y.number].unread
  PROVE  Inv'
<1>1. /\ request' = [q \in Requests |-> request'[q]]
      /\ \A q \in Requests : request'[q] = IF q = r THEN y ELSE request[q]
  BY DEF Inv, Types
<1>2. /\ tickets' = [m \in Numbers |-> tickets'[m]]
      /\ \A m \in Numbers : tickets'[m] = IF m = n THEN t ELSE tickets[m]
  BY DEF Inv, Types
<1>3. asked' \in [Numbers -> BOOLEAN] /\ \A m \in Numbers : asked'[m] = IF m = n THEN a ELSE asked[m]
  BY DEF Inv, Types
<1>4. \A m \in Numbers : IsTicket(tickets'[m])
  BY <1>2 DEF Inv, Types
<1>5. \A q \in Requests : IsRequest(request'[q]) /\ Listed(request'[q])
  BY <1>1 DEF Inv, Types
<1>6. Types'
  BY <1>1, <1>2, <1>3, <1>4, <1>5 DEF Types, Listed
<1>7. \A m \in Numbers : tickets[m].unread => tickets'[m].unread
  BY <1>2
<1>8. CopiesAreMarked'
  <2> SUFFICES ASSUME NEW q \in Requests, request'[q].todo # <<>>, request'[q].by = "user",
                      request'[q].copy.unread, ~request'[q].met
               PROVE  tickets'[request'[q].number].unread
    BY DEF CopiesAreMarked
  <2>1. CASE q = r
    BY <1>1, <2>1
  <2>2. CASE q # r
    <3>1. request'[q] = request[q]
      BY <1>1, <2>2
    <3>2. request[q].number \in Numbers
      BY <3>1 DEF Inv, Types, IsRequest
    <3>3. tickets[request[q].number].unread
      BY <3>1 DEF Inv, CopiesAreMarked
    <3> QED BY <1>7, <3>1, <3>2, <3>3
  <2> QED BY <2>1, <2>2
<1>9. UnreadUntilAnswered'
  <2> SUFFICES ASSUME NEW m \in Numbers, asked'[m], m \notin unmarked', ~tickets'[m].unread
               PROVE  \E q \in Requests : Marks(q, m)'
    BY DEF UnreadUntilAnswered
  <2>1. asked[m] /\ ~tickets[m].unread
    BY <1>2, <1>3, <1>7
  <2>2. PICK q \in Requests : Marks(q, m)
    BY <2>1 DEF Inv, UnreadUntilAnswered
  <2>3. q # r
    BY <1>2, <2>2
  <2>4. request'[q] = request[q]
    BY <1>1, <2>3
  <2> QED BY <2>2, <2>4 DEF Marks
<1> QED BY <1>6, <1>8, <1>9 DEF Inv

\* A request goes on without touching its copy.
LEMMA GoesOn ==
  ASSUME Inv, NEW r \in Requests, request[r].todo # <<>>, Head(request[r].todo) # "save",
         NEW x, IsRequest(x), x.op = request[r].op,
         x.number = request[r].number, x.copy = request[r].copy, x.met = request[r].met,
         x.by = request[r].by \/ (x.by = "support" /\ Head(request[r].todo) = "acknowledge"),
         Proceed(r, x), tickets' = tickets,
         asked' \in [Numbers -> BOOLEAN], unmarked \subseteq unmarked',
         \A n \in Numbers : asked'[n] /\ n \notin unmarked' =>
            asked[n] \/ tickets[n].unread \/ Marks(r, n)'
  PROVE  Inv'
<1> DEFINE y == Advanced(r, x)
<1>1. x.number \in Numbers /\ Listed(request[r])
  BY DEF Inv, Types, IsRequest
<1>2. /\ IsRequest(y) /\ y.todo = Tail(request[r].todo)
      /\ y.todo # <<>> => /\ y.number = x.number /\ y.by = x.by
                          /\ y.copy = x.copy /\ y.met = x.met
  BY <1>1, AdvancedRequest
<1>3. Listed(y)
  BY <1>1, AdvancedListed
<1>4. y.todo # <<>> /\ y.by = "user" /\ y.copy.unread /\ ~y.met => tickets[y.number].unread
  BY <1>2 DEF Inv, CopiesAreMarked
<1> HIDE DEF y
<1>5. request' = [request EXCEPT ![r] = y]
  BY DEF Proceed, y
<1>6. request'[r] = y
  BY <1>5 DEF Inv, Types
<1>7. ASSUME NEW n \in Numbers, Marks(r, n)
      PROVE  Marks(r, n)'
  <2>1. Tail(request[r].todo) \in Posted /\ Tail(request[r].todo) # <<>>
    BY <1>7, PostedLists DEF Marks
  <2>2. Head(request[r].todo) # "acknowledge"
    BY <1>7, PostedLists DEF Marks
  <2> QED BY <1>2, <1>6, <1>7, <2>1, <2>2 DEF Marks
<1> QED BY <1>2, <1>3, <1>4, <1>5, <1>7, RequestChanges

\* What save() stores.
LEMMA StoredTicket ==
  ASSUME NEW n \in Numbers, IsTicket(tickets[n]), NEW copy, IsTicket(copy), NEW new, IsTicket(new)
  PROVE  /\ IsTicket(Stored(n, copy, new))
         /\ Stored(n, copy, new).unread =
              IF new.unread # copy.unread THEN new.unread ELSE tickets[n].unread
BY DEF Stored, IsTicket

LEMMA AfterUserReplyTicket ==
  ASSUME NEW copy, IsTicket(copy)
  PROVE  IsTicket(AfterUserReply(copy)) /\ AfterUserReply(copy).unread = TRUE
<1>1. IsTicket([copy EXCEPT !.unread = TRUE]) /\ [copy EXCEPT !.unread = TRUE].unread = TRUE
  BY DEF IsTicket
<1>2. \A s : /\ IsTicket([status |-> s, unread |-> TRUE])
             /\ [status |-> s, unread |-> TRUE].unread = TRUE
  BY DEF IsTicket
<1> QED BY <1>1, <1>2 DEF AfterUserReply

LEMMA AfterSupportReplyTicket ==
  ASSUME NEW copy
  PROVE  IsTicket(AfterSupportReply(copy))
BY DEF AfterSupportReply, IsTicket

-----------------------------------------------------------------------------
(* Starting a request.                                                     *)

LEMMA StartStep ==
  ASSUME Inv, counter \in Nat, NEW r \in Requests, Start(r)
  PROVE  Inv'
<1>0. ASSUME NEW y, IsRequest(y), Listed(y), Begin(r, y), tickets' = tickets, asked' = asked,
             unmarked' = unmarked,
             y.todo # <<>> /\ y.by = "user" /\ y.copy.unread /\ ~y.met => tickets[y.number].unread
      PROVE  Inv'
  <2>1. request[r].op = "none" /\ request' = [request EXCEPT ![r] = y]
    BY <1>0 DEF Begin
  <2>2. \A n \in Numbers : ~Marks(r, n)
    BY <2>1, PostedLists DEF Inv, Types, Listed, Marks
  <2>3. asked' \in [Numbers -> BOOLEAN] /\ unmarked \subseteq unmarked'
    BY <1>0 DEF Inv, Types
  <2> QED BY <1>0, <2>1, <2>2, <2>3, RequestChanges
<1>1. ASSUME NEW k \in Keys \cup {NoKey}, Submit(r, k)
      PROVE  Inv'
  <2> DEFINE y == [Idle EXCEPT !.op = "create", !.todo = CreateSteps,
                               !.number = counter + 1, !.to = {"support"}]
  <2>1. Begin(r, y) /\ tickets' = tickets /\ asked' = asked /\ unmarked' = unmarked
    BY <1>1 DEF Submit, Numbered
  <2>2. IsRequest(y) /\ y.copy.unread = FALSE /\ y.op = "create"
    <3>1. counter + 1 \in Numbers
      BY <1>1, BoundsAssumption DEF Submit, Numbered, Numbers
    <3> QED BY <3>1, IdleIsRequest DEF IsRequest, Fields
  <2> HIDE DEF y
  <2>3. Listed(y)
    BY <2>2 DEF Listed
  <2> QED BY <1>0, <2>1, <2>2, <2>3
<1>2. ASSUME NEW n \in Numbers, NEW by \in Parties, Reply(r, n, by)
      PROVE  Inv'
  <2> DEFINE y == [Idle EXCEPT
                     !.op = "reply", !.number = n, !.by = by, !.to = Parties \ {by},
                     !.todo = IF by = "user" THEN UserReplySteps ELSE SupportReplySteps,
                     !.copy = tickets[n]]
  <2>1. Begin(r, y) /\ tickets' = tickets /\ asked' = asked /\ unmarked' = unmarked
    BY <1>2 DEF Reply
  <2>2. IsTicket(tickets[n])
    BY DEF Inv, Types
  <2>3. /\ IsRequest(y) /\ y.copy = tickets[n] /\ y.number = n /\ y.op = "reply"
        /\ y.by = "user" => y.todo = UserReplySteps
    BY <2>2, IdleIsRequest DEF IsRequest, Fields
  <2> HIDE DEF y
  <2>4. Listed(y)
    BY <2>3 DEF Listed
  <2> QED BY <1>0, <2>1, <2>3, <2>4
<1>3. ASSUME NEW n \in Numbers, NEW status \in Wanted, ChangeStatus(r, n, status)
      PROVE  Inv'
  <2> DEFINE y == [Idle EXCEPT
                     !.op = "status", !.number = n, !.by = "support", !.to = {"user"},
                     !.todo = StatusSteps(status), !.want = status, !.copy = tickets[n]]
  <2>1. Begin(r, y) /\ tickets' = tickets /\ asked' = asked /\ unmarked' = unmarked
    BY <1>3 DEF ChangeStatus
  <2>2. IsTicket(tickets[n])
    BY DEF Inv, Types
  <2>3. IsRequest(y) /\ y.copy = tickets[n] /\ y.number = n /\ y.op = "status"
    BY <2>2, IdleIsRequest DEF IsRequest, Fields
  <2> HIDE DEF y
  <2>4. Listed(y)
    BY <2>3 DEF Listed
  <2> QED BY <1>0, <2>1, <2>3, <2>4
<1>4. ASSUME NEW n \in Numbers, NEW by \in Parties, NEW all \in BOOLEAN, NEW k \in DOMAIN mail[n],
             MailReply(r, n, k, by, all)
      PROVE  Inv'
  <2> DEFINE y == [Idle EXCEPT
                     !.op = "mail", !.number = n, !.by = by, !.todo = MailSteps,
                     !.to = {mail[n][k].from} \cup (IF all THEN mail[n][k].to \ {by} ELSE {}),
                     !.version = threads[n].version]
  <2>1. Begin(r, y) /\ tickets' = tickets /\ asked' = asked /\ unmarked' = unmarked
    BY <1>4 DEF MailReply
  <2>2. IsRequest(y) /\ y.copy.unread = FALSE /\ y.op = "mail"
    BY IdleIsRequest DEF IsRequest, Fields
  <2> HIDE DEF y
  <2>3. Listed(y)
    BY <2>2 DEF Listed
  <2> QED BY <1>0, <2>1, <2>2, <2>3
<1> QED BY <1>1, <1>2, <1>3, <1>4 DEF Start

-----------------------------------------------------------------------------
(* The writes.                                                             *)

LEMMA WriteTypes ==
  ASSUME Inv, NEW r \in Requests, request[r].todo # <<>>
  PROVE  /\ IsRequest(request[r]) /\ request[r].number \in Numbers
         /\ IsTicket(request[r].copy) /\ IsTicket(tickets[request[r].number])
         /\ Listed(request[r])
BY DEF Inv, Types, IsRequest

\* The message is created: a reply of the user is about to mark the ticket, or has
\* loaded it with the mark, which stands unless support saved a reply meanwhile.
LEMMA PostStep ==
  ASSUME Inv, NEW r \in Requests, Post(r)
  PROVE  Inv'
<1>0. request[r].todo # <<>> /\ Head(request[r].todo) = "post" /\ tickets' = tickets
  BY DEF Post, At
<1>1. IsRequest(request[r]) /\ Listed(request[r])
  BY <1>0, WriteTypes
<1>9. PICK n \in Numbers : n = request[r].number
  BY <1>0, WriteTypes
<1> DEFINE x == [request[r] EXCEPT !.message = Len(mail[n]) + 1]
           y == Advanced(r, x)
           onPage == request[r].op = "reply" /\ request[r].by = "user"
<1>2. /\ IsRequest(x) /\ x.number = n /\ x.copy = request[r].copy
      /\ x.met = request[r].met /\ x.by = request[r].by /\ x.op = request[r].op
  BY <1>1, <1>9 DEF IsRequest, Fields
<1>3. Proceed(r, x)
  BY <1>9 DEF Post
<1>4. /\ asked' = [asked EXCEPT ![n] = @ \/ onPage]
      /\ unmarked' = unmarked \cup
           (IF onPage /\ request[r].copy.unread /\ request[r].met THEN {n} ELSE {})
  BY <1>9 DEF Post
<1>5. onPage \in BOOLEAN /\ asked \in [Numbers -> BOOLEAN]
  BY DEF Inv, Types
<1> HIDE DEF x, y, onPage
<1>6. asked' \in [Numbers -> BOOLEAN] /\ unmarked \subseteq unmarked'
  BY <1>1, <1>4, <1>5
<1>7. ASSUME onPage, ~request[r].copy.unread
      PROVE  Marks(r, n)'
  <2>1. request[r].todo = UserReplySteps
    BY <1>0, <1>1, <1>7, PostedLists DEF Listed, onPage
  <2>2. Tail(request[r].todo) \in Posted /\ Tail(request[r].todo) # <<>>
    BY <2>1, PostedLists
  <2>5. /\ IsRequest(y) /\ y.todo = Tail(request[r].todo)
        /\ y.todo # <<>> => y.number = x.number /\ y.by = x.by /\ y.copy = x.copy
    BY <1>0, <1>2, AdvancedRequest DEF y
  <2>3. y.number = n /\ y.by = "user" /\ y.todo \in Posted /\ y.copy = request[r].copy
    BY <1>2, <1>7, <2>2, <2>5 DEF onPage
  <2>4. request'[r] = y
    BY <1>3 DEF Proceed, Inv, Types, y
  <2> QED BY <1>7, <2>3, <2>4 DEF Marks
<1>8. ASSUME NEW m \in Numbers, asked'[m], m \notin unmarked'
      PROVE  asked[m] \/ tickets[m].unread \/ Marks(r, m)'
  <2>1. CASE m # n \/ ~onPage
    BY <1>1, <1>4, <1>5, <1>8, <2>1
  <2>2. CASE m = n /\ onPage
    <3>1. request[r].copy.unread => ~request[r].met
      BY <1>4, <1>8, <2>2
    <3>2. request[r].copy.unread => tickets[n].unread
      BY <1>0, <1>9, <2>2, <3>1 DEF Inv, CopiesAreMarked, onPage
    <3> QED BY <1>7, <2>2, <3>2
  <2> QED BY <2>1, <2>2
<1> QED BY <1>0, <1>2, <1>3, <1>6, <1>8, <1>9, GoesOn

\* The rest of the conversation is written without a look at the ticket.
LEMMA MailStep ==
  ASSUME Inv, NEW r \in Requests,
         \/ Acknowledge(r) \/ FileSender(r) \/ FileReceiver(r) \/ FileAll(r) \/ SaveThread(r)
  PROVE  Inv'
<1>0. /\ request[r].todo # <<>> /\ tickets' = tickets /\ asked' = asked /\ unmarked' = unmarked
      /\ Head(request[r].todo) \in {"acknowledge", "sender", "receiver", "file", "thread"}
  BY DEF Acknowledge, FileSender, FileReceiver, FileAll, File, SaveThread, At
<1>1. IsRequest(request[r]) /\ asked' \in [Numbers -> BOOLEAN] /\ unmarked \subseteq unmarked'
  BY <1>0, WriteTypes DEF Inv, Types
<1>2. CASE Acknowledge(r)
  <2> DEFINE x == [request[r] EXCEPT !.by = "support", !.to = {"user"},
                                     !.message = Len(mail[request[r].number]) + 1]
  <2>1. /\ IsRequest(x) /\ x.number = request[r].number /\ x.copy = request[r].copy
        /\ x.met = request[r].met /\ x.by = "support" /\ x.op = request[r].op
    BY <1>1 DEF IsRequest, Fields
  <2>2. Proceed(r, x) /\ Head(request[r].todo) = "acknowledge"
    BY <1>2 DEF Acknowledge, At
  <2> HIDE DEF x
  <2> QED BY <1>0, <1>1, <2>1, <2>2, GoesOn
<1>3. CASE Proceed(r, request[r])
  BY <1>0, <1>1, <1>3, GoesOn
<1>4. CASE SaveThread(r) /\ request' = [request EXCEPT ![r] = Idle]
  <2>1. \A n \in Numbers : ~Marks(r, n)
    BY <1>4, PostedLists DEF SaveThread, At, Marks
  <2> QED BY <1>0, <1>1, <1>4, <2>1, IdleIsRequest, IdleIsListed, RequestChanges
<1> QED BY <1>2, <1>3, <1>4 DEF FileSender, FileReceiver, FileAll, File, SaveThread

\* The request that is not advanced by an action of another one, only told of it.
LEMMA MetRequest ==
  ASSUME NEW x, IsRequest(x), NEW b \in BOOLEAN, NEW y, y = [x EXCEPT !.met = @ \/ b]
  PROVE  /\ IsRequest(y) /\ y.todo = x.todo /\ y.number = x.number
         /\ y.by = x.by /\ y.copy = x.copy /\ y.met = (x.met \/ b) /\ y.op = x.op
BY DEF IsRequest, Fields

\* The writes of a ticket that do not clear its mark.
LEMMA TicketStep ==
  ASSUME Inv, NEW r \in Requests, CreateTicket(r) \/ SaveUserReply(r) \/ SaveStatus(r)
  PROVE  Inv'
<1> DEFINE n == request[r].number
           copy == request[r].copy
           y == Advanced(r, request[r])
<1>0. request[r].todo # <<>> /\ unmarked' = unmarked
  BY DEF CreateTicket, SaveUserReply, SaveStatus, At
<1>1. /\ IsRequest(request[r]) /\ n \in Numbers /\ IsTicket(copy) /\ IsTicket(tickets[n])
      /\ Listed(request[r])
  BY <1>0, WriteTypes
<1>2. IsRequest(y) /\ (y.todo # <<>> => /\ y.number = n /\ y.by = request[r].by
                                       /\ y.copy = copy /\ y.met = request[r].met)
  BY <1>0, <1>1, AdvancedRequest
<1>3. request' = [request EXCEPT ![r] = y]
  BY DEF CreateTicket, SaveUserReply, SaveStatus, Proceed
<1>4. Listed(y)
  BY <1>0, <1>1, AdvancedListed
<1>5. y.todo # <<>> /\ y.by = "user" /\ y.copy.unread /\ ~y.met => tickets[n].unread
  BY <1>0, <1>2 DEF Inv, CopiesAreMarked
<1>6. asked[n] \in BOOLEAN /\ asked \in [Numbers -> BOOLEAN]
  BY <1>1 DEF Inv, Types
<1>7. ASSUME NEW t, IsTicket(t), tickets' = [tickets EXCEPT ![n] = t],
             NEW a \in BOOLEAN, asked' = [asked EXCEPT ![n] = a],
             tickets[n].unread => t.unread,
             a => asked[n] \/ t.unread,
             \A m \in Numbers : Marks(r, m) => m = n /\ t.unread
      PROVE  Inv'
  <2> HIDE DEF n, copy, y
  <2>1. tickets'[n] = t
    BY <1>1, <1>7 DEF Inv, Types
  <2>2. y.todo # <<>> /\ y.by = "user" /\ y.copy.unread /\ ~y.met => tickets'[y.number].unread
    BY <1>2, <1>5, <1>7, <2>1
  <2> QED BY <1>0, <1>1, <1>2, <1>3, <1>4, <1>7, <2>2, TicketChanges
<1>8. CASE CreateTicket(r)
  <2> DEFINE t == [status |-> "OPEN", unread |-> TRUE]
  <2>1. IsTicket(t) /\ t.unread = TRUE
    BY DEF IsTicket
  <2>2. tickets' = [tickets EXCEPT ![n] = t] /\ asked' = [asked EXCEPT ![n] = TRUE]
    BY <1>8 DEF CreateTicket
  <2>3. \A m \in Numbers : ~Marks(r, m)
    BY <1>8, PostedLists DEF CreateTicket, At, Marks
  <2> HIDE DEF n, t
  <2> QED BY <1>7, <2>1, <2>2, <2>3
<1>9. CASE SaveUserReply(r)
  <2> DEFINE new == AfterUserReply(copy)
             t == Stored(n, copy, new)
  <2>1. IsTicket(new) /\ new.unread = TRUE
    BY <1>1, AfterUserReplyTicket
  <2>2. IsTicket(t) /\ t.unread = IF new.unread # copy.unread THEN new.unread ELSE tickets[n].unread
    BY <1>1, <2>1, StoredTicket
  <2>3. copy.unread \in BOOLEAN /\ tickets[n].unread \in BOOLEAN
    BY <1>1 DEF IsTicket
  <2>4. copy.unread = FALSE => t.unread = TRUE
    BY <2>1, <2>2
  <2>5. copy.unread = TRUE => t.unread = tickets[n].unread
    BY <2>1, <2>2
  <2>6. tickets[n].unread => t.unread
    BY <2>3, <2>4, <2>5
  <2>7. tickets' = [tickets EXCEPT ![n] = t] /\ asked' = [asked EXCEPT ![n] = asked[n]]
    BY <1>6, <1>9 DEF SaveUserReply
  <2>8. \A m \in Numbers : Marks(r, m) => m = n /\ copy.unread = FALSE
    BY <2>3 DEF Marks
  <2> HIDE DEF n, copy, new, t
  <2>9. \A m \in Numbers : Marks(r, m) => m = n /\ t.unread
    BY <2>4, <2>8
  <2> QED BY <1>6, <1>7, <2>2, <2>6, <2>7, <2>9
<1>10. CASE SaveStatus(r)
  <2> DEFINE new == [copy EXCEPT !.status = request[r].want]
             t == Stored(n, copy, new)
  <2>1. IsTicket(new) /\ new.unread = copy.unread
    BY <1>1 DEF IsTicket
  <2>2. IsTicket(t) /\ t.unread = IF new.unread # copy.unread THEN new.unread ELSE tickets[n].unread
    <3> HIDE DEF new, n, copy
    <3> QED BY <1>1, <2>1, StoredTicket
  <2>3. t.unread = tickets[n].unread
    BY <2>1, <2>2
  <2>4. tickets' = [tickets EXCEPT ![n] = t]
    BY <1>10 DEF SaveStatus
  <2>5. asked' = [asked EXCEPT ![n] = asked[n]]
    BY <1>6, <1>10 DEF SaveStatus
  <2>6. \A m \in Numbers : ~Marks(r, m)
    BY <1>10, PostedLists DEF SaveStatus, At, Marks
  <2> HIDE DEF n, t
  <2> QED BY <1>6, <1>7, <2>2, <2>3, <2>4, <2>5, <2>6
<1> QED BY <1>8, <1>9, <1>10

\* The one step that clears a mark: every reply loaded before it has been met.
LEMMA SupportReplyStep ==
  ASSUME Inv, NEW r \in Requests, SaveSupportReply(r)
  PROVE  Inv'
<1> DEFINE n == request[r].number
           copy == request[r].copy
           y == Advanced(r, request[r])
           t == Stored(n, copy, AfterSupportReply(copy))
<1>0. request[r].todo # <<>> /\ request[r].by = "support"
  BY DEF SaveSupportReply, At
<1>1. /\ IsRequest(request[r]) /\ n \in Numbers /\ IsTicket(copy) /\ IsTicket(tickets[n])
      /\ Listed(request[r])
  BY <1>0, WriteTypes
<1>2. IsRequest(y) /\ (y.todo # <<>> => y.by = "support") /\ Listed(y)
  BY <1>0, <1>1, AdvancedRequest, AdvancedListed
<1>3. IsTicket(t)
  BY <1>1, AfterSupportReplyTicket, StoredTicket
<1>4. /\ tickets' = [m \in Numbers |-> tickets'[m]]
      /\ \A m \in Numbers : tickets'[m] = IF m = n THEN t ELSE tickets[m]
  <2>1. tickets' = [tickets EXCEPT ![n] = t]
    BY DEF SaveSupportReply
  <2> HIDE DEF n, t
  <2> QED BY <1>1, <2>1 DEF Inv, Types
<1>5. /\ request' = [q \in Requests |-> request'[q]]
      /\ request'[r] = y
      /\ \A q \in Requests \ {r} : request'[q] = [request[q] EXCEPT !.met = @ \/ request[q].number = n]
  BY DEF SaveSupportReply
<1>6. \A q \in Requests \ {r} :
         /\ IsRequest(request'[q]) /\ request'[q].todo = request[q].todo
         /\ request'[q].number = request[q].number /\ request'[q].by = request[q].by
         /\ request'[q].copy = request[q].copy
         /\ request'[q].met = (request[q].met \/ request[q].number = n)
         /\ request'[q].op = request[q].op
  <2> TAKE q \in Requests \ {r}
  <2> DEFINE x == request[q]
             b == request[q].number = n
             z == request'[q]
  <2>1. IsRequest(x) /\ b \in BOOLEAN
    BY DEF Inv, Types
  <2>2. z = [x EXCEPT !.met = @ \/ b]
    BY <1>5
  <2>3. /\ IsRequest(z) /\ z.todo = x.todo /\ z.number = x.number
        /\ z.by = x.by /\ z.copy = x.copy /\ z.met = (x.met \/ b) /\ z.op = x.op
    <3> HIDE DEF x, b, z
    <3> QED BY <2>1, <2>2, MetRequest
  <2> QED BY <2>3
<1>7. asked' \in [Numbers -> BOOLEAN] /\ \A m \in Numbers : asked'[m] => m # n /\ asked[m]
  BY <1>1 DEF SaveSupportReply, Inv, Types
<1>11. unmarked' = unmarked \ {n}
  BY DEF SaveSupportReply
<1> HIDE DEF n, copy, y, t
<1>12. \A q \in Requests \ {r} : Listed(request'[q])
  BY <1>6 DEF Inv, Types, Listed
<1>8. Types'
  <2>1. \A m \in Numbers : IsTicket(tickets'[m])
    BY <1>3, <1>4 DEF Inv, Types
  <2>2. \A q \in Requests : IsRequest(request'[q]) /\ Listed(request'[q])
    BY <1>2, <1>5, <1>6, <1>12
  <2> QED BY <1>4, <1>5, <1>7, <2>1, <2>2 DEF Types, Listed
<1>9. CopiesAreMarked'
  <2> SUFFICES ASSUME NEW q \in Requests, request'[q].todo # <<>>, request'[q].by = "user",
                      request'[q].copy.unread, ~request'[q].met
               PROVE  tickets'[request'[q].number].unread
    BY DEF CopiesAreMarked
  <2>1. q # r
    BY <1>2, <1>5
  <2>2. request[q].number # n /\ tickets[request[q].number].unread
    BY <1>6, <2>1 DEF Inv, CopiesAreMarked
  <2>3. request[q].number \in Numbers
    BY <1>6, <2>1 DEF Inv, Types, IsRequest
  <2> QED BY <1>4, <1>6, <2>1, <2>2, <2>3
<1>10. UnreadUntilAnswered'
  <2> SUFFICES ASSUME NEW m \in Numbers, asked'[m], m \notin unmarked', ~tickets'[m].unread
               PROVE  \E q \in Requests : Marks(q, m)'
    BY DEF UnreadUntilAnswered
  <2>1. m # n /\ asked[m] /\ m \notin unmarked /\ ~tickets[m].unread
    BY <1>4, <1>7, <1>11
  <2>2. PICK q \in Requests : Marks(q, m)
    BY <2>1 DEF Inv, UnreadUntilAnswered
  <2>3. q # r
    BY <1>0, <2>2 DEF Marks
  <2> QED BY <1>6, <2>2, <2>3 DEF Marks
<1> QED BY <1>8, <1>9, <1>10 DEF Inv

LEMMA NoticeStep ==
  ASSUME Inv, NEW r \in Requests, LoadForNotice(r)
  PROVE  Inv'
<1> DEFINE x == [request[r] EXCEPT !.copy = tickets[request[r].number]]
           y == Advanced(r, x)
<1>0. /\ request[r].todo # <<>> /\ Head(request[r].todo) = "load"
      /\ tickets' = tickets /\ asked' = asked /\ unmarked' = unmarked
  BY DEF LoadForNotice, At
<1>3. asked' \in [Numbers -> BOOLEAN] /\ \A n \in Numbers : ~Marks(r, n)
  BY <1>0, PostedLists DEF Inv, Types, Marks
<1>1. CASE request' = [request EXCEPT ![r] = Idle]
  BY <1>0, <1>1, <1>3, IdleIsRequest, IdleIsListed, RequestChanges
<1>2. CASE Proceed(r, x)
  <2>1. /\ IsRequest(x) /\ x.number = request[r].number /\ x.number \in Numbers
        /\ x.copy = tickets[request[r].number] /\ x.op = request[r].op /\ x.by = request[r].by
    BY <1>0, WriteTypes DEF IsRequest, Fields
  <2>2. IsRequest(y) /\ (y.todo # <<>> => y.number = x.number /\ y.copy = x.copy)
    <3> HIDE DEF x
    <3> QED BY <1>0, <2>1, AdvancedRequest
  <2>3. request' = [request EXCEPT ![r] = y]
    BY <1>2 DEF Proceed
  <2>4. Listed(y)
    <3> HIDE DEF x
    <3> QED BY <1>0, <2>1, WriteTypes, AdvancedListed
  <2> HIDE DEF x, y
  <2> QED BY <1>0, <1>3, <2>1, <2>2, <2>3, <2>4, RequestChanges
<1> QED BY <1>1, <1>2 DEF LoadForNotice

-----------------------------------------------------------------------------
(* The theorem.                                                            *)

Counting == counter \in Nat

LEMMA CountingStep == Counting /\ [Next]_vars => Counting'
<1> SUFFICES ASSUME Counting, [Next]_vars
             PROVE  Counting'
  OBVIOUS
<1>1. ASSUME NEW r \in Requests, Start(r)
      PROVE  Counting'
  <2>1. ASSUME NEW k \in Keys \cup {NoKey}, Submit(r, k)
        PROVE  Counting'
    BY <2>1 DEF Submit, Numbered, Counting
  <2>2. ASSUME NEW n \in Numbers, NEW by \in Parties, Reply(r, n, by)
        PROVE  counter' = counter
    BY <2>2 DEF Reply
  <2>3. ASSUME NEW n \in Numbers, NEW s \in Wanted, ChangeStatus(r, n, s)
        PROVE  counter' = counter
    BY <2>3 DEF ChangeStatus
  <2>4. ASSUME NEW n \in Numbers, NEW by \in Parties, NEW all \in BOOLEAN, NEW k \in DOMAIN mail[n],
               MailReply(r, n, k, by, all)
        PROVE  counter' = counter
    BY <2>4 DEF MailReply
  <2> QED BY <1>1, <2>1, <2>2, <2>3, <2>4 DEF Start, Counting
<1>2. ASSUME NEW r \in Requests, Write(r)
      PROVE  counter' = counter
  BY <1>2 DEF Write, Post, Acknowledge, FileSender, FileReceiver, FileAll, File, SaveThread,
              CreateTicket, SaveUserReply, SaveSupportReply, SaveStatus, LoadForNotice
<1>3. ASSUME NEW r \in Requests, Stop(r)
      PROVE  counter' = counter
  BY <1>3 DEF Stop
<1>4. CASE UNCHANGED vars
  BY <1>4 DEF vars, Counting
<1> QED BY <1>1, <1>2, <1>3, <1>4 DEF Next, Counting

LEMMA InvStep == Inv /\ Counting /\ [Next]_vars => Inv'
<1> SUFFICES ASSUME Inv, Counting, [Next]_vars
             PROVE  Inv'
  OBVIOUS
<1>1. ASSUME NEW r \in Requests, Stop(r)
      PROVE  Inv'
  <2>1. /\ request' = [request EXCEPT ![r] = Idle] /\ tickets' = tickets /\ asked' = asked
        /\ unmarked' = unmarked \cup {n \in Numbers : asked[n] /\ Marks(r, n)}
    BY <1>1 DEF Stop
  <2>2. asked' \in [Numbers -> BOOLEAN] /\ unmarked \subseteq unmarked'
    BY <2>1 DEF Inv, Types
  <2>3. \A n \in Numbers : asked'[n] /\ n \notin unmarked' => asked[n] /\ ~Marks(r, n)
    BY <2>1
  <2> QED BY <2>1, <2>2, <2>3, IdleIsRequest, IdleIsListed, RequestChanges
<1>2. CASE UNCHANGED vars
  BY <1>2 DEF vars, Inv, Types, CopiesAreMarked, UnreadUntilAnswered, Marks
<1> QED BY <1>1, <1>2, StartStep, PostStep, MailStep, TicketStep, SupportReplyStep, NoticeStep
       DEF Next, Write, Counting

\* However many replies, changes of status, mails and failed writes overlap, a
\* message from the ticket's page keeps its ticket marked until support saves a reply,
\* or is about to mark it, except where its request stopped before the mark or had
\* loaded the ticket before support's last reply was saved.
THEOREM TicketUnreadUntilAnswered == Spec => []UnreadUntilAnswered
<1>1. Inv => UnreadUntilAnswered
  BY DEF Inv
<1>2. Init => Counting
  BY DEF Init, Counting
<1> QED BY <1>1, <1>2, InitInv, CountingStep, InvStep, PTL DEF Spec

-----------------------------------------------------------------------------
(* One step and the conversations.                                         *)

\* What a step of another request leaves of this one.
Kept(q) ==
    /\ request'[q].op = request[q].op         /\ request'[q].todo = request[q].todo
    /\ request'[q].number = request[q].number /\ request'[q].by = request[q].by
    /\ request'[q].to = request[q].to         /\ request'[q].message = request[q].message
    /\ request'[q].copy = request[q].copy     /\ request'[q].want = request[q].want

\* The first message stays, and is filed in as many mailboxes.
Grows(n) == mail[n] # <<>> =>
    /\ mail'[n] # <<>>
    /\ mail'[n][1].from = mail[n][1].from
    /\ mail[n][1].boxes \subseteq mail'[n][1].boxes

Local(r) ==
    /\ counter' \in Nat /\ counter <= counter'
    /\ mail' \in [Numbers -> Seq(Letters)]
    /\ \A n \in Numbers : Grows(n)
    /\ \A n \in Numbers : mail'[n] = mail[n] \/ (request[r].op # "none" /\ n = request[r].number)
    /\ \A q \in Requests \ {r} : Kept(q)

LEMMA FirstLetter ==
  ASSUME NEW s \in Seq(Letters), s # <<>>
  PROVE  1 \in DOMAIN s /\ s[1] \in Letters
<1>1. Len(s) \in Nat \ {0} /\ DOMAIN s = 1 .. Len(s)
  BY EmptySeq, LenProperties
<1> QED BY <1>1, ElementOfSeq

LEMMA ConversationStays ==
  ASSUME Talk, NEW n \in Numbers, Grows(n), mail' \in [Numbers -> Seq(Letters)]
  PROVE  /\ Begun(n) => Begun(n)'
         /\ Conversation(n) => Conversation(n)'
<1>1. ASSUME Begun(n)
      PROVE  Begun(n)' /\ (mail[n][1].boxes = Parties => mail'[n][1].boxes = Parties)
  <2>1. mail'[n] # <<>> /\ mail'[n][1].from = mail[n][1].from
        /\ mail[n][1].boxes \subseteq mail'[n][1].boxes
    BY <1>1 DEF Begun, Grows
  <2>2. mail'[n] \in Seq(Letters)
    OBVIOUS
  <2>3. mail'[n][1] \in Letters
    BY <2>1, <2>2, FirstLetter
  <2> QED BY <1>1, <2>1, <2>3 DEF Begun, Letters
<1> QED BY <1>1 DEF Conversation

LEMMA OthersProper ==
  ASSUME Talk, NEW r \in Requests, Local(r), NEW q \in Requests \ {r}
  PROVE  Proper(request[q])'
<1>1. Proper(request[q]) /\ Kept(q) /\ Proper(request[r])
  BY DEF Talk, Local
<1>2. CASE request[q].op = "none"
  BY <1>1, <1>2 DEF Proper, Kept
<1>3. CASE request[q].op # "none"
  <2>0. PICK n \in Numbers : n = request[q].number
    BY <1>1, <1>3 DEF Proper
  <2>1. n \in Numbers /\ n <= counter /\ counter \in Nat /\ n \in Nat
    BY <1>1, <1>3, <2>0 DEF Proper, Talk, Numbers
  <2>2. n <= counter'
    BY <2>1 DEF Local
  <2>3. Grows(n) /\ mail' \in [Numbers -> Seq(Letters)]
    BY <2>1 DEF Local
  <2>4. (Begun(n) => Begun(n)') /\ (Conversation(n) => Conversation(n)')
    BY <2>1, <2>3, ConversationStays
  <2>5. mail[n] # <<>> => mail'[n] # <<>>
    BY <2>3 DEF Grows
  <2>6. request[q].op = "create" => Creates(request[q])'
    <3> SUFFICES ASSUME request[q].op = "create" PROVE Creates(request[q])'
      OBVIOUS
    <3>0. Creates(request[q])
      BY <1>1 DEF Proper
    <3>1. CASE request[q].todo = Create1 /\ mail[n] = <<>> /\ request[q].by = "user"
               /\ request[q].to = {"support"}
      <4>1. ~(request[r].op # "none" /\ n = request[r].number)
        <5> SUFFICES ASSUME request[r].op # "none", n = request[r].number PROVE FALSE
          OBVIOUS
        <5>1. CASE request[r].op = "create"
          BY <2>0, <5>1 DEF Talk
        <5>2. CASE request[r].op # "create"
          BY <2>0, <1>1, <3>1, <5>2 DEF Proper, Conversation, Begun
        <5> QED BY <5>1, <5>2
      <4>2. mail'[n] = <<>>
        BY <2>0, <2>1, <3>1, <4>1 DEF Local
      <4> QED BY <2>0, <1>1, <3>1, <4>2 DEF Creates, Kept
    <3>2. CASE /\ request[q].todo = Create2 /\ Begun(n) /\ request[q].message = 1
               /\ request[q].by = "user" /\ request[q].to = {"support"}
      BY <2>0, <1>1, <2>4, <3>2 DEF Creates, Kept
    <3>3. CASE /\ request[q].todo = Create3 /\ Begun(n) /\ request[q].message = 1
               /\ "user" \in mail[n][1].boxes /\ request[q].to = {"support"}
      <4>1. "user" \in mail'[n][1].boxes
        BY <2>3, <3>3 DEF Grows, Begun
      <4> QED BY <2>0, <1>1, <2>4, <3>3, <4>1 DEF Creates, Kept
    <3>4. CASE request[q].todo \in {Create4, Create5, Create6, Create7} /\ Conversation(n)
      BY <2>0, <1>1, <2>4, <3>4 DEF Creates, Kept
    <3> QED BY <2>0, <3>0, <3>1, <3>2, <3>3, <3>4 DEF Creates
  <2> QED BY <1>1, <1>3, <2>0, <2>1, <2>2, <2>4, <2>5, <2>6 DEF Proper, Kept
<1> QED BY <1>2, <1>3

\* A step that keeps its own request in order keeps them all.
LEMMA TalkStep ==
  ASSUME Talk, NEW r \in Requests, Local(r), Proper(request[r])',
         request'[r].op = "create" =>
            \/ request[r].op = "create" /\ request'[r].number = request[r].number
            \/ request'[r].number > counter,
         \A n \in Numbers : tickets'[n] # NoTicket => tickets[n] # NoTicket \/ Conversation(n)'
  PROVE  Talk'
<1>1. \A q \in Requests : Proper(request[q])'
  <2> SUFFICES ASSUME NEW q \in Requests PROVE Proper(request[q])'
    OBVIOUS
  <2>1. CASE q = r
    BY <2>1
  <2>2. CASE q # r
    BY <2>2, OthersProper
  <2> QED BY <2>1, <2>2
<1>2. \A n \in Numbers : n > counter' => mail'[n] = <<>>
  <2> SUFFICES ASSUME NEW n \in Numbers, n > counter' PROVE mail'[n] = <<>>
    OBVIOUS
  <2>1. n > counter /\ n \in Nat
    BY DEF Local, Talk, Numbers
  <2>2. ~(request[r].op # "none" /\ n = request[r].number)
    BY <2>1 DEF Talk, Proper
  <2> QED BY <2>1, <2>2 DEF Local, Talk
<1>3. ASSUME NEW p \in Requests, NEW q \in Requests, request'[p].op = "create",
             request'[q].op = "create", request'[p].number = request'[q].number
      PROVE  p = q
  <2>1. \A s \in Requests \ {r} : request'[s].op = "create" =>
           /\ request[s].op = "create" /\ request'[s].number = request[s].number
           /\ request[s].number \in Nat /\ request[s].number <= counter
    BY DEF Local, Kept, Talk, Proper, Numbers
  <2>2. \A s, t \in Requests :
          request[s].op = "create" /\ request[t].op = "create"
          /\ request[s].number = request[t].number => s = t
    BY DEF Talk
  <2>3. counter \in Nat
    BY DEF Talk
  <2>4. request'[r].op = "create" => request'[r].number \in Nat
    BY DEF Proper, Numbers
  <2>5. ASSUME p = r, q # r PROVE FALSE
    BY <1>3, <2>1, <2>2, <2>3, <2>4, <2>5
  <2>6. ASSUME q = r, p # r PROVE FALSE
    BY <1>3, <2>1, <2>2, <2>3, <2>4, <2>6
  <2>7. ASSUME p # r, q # r PROVE p = q
    BY <1>3, <2>1, <2>2, <2>7
  <2> QED BY <2>5, <2>6, <2>7
<1>4. TicketHasConversation'
  <2> SUFFICES ASSUME NEW n \in Numbers, tickets'[n] # NoTicket PROVE Conversation(n)'
    BY DEF TicketHasConversation, Conversation, Begun
  <2>1. CASE Conversation(n)'
    BY <2>1
  <2>2. CASE tickets[n] # NoTicket
    <3>1. Conversation(n)
      BY <2>2 DEF Talk, TicketHasConversation, Conversation, Begun
    <3>2. Grows(n) /\ mail' \in [Numbers -> Seq(Letters)]
      BY DEF Local
    <3> QED BY <3>1, <3>2, ConversationStays
  <2> QED BY <2>1, <2>2
<1> QED BY <1>1, <1>2, <1>3, <1>4 DEF Talk, Local

\* The lists of writes, from the first to the last.
LEMMA Lists ==
  /\ Tail(Create1) = Create2 /\ Tail(Create2) = Create3 /\ Tail(Create3) = Create4
  /\ Tail(Create4) = Create5 /\ Tail(Create5) = Create6 /\ Tail(Create6) = Create7
  /\ Tail(Create7) = <<>>
  /\ Tail(Mail1) = Mail2 /\ Tail(Mail2) = Mail3 /\ Tail(Mail3) = <<>>
  /\ Head(Create1) = "post" /\ Head(Create2) = "sender" /\ Head(Create3) = "receiver"
  /\ Head(Create4) = "ticket" /\ Head(Create5) = "acknowledge" /\ Head(Create6) = "receiver"
  /\ Head(Create7) = "sender"
  /\ Head(Mail1) = "thread" /\ Head(Mail2) = "post" /\ Head(Mail3) = "file"
  /\ <<>> \notin {Create1, Create2, Create3, Create4, Create5, Create6, Create7}
  /\ Create1 # Create4 /\ Create2 # Create4 /\ Create3 # Create4
  /\ Create1 # Create5 /\ Create1 # Create6 /\ Create1 # Create7
  /\ Create2 # Create5 /\ Create2 # Create6 /\ Create2 # Create7
  /\ Create3 # Create5 /\ Create3 # Create6 /\ Create3 # Create7
  /\ Create4 # Create5 /\ Create4 # Create6 /\ Create4 # Create7
<1>1. /\ Tail(Create1) = Create2 /\ Tail(Create2) = Create3 /\ Tail(Create3) = Create4
      /\ Tail(Create4) = Create5 /\ Tail(Create5) = Create6 /\ Tail(Create6) = Create7
      /\ Tail(Create7) = <<>>
  BY DEF Create1, CreateSteps, Create2, Create3, Create4, Create5, Create6, Create7
<1>2. Tail(Mail1) = Mail2 /\ Tail(Mail2) = Mail3 /\ Tail(Mail3) = <<>>
  BY DEF Mail1, MailSteps, Mail2, Mail3
<1>3. /\ Head(Create1) = "post" /\ Head(Create2) = "sender" /\ Head(Create3) = "receiver"
      /\ Head(Create4) = "ticket" /\ Head(Create5) = "acknowledge" /\ Head(Create6) = "receiver"
      /\ Head(Create7) = "sender"
  BY DEF Create1, CreateSteps, Create2, Create3, Create4, Create5, Create6, Create7
<1>4. Head(Mail1) = "thread" /\ Head(Mail2) = "post" /\ Head(Mail3) = "file"
  BY DEF Mail1, MailSteps, Mail2, Mail3
<1>5. <<>> \notin {Create1, Create2, Create3, Create4, Create5, Create6, Create7}
  BY DEF Create1, CreateSteps, Create2, Create3, Create4, Create5, Create6, Create7
<1>6. /\ Create4 # Create5 /\ Create4 # Create6 /\ Create4 # Create7
      /\ Create1 # Create4 /\ Create2 # Create4 /\ Create3 # Create4
  BY <1>3
<1>7. Create1 # Create5 /\ Create1 # Create6 /\ Create1 # Create7
  BY <1>3
<1>8. Create3 # Create5 /\ Create3 # Create7 /\ Create2 # Create5 /\ Create2 # Create6
  BY <1>3
<1>9. Create3 # Create6 /\ Create2 # Create7
  BY <1>1, <1>3, <1>5
<1> QED BY <1>1, <1>2, <1>3, <1>4, <1>5, <1>6, <1>7, <1>8, <1>9

LEMMA ReplyLists ==
  ASSUME NEW s \in Replies
  PROVE  Head(s) # "status" /\ (Tail(s) # <<>> => Tail(s) \in Replies)
<1>1. CASE s = <<"post", "sender", "receiver", "save">>
  <2>1. Head(s) = "post" /\ Tail(s) = <<"sender", "receiver", "save">>
    BY <1>1
  <2> QED BY <2>1 DEF Replies
<1>2. CASE s = <<"sender", "receiver", "save">>
  <2>1. Head(s) = "sender" /\ Tail(s) = <<"receiver", "save">>
    BY <1>2
  <2> QED BY <2>1 DEF Replies
<1>3. CASE s = <<"receiver", "save">>
  <2>1. Head(s) = "receiver" /\ Tail(s) = <<"save">>
    BY <1>3
  <2> QED BY <2>1 DEF Replies
<1>4. CASE s = <<"save">>
  BY <1>4
<1>5. CASE s = <<"post", "receiver", "sender", "save">>
  <2>1. Head(s) = "post" /\ Tail(s) = <<"receiver", "sender", "save">>
    BY <1>5
  <2> QED BY <2>1 DEF Replies
<1>6. CASE s = <<"receiver", "sender", "save">>
  <2>1. Head(s) = "receiver" /\ Tail(s) = <<"sender", "save">>
    BY <1>6
  <2> QED BY <2>1 DEF Replies
<1>7. CASE s = <<"sender", "save">>
  <2>1. Head(s) = "sender" /\ Tail(s) = <<"save">>
    BY <1>7
  <2> QED BY <2>1 DEF Replies
<1> QED BY <1>1, <1>2, <1>3, <1>4, <1>5, <1>6, <1>7 DEF Replies

LEMMA IdleProper == Proper(Idle)
BY DEF Proper, Idle, Parties

\* A request that goes on keeps what it is about.
LEMMA AdvancedFields ==
  ASSUME NEW r \in Requests, NEW x, IsRequest(x)
  PROVE  \/ Advanced(r, x) = Idle /\ Tail(request[r].todo) = <<>>
         \/ /\ Tail(request[r].todo) # <<>>
            /\ Advanced(r, x).todo = Tail(request[r].todo)
            /\ Advanced(r, x).op = x.op /\ Advanced(r, x).number = x.number
            /\ Advanced(r, x).by = x.by /\ Advanced(r, x).to = x.to
            /\ Advanced(r, x).message = x.message /\ Advanced(r, x).copy = x.copy
            /\ Advanced(r, x).want = x.want
BY DEF Advanced, IsRequest, Fields

\* What a request has reached by its step; mail is the mail after it.
Reaches(r, x, n) ==
    /\ request[r].op = "create" =>
          \/ /\ request[r].todo = Create1 /\ Begun(n)' /\ x.message = 1
             /\ x.by = "user" /\ x.to = {"support"}
          \/ /\ request[r].todo = Create2 /\ Begun(n)' /\ x.message = 1
             /\ "user" \in mail'[n][1].boxes /\ x.to = {"support"}
          \/ request[r].todo \in {Create3, Create4, Create5, Create6, Create7} /\ Conversation(n)'
    /\ request[r].op \in {"reply", "status"} => Conversation(n)'
    /\ request[r].op = "mail" => mail'[n] # <<>>

LEMMA ProceedProper ==
  ASSUME Inv, Talk, NEW r \in Requests, request[r].todo # <<>>, NEW x, IsRequest(x),
         NEW n \in Numbers, n = request[r].number, x.number = n,
         x.op = request[r].op, x.by \in Parties, x.to \subseteq Parties,
         request'[r] = Advanced(r, x), counter' = counter, Reaches(r, x, n)
  PROVE  /\ Proper(request[r])'
         /\ request'[r].op = "create" => request[r].op = "create" /\ request'[r].number = n
<1> DEFINE y == request'[r]
<1>0. Proper(request[r])
  BY DEF Talk
<1>1. CASE y = Idle
  <2>1. Idle.op = "none"
    BY DEF Idle
  <2> QED BY <1>1, <2>1, IdleProper DEF Proper, Idle, Parties
<1>2. CASE y # Idle
  <2>1. /\ Tail(request[r].todo) # <<>> /\ y.todo = Tail(request[r].todo)
        /\ y.op = x.op /\ y.number = n /\ y.by = x.by /\ y.to = x.to /\ y.message = x.message
    BY <1>2, AdvancedFields
  <2>2. request[r].op # "none" /\ n <= counter
    BY <1>0 DEF Proper
  <2>3. request[r].op = "create" => Creates(request[r])'
    <3> SUFFICES ASSUME request[r].op = "create" PROVE Creates(request[r])'
      OBVIOUS
    <3>1. CASE /\ request[r].todo = Create1 /\ Begun(n)' /\ x.message = 1
               /\ x.by = "user" /\ x.to = {"support"}
      BY <2>1, <3>1, Lists DEF Creates
    <3>2. CASE /\ request[r].todo = Create2 /\ Begun(n)' /\ x.message = 1
               /\ "user" \in mail'[n][1].boxes /\ x.to = {"support"}
      BY <2>1, <3>2, Lists DEF Creates
    <3>3. CASE request[r].todo \in {Create3, Create4, Create5, Create6, Create7} /\ Conversation(n)'
      BY <2>1, <3>3, Lists DEF Creates
    <3> QED BY <3>1, <3>2, <3>3 DEF Reaches
  <2>4. request[r].op = "mail" => mail'[n] # <<>> /\ y.todo \in {Mail1, Mail2, Mail3}
    BY <1>0, <2>1, Lists DEF Proper, Reaches
  <2> QED BY <1>0, <2>1, <2>2, <2>3, <2>4 DEF Proper, Reaches
<1> QED BY <1>1, <1>2, IdleProper DEF Idle

LEMMA OneRequest ==
  ASSUME Inv, NEW r \in Requests, NEW y, request' = [request EXCEPT ![r] = y]
  PROVE  request'[r] = y /\ \A q \in Requests \ {r} : Kept(q)
<1>1. request = [q \in Requests |-> request[q]]
  BY DEF Inv, Types
<1> QED BY <1>1 DEF Kept

\* Where the first message is complete, or none of the request's business.
LEMMA LaterReaches ==
  ASSUME Talk, NEW r \in Requests, NEW n \in Numbers, n = request[r].number, NEW x,
         Grows(n), mail' \in [Numbers -> Seq(Letters)],
         request[r].op = "create" => request[r].todo \notin {Create1, Create2, Create3}
  PROVE  Reaches(r, x, n)
<1>1. Proper(request[r])
  BY DEF Talk
<1>2. Conversation(n) => Conversation(n)'
  BY ConversationStays
<1>3. request[r].op = "create" =>
         request[r].todo \in {Create4, Create5, Create6, Create7} /\ Conversation(n)
  BY <1>1 DEF Proper, Creates
<1> QED BY <1>1, <1>2, <1>3 DEF Reaches, Proper, Grows

LEMMA MailStill ==
  ASSUME Talk, mail' = mail
  PROVE  mail' \in [Numbers -> Seq(Letters)] /\ \A n \in Numbers : Grows(n) /\ mail'[n] = mail[n]
BY DEF Talk, Grows

LEMMA MailAppended ==
  ASSUME Talk, NEW n \in Numbers, NEW e \in Letters, mail' = [mail EXCEPT ![n] = Append(@, e)]
  PROVE  /\ mail' \in [Numbers -> Seq(Letters)]
         /\ \A m \in Numbers : Grows(m) /\ (m # n => mail'[m] = mail[m])
         /\ mail[n] = <<>> => mail'[n] # <<>> /\ mail'[n][1] = e /\ Len(mail[n]) = 0
         /\ mail'[n] # <<>>
<1>1. mail[n] \in Seq(Letters) /\ mail \in [Numbers -> Seq(Letters)]
  BY DEF Talk
<1>2. /\ Append(mail[n], e) \in Seq(Letters) /\ Append(mail[n], e) # <<>>
      /\ \A i \in 1 .. Len(mail[n]) : Append(mail[n], e)[i] = mail[n][i]
      /\ Append(mail[n], e)[Len(mail[n]) + 1] = e
  BY <1>1, AppendProperties
<1>3. mail'[n] = Append(mail[n], e) /\ \A m \in Numbers : m # n => mail'[m] = mail[m]
  BY <1>1
<1>4. mail' \in [Numbers -> Seq(Letters)]
  BY <1>1, <1>2
<1>5. mail[n] # <<>> => mail'[n][1] = mail[n][1]
  <2>1. mail[n] # <<>> => 1 \in 1 .. Len(mail[n])
    BY <1>1, EmptySeq
  <2> QED BY <1>2, <1>3, <2>1
<1>6. \A m \in Numbers : Grows(m)
  BY <1>2, <1>3, <1>5 DEF Grows
<1>7. mail[n] = <<>> => Len(mail[n]) = 0 /\ mail'[n][1] = e
  BY <1>2, <1>3, EmptySeq
<1> QED BY <1>2, <1>3, <1>4, <1>6, <1>7

LEMMA MailFiled ==
  ASSUME Talk, NEW n \in Numbers, NEW k, NEW owners \in SUBSET Parties,
         mail' = [mail EXCEPT ![n][k].boxes = @ \cup owners]
  PROVE  /\ mail' \in [Numbers -> Seq(Letters)]
         /\ \A m \in Numbers : Grows(m) /\ (m # n => mail'[m] = mail[m])
         /\ k = 1 /\ mail[n] # <<>> => mail'[n][1].boxes = mail[n][1].boxes \cup owners
<1> DEFINE s == mail[n]
           e == [s[k] EXCEPT !.boxes = @ \cup owners]
           t == [s EXCEPT ![k] = e]
<1>1. s \in Seq(Letters) /\ mail \in [Numbers -> Seq(Letters)]
  BY DEF Talk
<1>2. mail'[n] = t /\ \A m \in Numbers : m # n => mail'[m] = mail[m]
  BY <1>1
<1>3. DOMAIN s = 1 .. Len(s) /\ Len(s) \in Nat
  BY <1>1, LenProperties
<1>4. CASE k \in 1 .. Len(s)
  <2>1. s[k] \in Letters
    BY <1>1, <1>4, ElementOfSeq
  <2>2. e \in Letters /\ e.from = s[k].from /\ e.boxes = s[k].boxes \cup owners
    BY <2>1 DEF Letters
  <2> HIDE DEF e
  <2>3. t \in Seq(Letters) /\ Len(t) = Len(s) /\ \A j \in 1 .. Len(s) : t[j] = IF j = k THEN e ELSE s[j]
    <3> HIDE DEF s
    <3> QED BY <1>1, <1>4, <2>2, ExceptSeq
  <2>4. mail' \in [Numbers -> Seq(Letters)]
    <3>1. \A m \in Numbers : mail'[m] \in Seq(Letters)
      BY <1>1, <1>2, <2>3
    <3>2. mail' = [m \in Numbers |-> mail'[m]]
      BY <1>1
    <3> HIDE DEF s, t
    <3> QED BY <3>1, <3>2
  <2>5. s # <<>> => t # <<>> /\ 1 \in 1 .. Len(s)
    <3>1. s # <<>> => Len(s) # 0
      BY <1>1, EmptySeq
    <3>2. Len(<<>>) = 0
      BY EmptySeq
    <3> HIDE DEF s, t
    <3> QED BY <1>3, <2>3, <3>1, <3>2
  <2> HIDE DEF s, t
  <2>6. \A m \in Numbers : Grows(m)
    <3>1. s # <<>> => t[1].from = s[1].from /\ s[1].boxes \subseteq t[1].boxes
      BY <2>2, <2>3, <2>5
    <3>2. mail[n] = s
      BY DEF s
    <3> QED BY <1>2, <2>5, <3>1, <3>2 DEF Grows
  <2>7. k = 1 /\ s # <<>> => t[1].boxes = s[1].boxes \cup owners
    BY <2>2, <2>3, <2>5
  <2> QED BY <1>2, <2>4, <2>6, <2>7 DEF s
<1>5. CASE k \notin 1 .. Len(s)
  <2>1. t = s
    BY <1>1, <1>3, <1>5
  <2>2. mail'[n] = mail[n]
    BY <1>2, <2>1
  <2>3. mail' = mail
    BY <1>1, <1>2, <2>2
  <2>4. k = 1 => mail[n] = <<>>
    <3>1. s # <<>> => Len(s) # 0
      BY <1>1, EmptySeq
    <3> HIDE DEF s
    <3>2. k = 1 => s = <<>>
      BY <1>3, <1>5, <3>1
    <3> QED BY <3>2 DEF s
  <2> QED BY <2>3, <2>4, MailStill
<1> QED BY <1>4, <1>5

LEMMA GoesOnTalk ==
  ASSUME Inv, Talk, NEW r \in Requests, request[r].todo # <<>>, NEW x, IsRequest(x),
         NEW n \in Numbers, n = request[r].number, x.number = n,
         x.op = request[r].op, x.by \in Parties, x.to \subseteq Parties,
         request'[r] = Advanced(r, x), \A q \in Requests \ {r} : Kept(q),
         counter' = counter, mail' \in [Numbers -> Seq(Letters)],
         \A m \in Numbers : Grows(m) /\ (m # n => mail'[m] = mail[m]),
         Reaches(r, x, n),
         \A m \in Numbers : tickets'[m] # NoTicket => tickets[m] # NoTicket \/ Conversation(m)'
  PROVE  Talk'
<1>1. request[r].op # "none"
  BY DEF Talk, Proper
<1>2. Local(r)
  BY <1>1 DEF Local, Talk
<1>3. /\ Proper(request[r])'
      /\ request'[r].op = "create" => request[r].op = "create" /\ request'[r].number = n
  BY ProceedProper
<1> QED BY <1>2, <1>3, TalkStep

LEMMA WriteFacts ==
  ASSUME Inv, Talk, NEW r \in Requests, request[r].todo # <<>>
  PROVE  /\ IsRequest(request[r]) /\ request[r].number \in Numbers
         /\ request[r].by \in Parties /\ request[r].to \subseteq Parties
         /\ request[r].op # "none"
         /\ request[r].op = "create" => Creates(request[r])
BY WriteTypes DEF Talk, Proper

LEMMA PostTalk ==
  ASSUME Inv, Talk, NEW r \in Requests, Post(r)
  PROVE  Talk'
<1>0. request[r].todo # <<>> /\ Head(request[r].todo) = "post" /\ tickets' = tickets
  BY DEF Post, At
<1>1. PICK n \in Numbers : n = request[r].number
  BY <1>0, WriteFacts
<1> DEFINE x == [request[r] EXCEPT !.message = Len(mail[n]) + 1]
           e == [from |-> request[r].by, to |-> request[r].to, boxes |-> {}]
<1>2. IsRequest(x) /\ x.number = n /\ x.op = request[r].op /\ x.by = request[r].by
      /\ x.to = request[r].to /\ x.message = Len(mail[n]) + 1
  BY <1>0, <1>1, WriteFacts DEF IsRequest, Fields
<1>3. e \in Letters /\ e.from = request[r].by
  BY <1>0, WriteFacts DEF Letters
<1>4. mail' = [mail EXCEPT ![n] = Append(@, e)] /\ counter' = counter
  BY <1>1 DEF Post, Message
<1>5. request'[r] = Advanced(r, x) /\ \A q \in Requests \ {r} : Kept(q)
  <2>1. request' = [request EXCEPT ![r] = Advanced(r, x)]
    BY <1>1 DEF Post, Proceed
  <2> HIDE DEF x
  <2> QED BY <2>1, OneRequest
<1> HIDE DEF e
<1>6. /\ mail' \in [Numbers -> Seq(Letters)]
      /\ \A m \in Numbers : Grows(m) /\ (m # n => mail'[m] = mail[m])
      /\ mail[n] = <<>> => mail'[n] # <<>> /\ mail'[n][1] = e /\ Len(mail[n]) = 0
  BY <1>3, <1>4, MailAppended
<1>7. Reaches(r, x, n)
  <2>1. CASE request[r].op = "create"
    <3>1. request[r].todo = Create1
      BY <1>0, <2>1, WriteFacts, Lists DEF Creates
    <3>2. mail[n] = <<>> /\ request[r].by = "user" /\ request[r].to = {"support"}
      BY <1>0, <1>1, <2>1, <3>1, WriteFacts, Lists DEF Creates
    <3>3. Begun(n)' /\ x.message = 1
      BY <1>2, <1>3, <1>6, <3>2 DEF Begun
    <3> HIDE DEF x
    <3> QED BY <1>2, <2>1, <3>1, <3>2, <3>3 DEF Reaches
  <2>2. CASE request[r].op # "create"
    <3> HIDE DEF x
    <3> QED BY <1>1, <1>6, <2>2, LaterReaches
  <2> QED BY <2>1, <2>2
<1> HIDE DEF x
<1> QED BY <1>0, <1>1, <1>2, <1>4, <1>5, <1>6, <1>7, WriteFacts, GoesOnTalk

LEMMA AcknowledgeTalk ==
  ASSUME Inv, Talk, NEW r \in Requests, Acknowledge(r)
  PROVE  Talk'
<1>0. request[r].todo # <<>> /\ Head(request[r].todo) = "acknowledge" /\ tickets' = tickets
  BY DEF Acknowledge, At
<1>1. PICK n \in Numbers : n = request[r].number
  BY <1>0, WriteFacts
<1> DEFINE x == [request[r] EXCEPT !.by = "support", !.to = {"user"}, !.message = Len(mail[n]) + 1]
           e == [from |-> "support", to |-> {"user"}, boxes |-> {}]
<1>2. IsRequest(x) /\ x.number = n /\ x.op = request[r].op /\ x.by = "support" /\ x.to = {"user"}
  BY <1>0, <1>1, WriteFacts DEF IsRequest, Fields
<1>3. e \in Letters /\ x.by \in Parties /\ x.to \subseteq Parties
  BY <1>2 DEF Letters, Parties
<1>4. mail' = [mail EXCEPT ![n] = Append(@, e)] /\ counter' = counter
  BY <1>1 DEF Acknowledge
<1>5. request'[r] = Advanced(r, x) /\ \A q \in Requests \ {r} : Kept(q)
  <2>1. request' = [request EXCEPT ![r] = Advanced(r, x)]
    BY <1>1 DEF Acknowledge, Proceed
  <2> HIDE DEF x
  <2> QED BY <2>1, OneRequest
<1> HIDE DEF e, x
<1>6. /\ mail' \in [Numbers -> Seq(Letters)]
      /\ \A m \in Numbers : Grows(m) /\ (m # n => mail'[m] = mail[m])
  BY <1>3, <1>4, MailAppended
<1>7. request[r].todo \notin {Create1, Create2, Create3}
  BY <1>0, Lists
<1>8. Reaches(r, x, n)
  BY <1>1, <1>6, <1>7, LaterReaches
<1> QED BY <1>0, <1>1, <1>2, <1>3, <1>4, <1>5, <1>6, <1>8, WriteFacts, GoesOnTalk

LEMMA FileTalk ==
  ASSUME Inv, Talk, NEW r \in Requests, FileSender(r) \/ FileReceiver(r) \/ FileAll(r)
  PROVE  Talk'
<1>0. request[r].todo # <<>> /\ tickets' = tickets /\ counter' = counter
  BY DEF FileSender, FileReceiver, FileAll, File, At
<1>1. PICK n \in Numbers : n = request[r].number
  BY <1>0, WriteFacts
<1> DEFINE x == request[r]
<1>2. PICK owners \in SUBSET Parties :
        /\ mail' = [mail EXCEPT ![n][x.message].boxes = @ \cup owners]
        /\ x.todo = Create2 => x.by \in owners
        /\ x.todo = Create3 => x.to \subseteq owners
  <2>1. CASE FileSender(r)
    <3>1. {x.by} \in SUBSET Parties /\ x.by \in {x.by}
      BY <1>0, WriteFacts
    <3>2. x.todo # Create3
      BY <2>1, Lists DEF FileSender, File, At
    <3> QED BY <1>1, <2>1, <3>1, <3>2 DEF FileSender, File
  <2>2. CASE FileReceiver(r)
    <3>1. x.to \in SUBSET Parties
      BY <1>0, WriteFacts
    <3>2. x.todo # Create2
      BY <2>2, Lists DEF FileReceiver, File, At
    <3> QED BY <1>1, <2>2, <3>1, <3>2 DEF FileReceiver, File
  <2>3. CASE FileAll(r)
    <3>1. {x.by} \cup x.to \in SUBSET Parties
      BY <1>0, WriteFacts
    <3> QED BY <1>1, <2>3, <3>1 DEF FileAll, File
  <2> QED BY <2>1, <2>2, <2>3
<1>3. /\ mail' \in [Numbers -> Seq(Letters)]
      /\ \A m \in Numbers : Grows(m) /\ (m # n => mail'[m] = mail[m])
      /\ x.message = 1 /\ mail[n] # <<>> => mail'[n][1].boxes = mail[n][1].boxes \cup owners
  <2> HIDE DEF x
  <2> QED BY <1>2, MailFiled
<1>4. request'[r] = Advanced(r, x) /\ \A q \in Requests \ {r} : Kept(q)
  <2>1. request' = [request EXCEPT ![r] = Advanced(r, x)]
    BY DEF FileSender, FileReceiver, FileAll, File, Proceed
  <2> QED BY <2>1, OneRequest
<1>5. x.todo # Create1
  BY Lists DEF FileSender, FileReceiver, FileAll, File, At
<1>6. Begun(n) => Begun(n)'
  BY <1>3, ConversationStays
<1>7. Reaches(r, x, n)
  <2>1. CASE x.op = "create" /\ x.todo = Create2
    <3>1. Begun(n) /\ x.message = 1 /\ x.by = "user" /\ x.to = {"support"}
      BY <1>0, <1>1, <2>1, WriteFacts, Lists DEF Creates
    <3>2. "user" \in mail'[n][1].boxes
      BY <1>2, <1>3, <2>1, <3>1 DEF Begun
    <3> QED BY <1>6, <2>1, <3>1, <3>2 DEF Reaches
  <2>2. CASE x.op = "create" /\ x.todo = Create3
    <3>1. Begun(n) /\ x.message = 1 /\ "user" \in mail[n][1].boxes /\ x.to = {"support"}
      BY <1>0, <1>1, <2>2, WriteFacts, Lists DEF Creates
    <3>2. Parties \subseteq mail'[n][1].boxes
      BY <1>2, <1>3, <2>2, <3>1 DEF Begun, Parties
    <3>3. mail'[n][1] \in Letters
      BY <1>3, <1>6, <3>1, FirstLetter DEF Begun
    <3>4. Conversation(n)'
      BY <1>6, <3>1, <3>2, <3>3 DEF Conversation, Letters
    <3> QED BY <2>2, <3>4 DEF Reaches
  <2>3. CASE x.op = "create" => x.todo \notin {Create1, Create2, Create3}
    BY <1>1, <1>3, <2>3, LaterReaches
  <2> QED BY <1>5, <2>1, <2>2, <2>3
<1> QED BY <1>0, <1>1, <1>3, <1>4, <1>7, WriteFacts, GoesOnTalk

\* A request that stops leaves the conversations as they are.
LEMMA IdleTalk ==
  ASSUME Inv, Talk, NEW r \in Requests, request' = [request EXCEPT ![r] = Idle],
         counter' = counter, mail' = mail, tickets' = tickets
  PROVE  Talk'
<1>1. request'[r] = Idle /\ \A q \in Requests \ {r} : Kept(q)
  BY OneRequest
<1>2. Local(r)
  BY <1>1, MailStill DEF Local, Talk
<1>3. Proper(request[r])' /\ request'[r].op # "create"
  BY <1>1, IdleProper DEF Proper, Idle, Parties
<1> QED BY <1>2, <1>3, TalkStep

\* The writes that leave the mail alone.
LEMMA StillTalk ==
  ASSUME Inv, Talk, NEW r \in Requests, request[r].todo # <<>>, NEW x, IsRequest(x),
         x.number = request[r].number, x.op = request[r].op, x.by = request[r].by,
         x.to = request[r].to, request'[r] = Advanced(r, x), \A q \in Requests \ {r} : Kept(q),
         counter' = counter, mail' = mail,
         request[r].op = "create" => request[r].todo = Create4,
         \A n \in Numbers : tickets'[n] # NoTicket => tickets[n] # NoTicket \/ Conversation(n)
  PROVE  Talk'
<1>1. PICK n \in Numbers : n = request[r].number
  BY WriteFacts
<1>2. mail' \in [Numbers -> Seq(Letters)] /\ \A m \in Numbers : Grows(m) /\ mail'[m] = mail[m]
  BY MailStill
<1>3. Reaches(r, x, n)
  BY <1>1, <1>2, LaterReaches, Lists
<1>4. \A m \in Numbers : Conversation(m) => Conversation(m)'
  BY <1>2, ConversationStays
<1> QED BY <1>1, <1>2, <1>3, <1>4, WriteFacts, GoesOnTalk

LEMMA ThreadTalk ==
  ASSUME Inv, Talk, NEW r \in Requests, SaveThread(r)
  PROVE  Talk'
<1>0. /\ request[r].todo # <<>> /\ Head(request[r].todo) = "thread"
      /\ tickets' = tickets /\ counter' = counter /\ mail' = mail
  BY DEF SaveThread, At
<1>1. request[r].op # "create"
  BY <1>0, WriteFacts, Lists DEF Creates
<1>2. CASE request' = [request EXCEPT ![r] = Idle]
  BY <1>0, <1>2, IdleTalk
<1>3. CASE Proceed(r, request[r])
  <2>1. request' = [request EXCEPT ![r] = Advanced(r, request[r])]
    BY <1>3 DEF Proceed
  <2>2. request'[r] = Advanced(r, request[r]) /\ \A q \in Requests \ {r} : Kept(q)
    BY <2>1, OneRequest
  <2> QED BY <1>0, <1>1, <2>2, WriteFacts, StillTalk
<1> QED BY <1>2, <1>3 DEF SaveThread

LEMMA NoticeTalk ==
  ASSUME Inv, Talk, NEW r \in Requests, LoadForNotice(r)
  PROVE  Talk'
<1> DEFINE x == [request[r] EXCEPT !.copy = tickets[request[r].number]]
<1>0. /\ request[r].todo # <<>> /\ Head(request[r].todo) = "load"
      /\ tickets' = tickets /\ counter' = counter /\ mail' = mail
  BY DEF LoadForNotice, At
<1>1. request[r].op # "create"
  BY <1>0, WriteFacts, Lists DEF Creates
<1>2. CASE request' = [request EXCEPT ![r] = Idle]
  BY <1>0, <1>2, IdleTalk
<1>3. CASE Proceed(r, x)
  <2>1. /\ IsRequest(x) /\ x.number = request[r].number /\ x.op = request[r].op
        /\ x.by = request[r].by /\ x.to = request[r].to
    BY <1>0, WriteTypes DEF IsRequest, Fields
  <2> HIDE DEF x
  <2>2. request' = [request EXCEPT ![r] = Advanced(r, x)]
    BY <1>3 DEF Proceed
  <2>3. request'[r] = Advanced(r, x) /\ \A q \in Requests \ {r} : Kept(q)
    BY <2>2, OneRequest
  <2> QED BY <1>0, <1>1, <2>1, <2>3, StillTalk
<1> QED BY <1>2, <1>3 DEF LoadForNotice

\* What a step that writes a ticket does besides.
LEMMA WrittenTicket ==
  ASSUME Inv, NEW r \in Requests,
         CreateTicket(r) \/ SaveUserReply(r) \/ SaveStatus(r) \/ SaveSupportReply(r)
  PROVE  /\ request'[r] = Advanced(r, request[r]) /\ \A q \in Requests \ {r} : Kept(q)
         /\ \A m \in Numbers : m # request[r].number => tickets'[m] = tickets[m]
<1>1. request'[r] = Advanced(r, request[r]) /\ \A q \in Requests \ {r} : Kept(q)
  <2>1. CASE CreateTicket(r) \/ SaveUserReply(r) \/ SaveStatus(r)
    <3>1. request' = [request EXCEPT ![r] = Advanced(r, request[r])]
      BY <2>1 DEF CreateTicket, SaveUserReply, SaveStatus, Proceed
    <3> QED BY <3>1, OneRequest
  <2>2. CASE SaveSupportReply(r)
    <3>1. request'[r] = Advanced(r, request[r])
      BY <2>2 DEF SaveSupportReply
    <3>2. ASSUME NEW q \in Requests \ {r} PROVE Kept(q)
      <4>1. IsRequest(request[q])
        BY DEF Inv, Types
      <4>2. PICK b : request'[q] = [request[q] EXCEPT !.met = b]
        BY <2>2 DEF SaveSupportReply
      <4> QED BY <4>1, <4>2 DEF Kept, IsRequest, Fields
    <3> QED BY <3>1, <3>2
  <2> QED BY <2>1, <2>2
<1>2. \A m \in Numbers : m # request[r].number => tickets'[m] = tickets[m]
  BY DEF CreateTicket, SaveUserReply, SaveStatus, SaveSupportReply, Inv, Types
<1> QED BY <1>1, <1>2

\* A ticket is written where there is a conversation.
LEMMA TicketTalk ==
  ASSUME Inv, Talk, NEW r \in Requests,
         CreateTicket(r) \/ SaveUserReply(r) \/ SaveStatus(r) \/ SaveSupportReply(r)
  PROVE  Talk'
<1>0. /\ request[r].todo # <<>> /\ Head(request[r].todo) \in {"ticket", "save", "status"}
      /\ counter' = counter /\ mail' = mail
  BY DEF CreateTicket, SaveUserReply, SaveStatus, SaveSupportReply, At
<1>1. PICK n \in Numbers : n = request[r].number
  BY <1>0, WriteFacts
<1>2. request[r].op = "create" => request[r].todo = Create4
  BY <1>0, WriteFacts, Lists DEF Creates
<1>3. request[r].op # "mail"
  BY <1>0, Lists DEF Talk, Proper
<1>4. Conversation(n)
  <2>1. request[r].op = "create" => Conversation(n)
    BY <1>0, <1>1, <1>2, WriteFacts, Lists DEF Creates
  <2> QED BY <1>0, <1>1, <1>3, <2>1, WriteFacts DEF Talk, Proper
<1>5. /\ request'[r] = Advanced(r, request[r]) /\ \A q \in Requests \ {r} : Kept(q)
      /\ \A m \in Numbers : m # n => tickets'[m] = tickets[m]
  BY <1>1, WrittenTicket
<1> QED BY <1>0, <1>2, <1>4, <1>5, WriteFacts, StillTalk

\* A request that begins about a ticket that is there, or with the next number.
LEMMA BeginTalk ==
  ASSUME Inv, Talk, NEW r \in Requests, NEW y, Begin(r, y), mail' = mail, tickets' = tickets,
         counter' \in Nat, counter <= counter', Proper(y)',
         y.op = "create" => y.number > counter
  PROVE  Talk'
<1>1. request' = [request EXCEPT ![r] = y] /\ request[r].op = "none"
  BY DEF Begin
<1>2. request'[r] = y /\ \A q \in Requests \ {r} : Kept(q)
  BY <1>1, OneRequest
<1>3. Local(r)
  BY <1>2, MailStill DEF Local
<1> QED BY <1>2, <1>3, TalkStep DEF Proper

LEMMA StartTalk ==
  ASSUME Inv, Talk, NEW r \in Requests, Start(r)
  PROVE  Talk'
<1>0. /\ \A n \in Numbers : n \in Nat /\ (mail[n] # <<>> => n <= counter)
      /\ mail \in [Numbers -> Seq(Letters)] /\ counter \in Nat
  BY DEF Talk, Numbers
<1>1. ASSUME NEW k \in Keys \cup {NoKey}, Submit(r, k)
      PROVE  Talk'
  <2>0. PICK y : y = [Idle EXCEPT !.op = "create", !.todo = CreateSteps,
                               !.number = counter + 1, !.to = {"support"}]
    OBVIOUS
  <2>1. /\ Begin(r, y) /\ mail' = mail /\ tickets' = tickets /\ counter' = counter + 1
        /\ counter < MaxNumbers
    BY <1>1, <2>0 DEF Submit, Numbered
  <2>2. /\ y.op = "create" /\ y.todo = Create1 /\ y.number = counter + 1 /\ y.by = "user"
        /\ y.to = {"support"}
    BY <2>0 DEF Idle, Create1
  <2>3. counter + 1 \in Numbers
    BY <1>0, <2>1, BoundsAssumption DEF Numbers
  <2>4. mail[counter + 1] = <<>>
    BY <1>0, <2>3 DEF Talk
  <2>5. Proper(y)'
    BY <1>0, <2>1, <2>2, <2>3, <2>4 DEF Proper, Creates, Parties
  <2> QED BY <1>0, <2>1, <2>2, <2>5, BeginTalk
<1>2. ASSUME NEW n \in Numbers, NEW by \in Parties, Reply(r, n, by)
      PROVE  Talk'
  <2>0. PICK y : y = [Idle EXCEPT
                     !.op = "reply", !.number = n, !.by = by, !.to = Parties \ {by},
                     !.todo = IF by = "user" THEN UserReplySteps ELSE SupportReplySteps,
                     !.copy = tickets[n]]
    OBVIOUS
  <2>1. /\ Begin(r, y) /\ mail' = mail /\ tickets' = tickets /\ counter' = counter
        /\ tickets[n] # NoTicket
    BY <1>2, <2>0 DEF Reply
  <2>2. y.op = "reply" /\ y.number = n /\ y.by = by /\ y.to = Parties \ {by}
    BY <2>0 DEF Idle
  <2>3. Conversation(n)
    BY <2>1 DEF Talk, TicketHasConversation, Conversation, Begun
  <2>4. Conversation(n)' /\ n <= counter
    BY <1>0, <2>1, <2>3 DEF Conversation, Begun
  <2>5. Proper(y)'
    BY <1>0, <2>1, <2>2, <2>4 DEF Proper
  <2> QED BY <1>0, <2>1, <2>2, <2>5, BeginTalk
<1>3. ASSUME NEW n \in Numbers, NEW status \in Wanted, ChangeStatus(r, n, status)
      PROVE  Talk'
  <2>0. PICK y : y = [Idle EXCEPT
                     !.op = "status", !.number = n, !.by = "support", !.to = {"user"},
                     !.todo = StatusSteps(status), !.want = status, !.copy = tickets[n]]
    OBVIOUS
  <2>1. /\ Begin(r, y) /\ mail' = mail /\ tickets' = tickets /\ counter' = counter
        /\ tickets[n] # NoTicket
    BY <1>3, <2>0 DEF ChangeStatus
  <2>2. y.op = "status" /\ y.number = n /\ y.by = "support" /\ y.to = {"user"}
    BY <2>0 DEF Idle
  <2>3. Conversation(n)
    BY <2>1 DEF Talk, TicketHasConversation, Conversation, Begun
  <2>4. Conversation(n)' /\ n <= counter
    BY <1>0, <2>1, <2>3 DEF Conversation, Begun
  <2>5. Proper(y)'
    BY <1>0, <2>1, <2>2, <2>4 DEF Proper, Parties
  <2> QED BY <1>0, <2>1, <2>2, <2>5, BeginTalk
<1>4. ASSUME NEW n \in Numbers, NEW by \in Parties, NEW all \in BOOLEAN, NEW k \in DOMAIN mail[n],
             MailReply(r, n, k, by, all)
      PROVE  Talk'
  <2> DEFINE to == {mail[n][k].from} \cup (IF all THEN mail[n][k].to \ {by} ELSE {})
  <2>0. PICK y : y = [Idle EXCEPT
                     !.op = "mail", !.number = n, !.by = by, !.todo = MailSteps, !.to = to,
                     !.version = threads[n].version]
    OBVIOUS
  <2>1. Begin(r, y) /\ mail' = mail /\ tickets' = tickets /\ counter' = counter
    BY <1>4, <2>0 DEF MailReply
  <2>2. mail[n] \in Seq(Letters) /\ DOMAIN mail[n] = 1 .. Len(mail[n])
    BY <1>0, LenProperties
  <2>3. mail[n][k] \in Letters /\ mail[n] # <<>>
    BY <2>2, ElementOfSeq, EmptySeq
  <2>4. to \subseteq Parties
    BY <2>3 DEF Letters
  <2> HIDE DEF to
  <2>5. y.op = "mail" /\ y.number = n /\ y.by = by /\ y.to = to /\ y.todo = Mail1
    BY <2>0 DEF Idle, Mail1
  <2>6. Proper(y)'
    BY <1>0, <2>1, <2>3, <2>4, <2>5 DEF Proper
  <2> QED BY <1>0, <2>1, <2>5, <2>6, BeginTalk
<1> QED BY <1>1, <1>2, <1>3, <1>4 DEF Start

LEMMA TalkNext == Inv /\ Talk /\ [Next]_vars => Talk'
<1> SUFFICES ASSUME Inv, Talk, [Next]_vars
             PROVE  Talk'
  OBVIOUS
<1>1. ASSUME NEW r \in Requests, Stop(r)
      PROVE  Talk'
  BY <1>1, IdleTalk DEF Stop
<1>2. CASE UNCHANGED vars
  BY <1>2 DEF vars, Talk, Proper, Creates, Conversation, Begun, TicketHasConversation
<1> QED BY <1>1, <1>2, StartTalk, PostTalk, AcknowledgeTalk, FileTalk, ThreadTalk, TicketTalk,
           NoticeTalk DEF Next, Write

LEMMA InitTalk == Init => Talk
<1> SUFFICES ASSUME Init PROVE Talk
  OBVIOUS
<1>1. mail \in [Numbers -> Seq(Letters)] /\ \A n \in Numbers : mail[n] = <<>>
  BY EmptySeq DEF Init
<1>2. \A r \in Requests : Proper(request[r]) /\ request[r].op # "create"
  BY IdleProper DEF Init, Idle
<1> QED BY <1>1, <1>2 DEF Init, Talk, TicketHasConversation

\* Whatever stops half way and however the requests overlap, there is no ticket
\* without the message that opened it, in the mailbox of the reporter and in the
\* one of support: what each request to create a ticket has written is known from
\* the place it has reached in its list (Creates).
THEOREM TicketsHaveConversations == Spec => []TicketHasConversation
<1>1. Talk => TicketHasConversation
  BY DEF Talk
<1>2. Init => Counting
  BY DEF Init, Counting
<1> QED BY <1>1, <1>2, InitInv, InitTalk, CountingStep, InvStep, TalkNext, PTL DEF Spec

-----------------------------------------------------------------------------
(* One key and its tickets.                                                *)

\* A request that goes on, ends or is told of a reply; only the one that creates a
\* ticket adds to those that are there.
LEMMA ExistsStep ==
  ASSUME Talk, Present, OneCreates, NEW r \in Requests, keys' = keys, overlapped' = overlapped,
         \A q \in Requests \ {r} : Kept(q),
         \/ request'[r].op = "none"
         \/ /\ request'[r].todo # <<>> /\ request'[r].todo = Tail(request[r].todo)
            /\ request'[r].op = request[r].op /\ request'[r].number = request[r].number
            /\ request'[r].want = request[r].want
            /\ request'[r].op \in {"reply", "status"} => request'[r].copy.status \in Statuses,
         \A n \in Numbers : Exists(n) => Exists(n)',
         \A n \in Numbers : Exists(n)' =>
            \/ Exists(n)
            \/ n = request[r].number /\ request[r].op = "create" /\ request[r].todo = Create4,
         \A n \in Numbers : Exists(n)' <=> tickets'[n] # NoTicket
  PROVE  Present' /\ OneCreates'
<1>1. Present'
  <2>1. ASSUME NEW q \in Requests, request'[q].op \in {"reply", "status"}
        PROVE  /\ Exists(request[q].number)' /\ request'[q].copy.status \in Statuses
               /\ request'[q].op = "status" => request'[q].want \in Statuses
               /\ request'[q].op = "reply" => request'[q].todo \in Replies
    <3>1. /\ request[q].op = request'[q].op /\ request[q].number = request'[q].number
          /\ request[q].want = request'[q].want /\ request'[q].copy.status \in Statuses
      BY <2>1 DEF Kept, Present
    <3>2. PICK n \in Numbers : n = request[q].number
      BY <2>1, <3>1 DEF Talk, Proper
    <3>3. Exists(n)'
      BY <2>1, <3>1, <3>2 DEF Present
    <3>4. request[q].op = "reply" => request[q].todo \in Replies
      BY DEF Present
    <3>5. request'[q].op = "reply" => request'[q].todo \in Replies
      BY <3>1, <3>4, ReplyLists DEF Kept
    <3> QED BY <2>1, <3>1, <3>2, <3>3, <3>5 DEF Present, Exists
  <2> QED BY <2>1 DEF Present
<1>2. ASSUME NEW k \in Keys \ overlapped
      PROVE  /\ \A p, q \in Requests : Creating(p, k)' /\ Creating(q, k)' => p = q
             /\ \A q \in Requests :
                   Creating(q, k)' /\ request'[q].todo \in {Create1, Create2, Create3, Create4}
                   => \A n \in Numbers : Exists(n)' => keys[n] # k
             /\ \A m, n \in Numbers :
                   Exists(m)' /\ Exists(n)' /\ keys[m] = k /\ keys[n] = k => m = n
  <2>1. /\ \A p, q \in Requests : Creating(p, k) /\ Creating(q, k) => p = q
        /\ \A m, n \in Numbers :
              Exists(m) /\ Exists(n) /\ keys[m] = k /\ keys[n] = k => m = n
        /\ \A q \in Requests :
              Creating(q, k) /\ request[q].todo \in {Create1, Create2, Create3, Create4}
              => \A n \in Numbers : Exists(n) => keys[n] # k
    BY DEF OneCreates
  <2>2. \A q \in Requests : Creating(q, k)' => Creating(q, k)
    BY DEF Kept, Creating
  <2>3. ASSUME NEW q \in Requests, Creating(q, k)', NEW n \in Numbers,
               request'[q].todo \in {Create1, Create2, Create3, Create4}, keys[n] = k
        PROVE  ~Exists(n)'
    <3>1. CASE q = r
      <4>1. Creates(request[r]) /\ request'[r].todo = Tail(request[r].todo)
        BY <2>2, <2>3, <3>1 DEF Talk, Proper, Creating
      <4>2. request[r].todo \in {Create1, Create2, Create3}
        <5>1. request[r].todo \notin {Create4, Create5, Create6, Create7}
          BY <2>3, <3>1, <4>1, Lists, SMTT(60)
        <5> QED BY <4>1, <5>1 DEF Creates
      <4>3. request[r].todo # Create4
        BY <4>2, Lists
      <4> QED BY <2>1, <2>2, <2>3, <3>1, <4>2, <4>3
    <3>2. CASE q # r
      <4>1. Creating(q, k) /\ ~Creating(r, k)
        BY <2>1, <2>2, <2>3, <3>2
      <4>2. n # request[r].number \/ request[r].op # "create"
        BY <2>3, <4>1 DEF Creating
      <4> QED BY <2>1, <2>3, <3>2, <4>1, <4>2 DEF Kept
    <3> QED BY <3>1, <3>2
  <2>4. ASSUME NEW m \in Numbers, NEW n \in Numbers, Exists(m)', Exists(n)',
               keys[m] = k, keys[n] = k
        PROVE  m = n
    BY <2>1, <2>4 DEF Creating
  <2> QED BY <2>1, <2>2, <2>3, <2>4
<1>3. OneCreates'
  BY <1>2 DEF OneCreates, Creating
<1> QED BY <1>1, <1>3

LEMMA GoesOnExists ==
  ASSUME Talk, Present, OneCreates, NEW r \in Requests, keys' = keys, overlapped' = overlapped,
         \A q \in Requests \ {r} : Kept(q), request[r].todo # <<>>, NEW x, IsRequest(x),
         request'[r] = Advanced(r, x), x.op = request[r].op, x.number = request[r].number,
         x.want = request[r].want,
         x.copy = request[r].copy \/ x.copy = tickets[x.number],
         \A n \in Numbers : Exists(n) => Exists(n)',
         \A n \in Numbers : Exists(n)' =>
            \/ Exists(n)
            \/ n = request[r].number /\ request[r].op = "create" /\ request[r].todo = Create4,
         \A n \in Numbers : Exists(n)' <=> tickets'[n] # NoTicket
  PROVE  Present' /\ OneCreates'
<1>1. request[r].op \in {"reply", "status"} => x.copy.status \in Statuses
  BY DEF Present, Exists
<1>2. CASE Advanced(r, x) = Idle
  <2>1. request'[r].op = "none"
    BY <1>2 DEF Idle
  <2> QED BY <2>1, ExistsStep
<1>3. CASE Advanced(r, x) # Idle
  <2>1. /\ request'[r].todo = Tail(request[r].todo) /\ request'[r].todo # <<>>
        /\ request'[r].op = request[r].op
        /\ request'[r].number = request[r].number /\ request'[r].want = request[r].want
        /\ request'[r].copy = x.copy
    <3> DEFINE y == Advanced(r, x)
    <3>1. /\ Tail(request[r].todo) # <<>> /\ y.todo = Tail(request[r].todo)
          /\ y.op = x.op /\ y.number = x.number /\ y.copy = x.copy /\ y.want = x.want
      BY <1>3, AdvancedFields
    <3> HIDE DEF y
    <3>2. request'[r] = y
      BY DEF y
    <3> QED BY <3>1, <3>2
  <2> QED BY <1>1, <2>1, ExistsStep
<1> QED BY <1>2, <1>3

\* The steps that write no ticket.
LEMMA OtherExists ==
  ASSUME Inv, Talk, Present, OneCreates, NEW r \in Requests,
         \/ Post(r) \/ Acknowledge(r) \/ FileSender(r) \/ FileReceiver(r) \/ FileAll(r)
         \/ SaveThread(r) \/ LoadForNotice(r) \/ Stop(r)
  PROVE  Present' /\ OneCreates'
<1>0. tickets' = tickets /\ keys' = keys /\ overlapped' = overlapped
  BY DEF Post, Acknowledge, FileSender, FileReceiver, FileAll, File, SaveThread, LoadForNotice, Stop
<1>1. \A n \in Numbers : /\ Exists(n)' <=> Exists(n)
                         /\ Exists(n)' <=> tickets'[n] # NoTicket
  BY <1>0 DEF Exists, Present
<1>2. CASE request' = [request EXCEPT ![r] = Idle]
  <2>1. request'[r].op = "none" /\ \A q \in Requests \ {r} : Kept(q)
    <3>1. Idle.op = "none"
      BY DEF Idle
    <3> QED BY <1>2, <3>1, OneRequest
  <2> QED BY <1>0, <1>1, <2>1, ExistsStep
<1>3. ASSUME request[r].todo # <<>>, NEW x, Proceed(r, x), IsRequest(x), x.op = request[r].op,
             x.number = request[r].number, x.want = request[r].want,
             x.copy = request[r].copy \/ x.copy = tickets[x.number]
      PROVE  Present' /\ OneCreates'
  <2>1. request' = [request EXCEPT ![r] = Advanced(r, x)]
    BY <1>3 DEF Proceed
  <2>2. request'[r] = Advanced(r, x) /\ \A q \in Requests \ {r} : Kept(q)
    BY <2>1, OneRequest
  <2> QED BY <1>0, <1>1, <1>3, <2>2, GoesOnExists
<1>4. CASE Post(r)
  <2> DEFINE x == [request[r] EXCEPT !.message = Len(mail[request[r].number]) + 1]
  <2>1. request[r].todo # <<>> /\ Proceed(r, x)
    BY <1>4 DEF Post, At
  <2>2. /\ IsRequest(x) /\ x.op = request[r].op /\ x.number = request[r].number
        /\ x.want = request[r].want /\ x.copy = request[r].copy
    BY <2>1, WriteTypes DEF IsRequest, Fields
  <2> HIDE DEF x
  <2> QED BY <1>3, <2>1, <2>2
<1>5. CASE Acknowledge(r)
  <2> DEFINE x == [request[r] EXCEPT !.by = "support", !.to = {"user"},
                                     !.message = Len(mail[request[r].number]) + 1]
  <2>1. request[r].todo # <<>> /\ Proceed(r, x)
    BY <1>5 DEF Acknowledge, At
  <2>2. /\ IsRequest(x) /\ x.op = request[r].op /\ x.number = request[r].number
        /\ x.want = request[r].want /\ x.copy = request[r].copy
    BY <2>1, WriteTypes DEF IsRequest, Fields
  <2> HIDE DEF x
  <2> QED BY <1>3, <2>1, <2>2
<1>6. CASE LoadForNotice(r)
  <2> DEFINE x == [request[r] EXCEPT !.copy = tickets[request[r].number]]
  <2>1. request[r].todo # <<>> /\ (Proceed(r, x) \/ request' = [request EXCEPT ![r] = Idle])
    BY <1>6 DEF LoadForNotice, At
  <2>2. /\ IsRequest(x) /\ x.op = request[r].op /\ x.number = request[r].number
        /\ x.want = request[r].want /\ x.copy = tickets[x.number]
    BY <2>1, WriteTypes DEF IsRequest, Fields
  <2> HIDE DEF x
  <2> QED BY <1>2, <1>3, <2>1, <2>2
<1>7. CASE FileSender(r) \/ FileReceiver(r) \/ FileAll(r) \/ SaveThread(r)
  <2>1. /\ request[r].todo # <<>>
        /\ Proceed(r, request[r]) \/ request' = [request EXCEPT ![r] = Idle]
    BY <1>7 DEF FileSender, FileReceiver, FileAll, File, SaveThread, At
  <2> QED BY <1>2, <1>3, <2>1, WriteTypes
<1> QED BY <1>2, <1>4, <1>5, <1>6, <1>7 DEF Stop

\* The steps that write one.
LEMMA TicketExists ==
  ASSUME Inv, Talk, Present, OneCreates, NEW r \in Requests,
         CreateTicket(r) \/ SaveUserReply(r) \/ SaveStatus(r) \/ SaveSupportReply(r)
  PROVE  Present' /\ OneCreates'
<1>0. request[r].todo # <<>> /\ keys' = keys /\ overlapped' = overlapped
  BY DEF CreateTicket, SaveUserReply, SaveStatus, SaveSupportReply, At
<1>1. PICK n \in Numbers : n = request[r].number
  BY <1>0, WriteFacts
<1>2. IsTicket(tickets[n]) /\ IsTicket(request[r].copy)
  BY <1>0, <1>1, WriteTypes
<1>3. request'[r] = Advanced(r, request[r]) /\ \A q \in Requests \ {r} : Kept(q)
  BY WrittenTicket
<1>4. \A m \in Numbers : m # n => tickets'[m] = tickets[m]
  BY <1>1, WrittenTicket
<1>5. CASE CreateTicket(r)
  <2>1. tickets'[n].status = "OPEN"
    BY <1>1, <1>5 DEF CreateTicket, Inv, Types
  <2>2. Exists(n)'
    BY <2>1 DEF Exists, Statuses
  <2>3. tickets'[n] # NoTicket
    BY <2>1 DEF NoTicket
  <2>4. Head(request[r].todo) = "ticket"
    BY <1>5 DEF CreateTicket, At
  <2>5. request[r].op = "create" => request[r].todo = Create4
    BY <1>0, <2>4, WriteFacts, Lists DEF Creates
  <2>6. request[r].op # "mail" /\ request[r].op # "none"
    BY <1>0, <2>4, WriteFacts, Lists DEF Talk, Proper
  <2>7. request[r].op # "create" => Exists(n)
    BY <1>1, <2>6 DEF Talk, Proper, Present
  <2>8. \A m \in Numbers : m # n => (Exists(m)' <=> Exists(m)) /\ (Exists(m)' <=> tickets'[m] # NoTicket)
    BY <1>4 DEF Exists, Present
  <2> QED BY <1>0, <1>1, <1>3, <2>2, <2>3, <2>5, <2>7, <2>8, WriteTypes, GoesOnExists
<1>6. CASE SaveUserReply(r) \/ SaveStatus(r) \/ SaveSupportReply(r)
  <2>1. Head(request[r].todo) \in {"save", "status"}
    BY <1>6 DEF SaveUserReply, SaveStatus, SaveSupportReply, At
  <2>2. request[r].op \in {"reply", "status"}
    <3>1. request[r].op # "create"
      BY <1>0, <2>1, WriteFacts, Lists DEF Creates
    <3>2. request[r].op # "mail" /\ request[r].op # "none"
      BY <1>0, <2>1, WriteFacts, Lists DEF Talk, Proper
    <3> QED BY <3>1, <3>2 DEF Talk, Proper
  <2>3. Exists(n) /\ request[r].copy.status \in Statuses
    BY <1>1, <2>2 DEF Present
  <2>4. PICK new : /\ tickets'[n] = Stored(n, request[r].copy, new) /\ new.status \in Statuses
                   /\ DOMAIN new = {"status", "unread"}
    <3>1. CASE SaveUserReply(r)
      <4>1. AfterUserReply(request[r].copy).status \in Statuses
        BY <1>2, <2>3 DEF AfterUserReply, Statuses, IsTicket
      <4>2. DOMAIN AfterUserReply(request[r].copy) = {"status", "unread"}
        BY <1>2, AfterUserReplyTicket DEF IsTicket
      <4> QED BY <1>1, <3>1, <4>1, <4>2 DEF SaveUserReply, Inv, Types
    <3>2. CASE SaveSupportReply(r)
      <4>1. AfterSupportReply(request[r].copy).status \in Statuses
        BY <2>3 DEF AfterSupportReply, Statuses
      <4>2. DOMAIN AfterSupportReply(request[r].copy) = {"status", "unread"}
        BY AfterSupportReplyTicket DEF IsTicket
      <4> QED BY <1>1, <3>2, <4>1, <4>2 DEF SaveSupportReply, Inv, Types
    <3>3. CASE SaveStatus(r)
      <4> DEFINE new == [request[r].copy EXCEPT !.status = request[r].want]
      <4>1. request[r].op = "status"
        BY <2>2, <3>3, ReplyLists DEF Present, SaveStatus, At
      <4>2. new.status \in Statuses /\ DOMAIN new = {"status", "unread"}
        BY <1>2, <4>1 DEF Present, IsTicket
      <4>3. tickets'[n] = Stored(n, request[r].copy, new)
        BY <1>1, <3>3 DEF SaveStatus, Inv, Types
      <4> QED BY <4>2, <4>3
    <3> QED BY <1>6, <3>1, <3>2, <3>3
  <2>5. tickets'[n].status \in {new.status, tickets[n].status}
    BY <2>4 DEF Stored
  <2>6. Exists(n)' /\ tickets'[n] # NoTicket
    BY <2>3, <2>4, <2>5 DEF Exists, Statuses, NoTicket
  <2>7. \A m \in Numbers : m # n => (Exists(m)' <=> Exists(m)) /\ (Exists(m)' <=> tickets'[m] # NoTicket)
    BY <1>4 DEF Exists, Present
  <2> QED BY <1>0, <1>1, <1>3, <2>3, <2>6, <2>7, WriteTypes, GoesOnExists
<1> QED BY <1>5, <1>6

LEMMA StartExists ==
  ASSUME Inv, Talk, Present, OneCreates, NEW r \in Requests, Start(r)
  PROVE  Present' /\ OneCreates'
<1>1. ASSUME NEW k \in Keys \cup {NoKey}, Submit(r, k)
      PROVE  Present' /\ OneCreates'
  <2>0. PICK c : c = counter + 1
    OBVIOUS
  <2>1. /\ tickets' = tickets /\ keys' = [keys EXCEPT ![c] = k]
        /\ overlapped' = overlapped \cup {j \in {k} : \E q \in Requests : Creating(q, j)}
        /\ k # NoKey => \A n \in Numbers : tickets[n] # NoTicket => keys[n] # k
    BY <1>1, <2>0 DEF Submit, Numbered
  <2>2. PICK y : request' = [request EXCEPT ![r] = y] /\ y.op = "create" /\ y.number = c
    <3> DEFINE y == [Idle EXCEPT !.op = "create", !.todo = CreateSteps,
                                 !.number = counter + 1, !.to = {"support"}]
    <3>1. y.op = "create" /\ y.number = counter + 1
      BY DEF Idle
    <3> QED BY <1>1, <2>0, <3>1 DEF Submit, Numbered, Begin
  <2>3. /\ request'[r].op = "create" /\ request'[r].number = c
        /\ \A q \in Requests \ {r} : Kept(q)
    BY <2>2, OneRequest
  <2>4. c \in Nat /\ c > counter
    BY <2>0 DEF Talk
  <2>5. \A n \in Numbers : n = c => ~Exists(n)
    BY <2>4 DEF Talk, TicketHasConversation, Present
  <2>6. \A n \in Numbers : (Exists(n)' <=> Exists(n)) /\ (Exists(n)' <=> tickets'[n] # NoTicket)
    BY <2>1 DEF Exists, Present
  <2>7. Present'
    BY <2>3, <2>6, <2>1 DEF Present, Kept, Talk, Proper, Exists
  <2>8. keys' = [n \in Numbers |-> keys'[n]] /\ \A n \in Numbers : keys'[n] = IF n = c THEN k ELSE keys[n]
    BY <2>1 DEF OneCreates
  <2>9. \A q \in Requests \ {r}, j \in Keys : Creating(q, j)' => Creating(q, j)
    <3> TAKE q \in Requests \ {r}, j \in Keys
    <3>1. request[q].op = "create" => /\ request[q].number \in Numbers
                                      /\ request[q].number <= counter
      BY DEF Talk, Proper
    <3>2. request[q].op = "create" => request[q].number # c
      BY <2>4, <3>1 DEF Talk, Numbers
    <3> QED BY <2>3, <2>8, <3>1, <3>2 DEF Creating, Kept
  <2>10. c \in Numbers
    BY <1>1, <2>0, <2>4, BoundsAssumption DEF Submit, Numbered, Numbers, Talk
  <2>11. \A j \in Keys : Creating(r, j)' => j = k
    BY <2>3, <2>8, <2>10 DEF Creating
  <2>12. ASSUME NEW j \in Keys \ overlapped'
         PROVE  /\ \A p, q \in Requests : Creating(p, j)' /\ Creating(q, j)' => p = q
                /\ \A q \in Requests :
                     Creating(q, j)' /\ request'[q].todo \in {Create1, Create2, Create3, Create4}
                     => \A n \in Numbers : Exists(n)' => keys'[n] # j
                /\ \A m, n \in Numbers :
                     Exists(m)' /\ Exists(n)' /\ keys'[m] = j /\ keys'[n] = j => m = n
    <3>1. /\ \A p, q \in Requests : Creating(p, j) /\ Creating(q, j) => p = q
          /\ \A m, n \in Numbers :
                Exists(m) /\ Exists(n) /\ keys[m] = j /\ keys[n] = j => m = n
          /\ \A q \in Requests :
                Creating(q, j) /\ request[q].todo \in {Create1, Create2, Create3, Create4}
                => \A n \in Numbers : Exists(n) => keys[n] # j
      BY <2>1 DEF OneCreates
    <3>2. \A n \in Numbers : Exists(n)' /\ keys'[n] = j => Exists(n) /\ keys[n] = j
      BY <2>5, <2>6, <2>8
    <3>3. j = k => \A q \in Requests : ~Creating(q, j)
      BY <2>1
    <3>4. j = k => \A n \in Numbers : Exists(n) => keys[n] # j
      BY <2>1, KeysAssumption DEF Present
    <3>5. ASSUME NEW p \in Requests, NEW q \in Requests, Creating(p, j)', Creating(q, j)'
          PROVE  p = q
      BY <2>9, <2>11, <3>1, <3>3, <3>5
    <3>6. ASSUME NEW q \in Requests, Creating(q, j)', NEW n \in Numbers, Exists(n)', keys'[n] = j,
                 request'[q].todo \in {Create1, Create2, Create3, Create4}
          PROVE  FALSE
      <4>1. CASE q = r
        BY <2>11, <3>2, <3>4, <3>6, <4>1
      <4>2. CASE q # r
        <5>1. Creating(q, j) /\ request[q].todo = request'[q].todo
          BY <2>3, <2>9, <3>6, <4>2 DEF Kept
        <5> QED BY <3>1, <3>2, <3>6, <5>1
      <4> QED BY <4>1, <4>2
    <3> QED BY <3>1, <3>2, <3>5, <3>6
  <2>13. OneCreates'
    BY <2>8, <2>12 DEF OneCreates, Creating
  <2> QED BY <2>7, <2>13
<1>2. ASSUME tickets' = tickets, keys' = keys, overlapped' = overlapped, NEW y, Begin(r, y), y.op # "create",
             y.op \in {"reply", "status"} =>
                /\ y.number \in Numbers /\ tickets[y.number] # NoTicket
                /\ y.copy = tickets[y.number]
                /\ y.op = "status" => y.want \in Statuses
                /\ y.op = "reply" => y.todo \in Replies
      PROVE  Present' /\ OneCreates'
  <2>1. request'[r] = y /\ \A q \in Requests \ {r} : Kept(q)
    BY <1>2, OneRequest DEF Begin
  <2>2. \A n \in Numbers : (Exists(n)' <=> Exists(n)) /\ (Exists(n)' <=> tickets'[n] # NoTicket)
    BY <1>2 DEF Exists, Present
  <2>3. ASSUME NEW q \in Requests, request'[q].op \in {"reply", "status"}
        PROVE  /\ \E n \in Numbers : n = request'[q].number /\ Exists(n)
               /\ request'[q].copy.status \in Statuses
               /\ request'[q].op = "status" => request'[q].want \in Statuses
               /\ request'[q].op = "reply" => request'[q].todo \in Replies
    <3>1. CASE q = r
      BY <1>2, <2>1, <2>3, <3>1 DEF Present, Exists
    <3>2. CASE q # r
      BY <2>1, <2>3, <3>2 DEF Present, Kept, Talk, Proper
    <3> QED BY <3>1, <3>2
  <2>4. Present'
    BY <1>2, <2>2, <2>3 DEF Present, Exists
  <2>5. OneCreates'
    BY <1>2, <2>1, <2>2 DEF OneCreates, Kept, Creating
  <2> QED BY <2>4, <2>5
<1>3. ASSUME NEW n \in Numbers, NEW by \in Parties, Reply(r, n, by)
      PROVE  Present' /\ OneCreates'
  <2>0. PICK y : y = [Idle EXCEPT
                     !.op = "reply", !.number = n, !.by = by, !.to = Parties \ {by},
                     !.todo = IF by = "user" THEN UserReplySteps ELSE SupportReplySteps,
                     !.copy = tickets[n]]
    OBVIOUS
  <2>1. /\ Begin(r, y) /\ tickets' = tickets /\ keys' = keys /\ overlapped' = overlapped
        /\ tickets[n] # NoTicket
    BY <1>3, <2>0 DEF Reply
  <2>2. /\ y.op = "reply" /\ y.number = n /\ y.copy = tickets[n]
        /\ y.todo \in {UserReplySteps, SupportReplySteps}
    BY <2>0 DEF Idle
  <2>3. y.todo \in Replies
    BY <2>2 DEF Replies, UserReplySteps, SupportReplySteps
  <2> QED BY <1>2, <2>1, <2>2, <2>3
<1>4. ASSUME NEW n \in Numbers, NEW status \in Wanted, ChangeStatus(r, n, status)
      PROVE  Present' /\ OneCreates'
  <2>0. PICK y : y = [Idle EXCEPT
                     !.op = "status", !.number = n, !.by = "support", !.to = {"user"},
                     !.todo = StatusSteps(status), !.want = status, !.copy = tickets[n]]
    OBVIOUS
  <2>1. /\ Begin(r, y) /\ tickets' = tickets /\ keys' = keys /\ overlapped' = overlapped
        /\ tickets[n] # NoTicket /\ status \in AllowedTransitions(tickets[n].status)
    BY <1>4, <2>0 DEF ChangeStatus
  <2>2. y.op = "status" /\ y.number = n /\ y.copy = tickets[n] /\ y.want = status
    BY <2>0 DEF Idle
  <2>3. tickets[n].status \in Statuses
    BY <2>1 DEF Present, Exists
  <2>4. status \in Statuses
    BY <2>1, <2>3 DEF AllowedTransitions, Statuses
  <2> QED BY <1>2, <2>1, <2>2, <2>4
<1>5. ASSUME NEW n \in Numbers, NEW by \in Parties, NEW all \in BOOLEAN, NEW k \in DOMAIN mail[n],
             MailReply(r, n, k, by, all)
      PROVE  Present' /\ OneCreates'
  <2>0. PICK y : y = [Idle EXCEPT
                     !.op = "mail", !.number = n, !.by = by, !.todo = MailSteps,
                     !.to = {mail[n][k].from} \cup (IF all THEN mail[n][k].to \ {by} ELSE {}),
                     !.version = threads[n].version]
    OBVIOUS
  <2>1. Begin(r, y) /\ tickets' = tickets /\ keys' = keys /\ overlapped' = overlapped
    BY <1>5, <2>0 DEF MailReply
  <2>2. y.op = "mail"
    BY <2>0 DEF Idle
  <2> QED BY <1>2, <2>1, <2>2
<1> QED BY <1>1, <1>3, <1>4, <1>5 DEF Start

LEMMA ExistsNext == Inv /\ Talk /\ Present /\ OneCreates /\ [Next]_vars => Present' /\ OneCreates'
<1> SUFFICES ASSUME Inv, Talk, Present, OneCreates, [Next]_vars
             PROVE  Present' /\ OneCreates'
  OBVIOUS
<1>1. CASE UNCHANGED vars
  BY <1>1 DEF vars, Present, OneCreates, Exists, Creating
<1> QED BY <1>1, StartExists, OtherExists, TicketExists DEF Next, Write

LEMMA InitExists == Init => Present /\ OneCreates
<1> SUFFICES ASSUME Init PROVE Present /\ OneCreates
  OBVIOUS
<1>1. \A n \in Numbers : tickets[n] = NoTicket /\ ~Exists(n)
  BY DEF Init, Exists, NoTicket, Statuses
<1>2. \A r \in Requests : request[r].op = "none"
  BY DEF Init, Idle
<1>3. keys = [n \in Numbers |-> keys[n]]
  BY DEF Init
<1> QED BY <1>1, <1>2, <1>3 DEF Present, OneCreates, Creating

\* However often a request is sent again with its key, and wherever it stops, the key
\* opens a second ticket only if two requests with it ran at the same time: the look
\* for the key and the ticket that would be found are far apart in one request, but
\* nothing else comes between them.
THEOREM KeyOpensOneTicket == Spec => []OneTicketPerKey
<1>1. Present /\ OneCreates => OneTicketPerKey
  BY DEF Present, OneCreates, OneTicketPerKey
<1>2. Init => Counting
  BY DEF Init, Counting
<1> QED BY <1>1, <1>2, InitInv, InitTalk, InitExists, CountingStep, InvStep, TalkNext, ExistsNext,
           PTL DEF Spec
=============================================================================
