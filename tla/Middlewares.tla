------------------------------ MODULE Middlewares ------------------------------
(***************************************************************************)
(* A request handled by a tree of middlewares (packages/core/src:          *)
(* middlewares/composite-*.ts, middlewares/shared.ts, router/route*.ts).   *)
(*                                                                         *)
(* A middleware swaps the ends of a function: it *returns* when it did not *)
(* handle the request (nothing, or an error) and *throws* its result.  A   *)
(* composite tries its members in order; once one returns an error, only   *)
(* error middlewares are tried.  There are four composites, with or        *)
(* without priorities and synchronous or not, and they do not treat the    *)
(* answers of their members in the same way.  A composite is an error      *)
(* middleware too, and so is a route, whatever the path.                   *)
(*                                                                         *)
(* A member may be added while the request is in another one.              *)
(***************************************************************************)
EXTENDS Integers, Sequences, FiniteSets, SequencesExt

CONSTANTS
  Composites, Root,         \* the middlewares made of others, and the outermost
  Handlers, ErrorHandlers,  \* middlewares with handle() alone, with handleError() alone
  Members,                  \* what each composite is made of, in order
  Prioritised,              \* the composites with priorities
  RouteOf,                  \* the segment of the path a route expects, or None
  Spares, Priorities,       \* what may be added later, and with which priority
  Segments, Paths,          \* the segments of paths, and the paths of requests
  None

Middleware == Handlers \union ErrorHandlers

\* What a middleware answers: it returns nothing, an Error, a refusal (another
\* value that is no string) or 'break', or throws a result.  Two results no
\* middleware gave: the string 'break' and undefined.
Unhandled == [is |-> "next"]
Failure(l) == [is |-> "error", of |-> l]
Refusal(l) == [is |-> "refusal", of |-> l]
Break == [is |-> "break"]
Result(l) == [is |-> "result", of |-> l]
BreakResult == Result("break")
NoResult == Result("undefined")

Error == {Failure(l) : l \in Middleware} \union {Refusal(l) : l \in Middleware}
Answer == Error \union {Result(l) : l \in Middleware \union {"break", "undefined"}} \union {Unhandled, Break}

ASSUME MiddlewaresAssumption ==
  /\ Root \in Composites /\ Prioritised \subseteq Composites /\ RouteOf[Root] = None
  /\ Handlers \intersect ErrorHandlers = {} /\ Composites \intersect Middleware = {}
  /\ {"break", "undefined", None} \intersect Middleware = {} /\ None \notin Answer
  /\ Spares \subseteq Middleware /\ Priorities \subseteq Int
  /\ Paths \subseteq Seq(Segments)

Stack == Seq([priority : Int, node : Composites \union Middleware])

\* The members are a tree, and those with priorities are in order.
ASSUME MembersAreATree ==
  /\ Members \in [Composites -> Stack]
  /\ \A c, d \in Composites : \A i \in DOMAIN Members[c], j \in DOMAIN Members[d] :
       Members[c][i].node = Members[d][j].node => c = d /\ i = j
  /\ \A c \in Composites : \A i \in DOMAIN Members[c] : Members[c][i].node # Root
  /\ \A c \in Prioritised : \A i, j \in DOMAIN Members[c] :
       i < j => Members[c][i].priority <= Members[c][j].priority

VARIABLES
  sync,     \* whether the composites are the synchronous ones
  members,  \* the stack of each composite: nodes with their priorities
  path,     \* the request's path
  entered,  \* the composites the request is in, innermost last
  called,   \* the middleware that has been called, or None
  reply,    \* what a member of the innermost composite answered, or None
  outcome,  \* what the root answered, or None
  began,    \* history: the path the request came with
  asked,    \* history: the middlewares called, in order
  gave,    \* history: the middleware that gave a result, or None
  failure,  \* history: the last error returned, or None
  broken,   \* history: a middleware said 'break'
  dropped,  \* history: a result that its composite drops
  shifted   \* history: a member was added before one that had been tried

middlewaresVars ==
  <<sync, members, path, entered, called, reply, outcome, began, asked, gave, failure, broken, dropped, shifted>>

IsStandard(n) == n \in Composites \union Handlers
IsError(n) == n \in Composites \union ErrorHandlers

\* handle() or handleError() of a composite, which keeps the error it has.
Entered(c, handles, error, old) ==
  [of |-> c, handles |-> handles, index |-> 1, limit |-> Len(members[c]),
   error |-> error, failed |-> ~handles, path |-> old]

MiddlewaresInit ==
  /\ sync \in BOOLEAN /\ members = Members
  /\ path \in Paths /\ began = path
  /\ entered = <<Entered(Root, TRUE, Unhandled, path)>>
  /\ called = None /\ reply = None /\ outcome = None
  /\ asked = <<>> /\ gave = None /\ failure = None
  /\ broken = FALSE /\ dropped = FALSE /\ shifted = FALSE

histories == <<sync, began, asked, gave, failure, broken, dropped, shifted>>

------------------------------------------------------------------------------
Innermost == Last(entered)
Around == Front(entered)
Member == members[Innermost.of][Innermost.index].node

Between == entered # <<>> /\ called = None /\ reply = None
\* forEach() stops at the length the stack had; the loop over promises does not.
HasMore == Innermost.index <= IF sync THEN Innermost.limit ELSE Len(members[Innermost.of])
Tries == Between /\ HasMore /\ IF Innermost.failed THEN IsError(Member) ELSE IsStandard(Member)

Skip ==
  /\ Between /\ HasMore /\ ~Tries
  /\ entered' = Append(Around, [Innermost EXCEPT !.index = @ + 1])
  /\ UNCHANGED <<members, path, called, reply, outcome>> /\ UNCHANGED histories

CallMember ==
  /\ Tries /\ Member \notin Composites
  /\ called' = Member /\ asked' = Append(asked, Member)
  /\ UNCHANGED <<members, path, entered, reply, outcome, sync, began, gave, failure, broken, dropped, shifted>>

\* A route takes its segment off the path and puts it back when it is left.
Matches(c) == RouteOf[c] = None \/ (path # <<>> /\ Head(path) = RouteOf[c])

EnterHandle ==
  /\ Tries /\ Member \in Composites /\ ~Innermost.failed
  /\ IF Matches(Member)
     THEN /\ entered' = Append(entered, Entered(Member, TRUE, Unhandled, path))
          /\ path' = IF RouteOf[Member] = None THEN path ELSE Tail(path)
          /\ UNCHANGED reply
     ELSE reply' = Unhandled /\ UNCHANGED <<entered, path>>
  /\ UNCHANGED <<members, called, outcome>> /\ UNCHANGED histories

EnterHandleError ==
  /\ Tries /\ Member \in Composites /\ Innermost.failed
  /\ entered' = Append(entered, Entered(Member, FALSE, Innermost.error, path))
  /\ UNCHANGED <<members, path, called, reply, outcome>> /\ UNCHANGED histories

\* The middleware that was called returns or throws.
Answers(a) ==
  /\ called # None
  /\ called' = None /\ reply' = a
  /\ gave' = IF a.is = "result" THEN called ELSE gave
  /\ failure' = IF a.is \in {"error", "refusal"} THEN a ELSE failure
  /\ broken' = (broken \/ a = Break)
  /\ UNCHANGED <<members, path, entered, outcome, sync, began, asked, dropped, shifted>>

\* A composite answers what contains it.
DepartUnrestored(a) ==                                                     \* mutant
  /\ entered' = Around
  /\ path' = IF Innermost.handles /\ a.is # "result" THEN Innermost.path ELSE path
  /\ IF Around = <<>> THEN outcome' = a /\ reply' = None ELSE reply' = a /\ UNCHANGED outcome
  /\ UNCHANGED <<members, called>>
Depart(a) ==
  /\ entered' = Around
  /\ path' = IF Innermost.handles THEN Innermost.path ELSE path
  /\ IF Around = <<>> THEN outcome' = a /\ reply' = None ELSE reply' = a /\ UNCHANGED outcome
  /\ UNCHANGED <<members, called>>

LastMemberTried ==
  /\ Between /\ ~HasMore
  /\ Depart(Innermost.error) /\ UNCHANGED histories

GoOn(error, failed) ==
  /\ entered' = Append(Around, [Innermost EXCEPT !.index = @ + 1, !.error = error, !.failed = failed])
  /\ reply' = None
  /\ UNCHANGED <<members, path, called, outcome>>

Simple == Innermost.of \notin Prioritised
HasError == reply.is \in {"error", "refusal"}
Answered == entered # <<>> /\ reply # None

\* handle(): a standard middleware has answered.
AfterStandard ==
  /\ Answered /\ Innermost.handles /\ ~Innermost.failed
  /\ \/ reply = Unhandled /\ GoOn(Innermost.error, FALSE)
     \/ HasError /\ GoOn(reply, reply.is = "error")
     \/ reply = Break /\ Depart(IF Simple /\ ~sync THEN BreakResult ELSE Unhandled)
     \/ reply.is = "result" /\ Depart(reply)
  /\ UNCHANGED histories

\* handle(): an error middleware has answered.  Without priorities a result is
\* thrown as it is, where { success: result } is expected.
AfterError ==
  /\ Answered /\ Innermost.handles /\ Innermost.failed
  /\ \/ reply = Unhandled /\ GoOn(Innermost.error, TRUE)
     \/ HasError /\ GoOn(reply, TRUE)
     \/ reply = Break /\ Depart(Unhandled)
     \/ reply.is = "result" /\ ~Simple /\ Depart(reply)
     \/ reply = BreakResult /\ Simple /\ Depart(Unhandled)
     \/ reply = NoResult /\ Simple /\ Depart(Innermost.error)
     \/ reply.is = "result" /\ reply \notin {BreakResult, NoResult} /\ Simple /\ Depart(NoResult)
  /\ dropped' = (dropped \/ (reply.is = "result" /\ Simple))
  /\ UNCHANGED <<sync, began, asked, gave, failure, broken, shifted>>

\* handleError(): the synchronous composite without priorities runs its members
\* in asynchronous functions, and hears nothing of what they throw.
AfterHandleError ==
  /\ Answered /\ ~Innermost.handles
  /\ \/ reply = Unhandled /\ GoOn(Innermost.error, TRUE)
     \/ HasError /\ GoOn(reply, TRUE)
     \/ reply = Break /\ (IF Simple /\ sync THEN GoOn(Innermost.error, TRUE) ELSE Depart(BreakResult))
     \/ reply.is = "result" /\ (IF Simple /\ sync THEN GoOn(Innermost.error, TRUE) ELSE Depart(reply))
  /\ dropped' = (dropped \/ (reply.is = "result" /\ Simple /\ sync))
  /\ UNCHANGED <<sync, began, asked, gave, failure, broken, shifted>>

\* useMiddleware(), called by the middleware that runs, or by anyone while the
\* reply of an asynchronous one is awaited: with priorities, the stack is
\* sorted in place.
UseMiddleware(c, l, p) ==
  LET s == members[c]
      entry == [priority |-> IF c \in Prioritised THEN p ELSE 0, node |-> l]
      before == {i \in DOMAIN s : c \in Prioritised => s[i].priority <= p}
      place == Cardinality(before) + 1
  IN  /\ (sync /\ entered # <<>>) => called # None
      /\ \A d \in Composites : \A m \in ToSet(members[d]) : m.node # l
      /\ members' = [members EXCEPT ![c] = InsertAt(s, place, entry)]
      /\ shifted' = (shifted \/ \E f \in ToSet(entered) : f.of = c /\ place <= f.index)
      /\ UNCHANGED <<sync, path, entered, called, reply, outcome, began, asked, gave, failure, broken, dropped>>

MiddlewaresNext ==
  \/ Skip \/ CallMember \/ EnterHandle \/ EnterHandleError \/ LastMemberTried
  \/ \E a \in {Unhandled, Failure(called), Refusal(called), Break, Result(called)} : Answers(a)
  \/ AfterStandard \/ AfterError \/ AfterHandleError
  \/ \E c \in Composites, l \in Spares, p \in Priorities : UseMiddleware(c, l, p)

MiddlewaresSpec == MiddlewaresInit /\ [][MiddlewaresNext]_middlewaresVars

------------------------------------------------------------------------------
MiddlewaresTypeOK ==
  /\ {sync, broken, dropped, shifted} \subseteq BOOLEAN
  /\ called \in Handlers \union ErrorHandlers \union {None}
  /\ ToSet(asked) \subseteq Handlers \union ErrorHandlers
  /\ \A f \in ToSet(entered) : f.of \in Composites /\ f.index \in 1..Len(members[f.of]) + 1

\* The result a middleware gives is the outcome, and no middleware is called
\* after it, however deep that was, unless a composite without priorities
\* dropped it.
ResultIsTheOutcome ==
  /\ gave # None /\ ~dropped => called = None
  /\ outcome # None /\ gave # None /\ ~dropped => outcome = Result(gave)
  /\ outcome # None /\ gave = None => outcome.is # "result" \/ (outcome = BreakResult /\ broken)

\* A request nobody handled fails with the last error anyone returned, unless
\* 'break' was said; and after an Error no standard middleware is called.
ErrorsAreKept ==
  /\ outcome # None /\ gave = None /\ ~broken =>
       outcome = IF failure = None THEN Unhandled ELSE failure
  /\ called \in Handlers /\ ~broken /\ ~dropped /\ failure # None => failure.is = "refusal"
  /\ called \in ErrorHandlers => failure # None

\* No middleware is called twice for a request, unless one was added before
\* those that had been tried.
CalledOnce == ~shifted => IsInjective(asked)

\* Whatever the end of the routes it is sent through, a request gets its path
\* back, and a middleware sees what is left of it.
PathIsRestored ==
  LET routes == {k \in DOMAIN entered : entered[k].handles /\ RouteOf[entered[k].of] # None}
  IN  path = SubSeq(began, Cardinality(routes) + 1, Len(began))

RequestsAreAnswered ==
  MiddlewaresTypeOK /\ ResultIsTheOutcome /\ ErrorsAreKept /\ CalledOnce /\ PathIsRestored
==============================================================================
