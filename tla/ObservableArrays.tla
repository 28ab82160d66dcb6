--------------------------- MODULE ObservableArrays ---------------------------
(***************************************************************************)
(* ObservableArray (packages/core/src/observables/array.ts): arrays that   *)
(* tell their listeners how they change, and the result of an              *)
(* AsyncArrayFormatter, an array that follows the value it was given last. *)
(*                                                                         *)
(* Everything but the answers of promises is synchronous, and a listener   *)
(* of the program may call every method again while it runs: the stack     *)
(* holds the emissions in progress, innermost last, each with the          *)
(* listeners it has still to call and what its method does after it.  The  *)
(* accessors array[i] and the listeners of the result are left out.        *)
(***************************************************************************)
EXTENDS Integers, Sequences, SequencesExt, FiniteSetsExt, Filter

CONSTANTS
  Arrays,      \* observable arrays of the program
  Plains,      \* its arrays that are not observed, which it does not change
  Promises,    \* promises of any of them
  Items,       \* numbers, so that they can be sorted
  Nothing,     \* null, or undefined; what stands where an array has no item
  MaxLength,   \* bound: length of the arrays
  MaxNested,   \* bound: emissions in progress
  MaxMethods   \* bound: calls of methods

ASSUME ArraysAssumption ==
  /\ Items \subseteq Nat /\ {MaxLength, MaxNested, MaxMethods} \subseteq Nat
  /\ Nothing \notin Items \union Arrays \union Plains \union Promises

Slots == Items \union {Nothing}

VARIABLES
  array,      \* the items of each array
  result,     \* those of the formatter's result
  listening,  \* the listeners of each observable array, in order
  value,      \* the formatter's this.value
  promise,    \* the formatter's this.promise
  waiting,    \* promises whose answer the formatter waits for
  emitting,   \* the stack of emissions in progress
  methods,    \* how many methods the program has called
  latest,     \* history: what format() was given last, or what that promise answered
  overtaken,  \* history: a promise answered after a later value, or was given again in vain
  strayed     \* history: the result heard of changes in another order than they
              \* came, or of other changes than there were

arraysVars ==
  <<array, result, listening, value, promise, waiting, emitting, methods, latest, overtaken, strayed>>

\* Items given to a method, in no order of their own.
Given ==
  {<<>>} \union {<<x>> : x \in Items}
         \union UNION {{<<x, y>> : y \in {z \in Items : z < x}} : x \in Items}

\* Array.prototype.splice, for whole numbers.
JsSplice(s, start, count, items) ==
  LET from == IF start < 0 THEN Max({Len(s) + start, 0}) ELSE Min({start, Len(s)})
      gone == Max({0, Min({count, Len(s) - from})})
  IN  [array |-> SubSeq(s, 1, from) \o items \o SubSeq(s, from + gone + 1, Len(s)), gone |-> gone,
       removed |-> SubSeq(s, from + 1, from + gone)]

\* One place is written after the other.
WriteAll(s, places) ==
  LET written[n \in 0..Len(places)] ==
        IF n = 0 THEN s ELSE JsSplice(written[n - 1], places[n].index, 1, <<places[n].item>>).array
  IN  written[Len(places)]
PlacesFrom(start, items) == [i \in 1..Len(items) |-> [index |-> start + i - 1, item |-> items[i]]]

\* What a method does to an array, and the event that tells it.
Change(s, e) == [array |-> s, event |-> e]
Pushed(s, items) == Change(s \o items, [action |-> "push", items |-> items])
Unshifted(s, items) == Change(items \o s, [action |-> "unshift", items |-> items])
Popped(s, n) ==
  LET j == JsSplice(s, Len(s) - n, n, <<>>) IN Change(j.array, [action |-> "pop", count |-> j.gone])
Shifted(s, n) ==
  LET j == JsSplice(s, 0, n, <<>>) IN Change(j.array, [action |-> "shift", count |-> j.gone])
Replaced(s, places) == Change(WriteAll(s, places), [action |-> "replace", places |-> places])
\* The places without an item come last.  The event names the items that are
\* others than before; map() passes over the places where there is none now.
Sortings(s) ==
  {t \in {[i \in DOMAIN s |-> s[q[i]]] : q \in Bijection(DOMAIN s, DOMAIN s)} :
     \A i, j \in DOMAIN t : i < j /\ t[j] # Nothing => t[i] # Nothing /\ t[i] <= t[j]}
Sorted(s, t) ==
  LET all == PlacesFrom(0, t) IN
  Change(t, [action |-> "replace", places |-> Filtered(all, {p \in ToSet(all) : p.item \notin {Nothing, s[p.index + 1]}})])
\* As many items as are removed: the event names those that were there.  It is
\* broken where there was none, and can be read up to there.
Overwritten(s, start, items) ==
  LET j == JsSplice(s, start, Len(items), items)
      places == PlacesFrom(start, SubSeq(items, 1, j.gone))
      holes == {i \in DOMAIN j.removed : j.removed[i] = Nothing}
  IN  Change(j.array,
             IF holes = {} THEN [action |-> "replace", places |-> places]
             ELSE [action |-> "broken", places |-> SubSeq(places, 1, Min(holes) - 1)])
\* The length of an array is set.
Resized(s, n) ==
  IF n <= Len(s) THEN SubSeq(s, 1, n) ELSE s \o [i \in 1..(n - Len(s)) |-> Nothing]

\* What the result does when it hears an event.
Heard(s, e) ==
  CASE e.action = "push" -> Pushed(s, e.items).array
    [] e.action = "unshift" -> Unshifted(s, e.items).array
    [] e.action = "pop" -> Popped(s, e.count).array
    [] e.action = "shift" -> Shifted(s, e.count).array
    [] e.action \in {"replace", "broken"} -> WriteAll(s, e.places)

------------------------------------------------------------------------------
\* What a method does once its emission is over.
NoMore == [do |-> "nothing"]
PushMore(items) == [do |-> "push", items |-> items]
PopMore(n) == [do |-> "pop", count |-> n]
Cut(n) == [do |-> "cut", length |-> n]

Innermost == Last(emitting)
InProgram == emitting # <<>> => Innermost.running
Follows(a) == a \in Arrays /\ "result" \in ToSet(listening[a])
\* The result has still to hear of a change, or will not hear of it.
Unheard(stack) == \E f \in ToSet(stack) : "result" \in ToSet(f.todo)
CutComes(stack, a) == \E f \in ToSet(stack) : f.of = a /\ f.next.do = "cut"

ArraysInit ==
  /\ array \in [Arrays \union Plains -> Given \ {<<x>> : x \in Items}]
  /\ result = <<>>
  /\ listening = [a \in Arrays |-> <<>>]
  /\ value = Nothing /\ promise = Nothing /\ waiting = {}
  /\ emitting = <<>> /\ methods = 0
  /\ latest = Nothing /\ overtaken = FALSE /\ strayed = FALSE

\* Nobody but the result reads the event.
Unread == [action |-> "unread"]
Telling(a, e, next) ==
  [of |-> a, event |-> IF Follows(a) THEN e ELSE Unread,
   todo |-> listening[a], running |-> FALSE, next |-> next]

\* A method changes an array, then emits; stack holds the emissions around it.
Apply(a, c, next, stack) ==
  /\ array' = [array EXCEPT ![a] = c.array]
  /\ emitting' = Append(stack, Telling(a, c.event, next))

\* The program, or a listener of its own, calls a method of an array.
Call(a, c, next, tells) ==
  /\ InProgram /\ Len(emitting) < MaxNested /\ methods < MaxMethods /\ Len(c.array) <= MaxLength
  /\ Apply(a, c, next, emitting) /\ methods' = methods + 1
  /\ strayed' = (strayed \/ (Follows(a) /\ (~tells \/ Unheard(emitting) \/ CutComes(emitting, a))))
  /\ UNCHANGED <<result, listening, value, promise, waiting, latest, overtaken>>

Push(a, items) == Call(a, Pushed(array[a], items), NoMore, TRUE)
Unshift(a, items) == Call(a, Unshifted(array[a], items), NoMore, TRUE)
Pop(a, n) == Call(a, Popped(array[a], n), NoMore, TRUE)
Shift(a, n) == Call(a, Shifted(array[a], n), NoMore, TRUE)
ReplaceN(a, places) == Call(a, Replaced(array[a], places), NoMore, TRUE)
Sort(a) ==
  \E t \in Sortings(array[a]) :
    /\ Sorted(array[a], t).event.places # <<>>
    /\ Call(a, Sorted(array[a], t), NoMore, \A i \in DOMAIN t : t[i] = Nothing => array[a][i] = Nothing)

\* splice(): the first items replace the ones there; the others are added to
\* the end, or as many more are removed from it.
Splice(a, start, count, items) ==
  LET n == Min({count, Len(items)})
      more == SubSeq(items, n + 1, Len(items))
  IN  \/ /\ n > 0
         /\ Len(array[a]) + Len(more) <= MaxLength
         /\ Call(a, Overwritten(array[a], start, SubSeq(items, 1, n)),
                 IF more # <<>> THEN PushMore(more) ELSE IF count > n THEN PopMore(count - n) ELSE NoMore,
                 /\ start >= 0 /\ start + n <= Len(array[a])
                 /\ Nothing \notin ToSet(JsSplice(array[a], start, n, <<>>).removed))
      \/ n = 0 /\ more # <<>> /\ Push(a, more)
      \/ n = 0 /\ more = <<>> /\ count > 0 /\ Pop(a, count)

\* The length is set: the removal is told before it is done, and a longer one is
\* told as the removal of nothing.
SetLength(a, n) ==
  Call(a, Change(array[a], [action |-> "pop", count |-> Max({0, Len(array[a]) - n})]), Cut(n), TRUE)

Listen(a) ==
  /\ InProgram /\ "program" \notin ToSet(listening[a])
  /\ listening' = [listening EXCEPT ![a] = Append(@, "program")]
  /\ UNCHANGED <<array, result, value, promise, waiting, emitting, latest, overtaken, strayed, methods>>

------------------------------------------------------------------------------
\* The innermost emission calls its next listener.
Calls(l) ==
  /\ emitting # <<>> /\ ~Innermost.running
  /\ Innermost.todo # <<>> /\ Head(Innermost.todo) = l

PassedOn(f, running) == Append(Front(emitting), [f EXCEPT !.todo = Tail(@), !.running = running])
Heeded(f) == [PassedOn(f, FALSE) EXCEPT ![Len(emitting)].event = Unread]

CallProgram ==
  /\ Calls("program")
  /\ emitting' = PassedOn(Innermost, TRUE)
  /\ UNCHANGED <<array, result, listening, value, promise, waiting, latest, overtaken, strayed, methods>>

ProgramReturns ==
  /\ emitting # <<>> /\ Innermost.running
  /\ emitting' = Append(Front(emitting), [Innermost EXCEPT !.running = FALSE])
  /\ UNCHANGED <<array, result, listening, value, promise, waiting, latest, overtaken, strayed, methods>>

\* A listener of the program throws: those after it are not called, and the method
\* does no more.
ProgramThrows ==
  /\ emitting # <<>> /\ Innermost.running
  /\ emitting' = Front(emitting)
  /\ strayed' = (strayed \/ (Follows(Innermost.of)
                             /\ (Unheard(<<Innermost>>) \/ CutComes(<<Innermost>>, Innermost.of))))
  /\ UNCHANGED <<array, result, listening, value, promise, waiting, latest, overtaken, methods>>

\* The result hears the event, even if it has left the array since.
CallResult ==
  /\ Calls("result") /\ Innermost.event.action # "broken"
  /\ result' = Heard(result, Innermost.event)
  /\ emitting' = Heeded(Innermost)
  /\ UNCHANGED <<array, listening, value, promise, waiting, latest, overtaken, strayed, methods>>

\* What the result reads is not there: it throws in its turn.
ResultThrows ==
  /\ Calls("result") /\ Innermost.event.action = "broken"
  /\ result' = Heard(result, Innermost.event)
  /\ emitting' = Front(emitting)
  /\ strayed' = TRUE
  /\ UNCHANGED <<array, listening, value, promise, waiting, latest, overtaken, methods>>

\* All listeners are called: the method goes on.
EmissionEnds ==
  LET a == Innermost.of  next == Innermost.next  stack == Front(emitting) IN
  /\ emitting # <<>> /\ ~Innermost.running /\ Innermost.todo = <<>>
  /\ \/ next.do = "nothing" /\ emitting' = stack /\ UNCHANGED array
     \/ next.do = "push" /\ Apply(a, Pushed(array[a], next.items), NoMore, stack)
     \/ next.do = "pop" /\ Apply(a, Popped(array[a], next.count), NoMore, stack)
     \/ /\ next.do = "cut"
        /\ array' = [array EXCEPT ![a] = Resized(@, next.length)]
        /\ emitting' = stack
  /\ strayed' = (strayed \/ (Follows(a) /\ next.do # "nothing"
                             /\ (\/ Unheard(stack) \/ CutComes(stack, a)
                                 \/ next.do = "cut" /\ next.length > Len(array[a]))))
  /\ UNCHANGED <<result, listening, value, promise, waiting, latest, overtaken, methods>>

------------------------------------------------------------------------------
Alone(ls) == Filtered(ls, {"program"})

\* replaceArray() of the result: it leaves the array it followed, takes the
\* items of the other and follows it when that is observable.
ReplaceArrayKeeping(v) ==                                                 \* mutant
  /\ result' = array[v]
  /\ listening' = [a \in Arrays |-> IF a = v THEN Append(Alone(listening[a]), "result") ELSE listening[a]]
  /\ strayed' = (Unheard(emitting) \/ CutComes(emitting, v))
ReplaceArray(v) ==
  /\ result' = array[v]
  /\ listening' = [a \in Arrays |-> IF a = v THEN Append(Alone(listening[a]), "result") ELSE Alone(listening[a])]
  /\ strayed' = (Unheard(emitting) \/ CutComes(emitting, v))

\* format() of an array.
Format(v) ==
  /\ InProgram
  /\ latest' = v /\ overtaken' = FALSE
  /\ IF value = v
     THEN UNCHANGED <<value, result, listening, strayed>>
     ELSE value' = v /\ ReplaceArray(v)
  /\ UNCHANGED <<array, promise, waiting, emitting, methods>>

\* format() of a promise: the result is emptied, unless it is empty.  In that
\* case it goes on following the array it follows.
FormatPromise(p) ==
  /\ InProgram
  /\ latest' = p
  /\ IF promise = p
     THEN overtaken' = (overtaken \/ latest # p) /\ UNCHANGED <<promise, value, result, listening, waiting, strayed, methods>>
     ELSE /\ promise' = p /\ value' = Nothing /\ waiting' = waiting \union {p}
          /\ overtaken' = FALSE
          /\ IF result = <<>>
             THEN UNCHANGED <<result, listening, strayed>>
             ELSE /\ result' = <<>>
                  /\ listening' = [a \in Arrays |-> Alone(listening[a])]
                  /\ strayed' = Unheard(emitting)
  /\ UNCHANGED <<array, emitting, methods>>

\* Nothing checks that the promise is still the one given last.
PromiseAnswers(p, v) ==
  /\ emitting = <<>> /\ p \in waiting
  /\ waiting' = waiting \ {p}
  /\ value' = v /\ ReplaceArray(v)
  /\ IF latest = p
     THEN latest' = v /\ UNCHANGED overtaken
     ELSE overtaken' = TRUE /\ UNCHANGED latest
  /\ UNCHANGED <<array, promise, emitting, methods>>

\* A failure is logged.
PromiseFails(p) ==
  /\ emitting = <<>> /\ p \in waiting
  /\ waiting' = waiting \ {p}
  /\ UNCHANGED <<array, result, listening, value, promise, emitting, latest, overtaken, strayed, methods>>

ArraysNext ==
  \/ \E a \in Arrays :
       \/ \E x \in Items : Push(a, <<x>>) \/ Unshift(a, <<x>>)
       \/ \E n \in 1..MaxLength + 1 : Pop(a, n) \/ Shift(a, n) \/ SetLength(a, n - 1)
       \/ \E i, j \in 0..1, x \in Items :
            ReplaceN(a, <<[index |-> i, item |-> x], [index |-> j, item |-> x]>>)
       \/ Sort(a)
       \/ \E start \in -1..1, n \in 0..MaxLength, items \in Given : Splice(a, start, n, items)
       \/ Listen(a)
  \/ CallProgram \/ ProgramReturns \/ ProgramThrows \/ CallResult \/ ResultThrows \/ EmissionEnds
  \/ \E v \in Arrays \union Plains : Format(v) \/ \E p \in Promises : PromiseAnswers(p, v)
  \/ \E p \in Promises : FormatPromise(p) \/ PromiseFails(p)

ArraysSpec == ArraysInit /\ [][ArraysNext]_arraysVars

------------------------------------------------------------------------------
ArraysTypeOK ==
  /\ \A a \in Arrays \union Plains : array[a] \in Seq(Slots)
  /\ result \in Seq(Slots)
  /\ \A a \in Arrays : listening[a] \in Seq({"program", "result"}) /\ IsInjective(listening[a])
  /\ value \in Arrays \union Plains \union {Nothing}
  /\ promise \in Promises \union {Nothing} /\ waiting \subseteq Promises
  /\ Len(emitting) <= MaxNested
  /\ latest \in Arrays \union Plains \union Promises \union {Nothing}
  /\ {overtaken, strayed} \subseteq BOOLEAN

\* Between two turns the result has the items of the value it shows, whatever
\* was done to that array before and after it began to follow it, and whatever
\* listeners threw, but for the cases that strayed names: a change by a listener
\* while another is told, a place told that was not written, a length that grew,
\* places without an item that were sorted or written, and an emission that was
\* given up before the result heard it or the array was cut.
ShowsTheValue == emitting = <<>> /\ value # Nothing /\ ~strayed => result = array[value]

\* The result follows the value it shows and no array it showed before; while
\* it waits for a promise, it follows at most one, which was empty.
FollowsTheValue ==
  /\ value # Nothing => {a \in Arrays : Follows(a)} = {value} \intersect Arrays
  /\ \A a, b \in Arrays : Follows(a) /\ Follows(b) => a = b

\* Once its promise has answered, the formatter shows what it was given last,
\* unless an earlier promise answered after it.
ShowsTheLatest == latest \notin Promises /\ ~overtaken => value = latest

ArraysFollow == ArraysTypeOK /\ ShowsTheValue /\ FollowsTheValue /\ ShowsTheLatest
==============================================================================
