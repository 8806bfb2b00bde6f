---- MODULE Vectors ----
(***************************************************************************)
(* The growing vectors of the kernel (Kiwi, lib/vector.hpp) and of the     *)
(* programs' library (Melon, vector.hpp) over their buffers of raw slots.  *)
(*                                                                         *)
(* A vector has a buffer, a count of objects and a capacity of its own.    *)
(* Both libraries run the same code but for a call that leaves its bounds: *)
(* Melon throws, Kiwi returns and goes on.                                 *)
(***************************************************************************)
EXTENDS Integers, Sequences

CONSTANTS Vecs,      \* the vectors of a program
          Objects,   \* what they hold
          MaxCount   \* bound on the objects of one vector

VARIABLES vec,       \* each vector
          held       \* the objects each one was given to keep, in order
vectorVars == <<vec, held>>

Raw == "raw"

----------------------------------------------------------------------------
(* buffer.hpp: slots whose index is below the size *)

allocate(size) == [i \in 1..size |-> Raw]
construct(buf, index, object) ==
  IF index >= Len(buf) THEN buf ELSE [buf EXCEPT ![index + 1] = object]
destroy(buf, index) ==
  IF index >= Len(buf) THEN buf ELSE [buf EXCEPT ![index + 1] = Raw]

\* Buffer::resize of the kernel: the slots both sizes have are kept.
resizeBuffer(buf, size) == [i \in 1..size |-> IF i <= Len(buf) THEN buf[i] ELSE Raw]

----------------------------------------------------------------------------
(* vector.hpp *)

Vector(buf, count, capacity) == [buf |-> buf, count |-> count, capacity |-> capacity]
Empty == Vector(allocate(1), 0, 1)
Moved == Vector(<<>>, 0, 0)
FirstSlots(v, n) == SubSeq(v.buf, 1, n)

\* Mutant of extend: the objects stay in the buffer that is given up.
ExtendAndForget(v) == Vector(allocate(2 * v.capacity), v.count, 2 * v.capacity)

\* Twice the capacity; a capacity of zero stays zero.
extend(v) ==
  Vector(FirstSlots(v, v.count) \o allocate(2 * v.capacity - v.count), v.count, 2 * v.capacity)

Grown(v) == IF v.count >= v.capacity THEN extend(v) ELSE v

Copied(v) == Vector(FirstSlots(v, v.count) \o allocate(v.capacity - v.count), v.count, v.capacity)

Outside == "outside"
Item(v, index) == IF index >= v.count THEN Outside ELSE v.buf[index + 1]
Contains(v, object) == \E i \in 1..v.count : v.buf[i] = object
Same(v, other) == /\ v.count = other.count
                  /\ \A i \in 1..v.count : v.buf[i] = other.buf[i]
toBuffer(v) == [i \in 1..v.count |-> construct(allocate(v.count), i - 1, v.buf[i])[i]]

VectorInit == vec = [a \in Vecs |-> Empty] /\ held = [a \in Vecs |-> <<>>]

\* An object counted without a slot: the next access to the buffer panics.
Panics(a) == vec[a].count > Len(vec[a].buf)

Becomes(a, v, objects) == vec' = [vec EXCEPT ![a] = v] /\ held' = [held EXCEPT ![a] = objects]

\* construct throws in front of the count when the buffer has no slot.
pushBack(a, object) ==
  LET v == Grown(vec[a]) IN
  /\ Len(held[a]) < MaxCount
  /\ IF v.count < Len(v.buf)
     THEN Becomes(a, [v EXCEPT !.buf = construct(@, v.count, object), !.count = @ + 1],
                  Append(held[a], object))
     ELSE Becomes(a, v, held[a])

\* construct returns FALSE, which nobody reads, and the object is counted all the same.
KiwiPushBack(a, object) ==
  LET v == Grown(vec[a]) IN
  /\ ~Panics(a) /\ Len(held[a]) < MaxCount
  /\ Becomes(a, [v EXCEPT !.buf = construct(@, v.count, object), !.count = @ + 1],
             Append(held[a], object))

\* An empty vector throws, or gives a default object, and stays as it is.
popBack(a) ==
  /\ vec[a].count > 0 /\ ~Panics(a)
  /\ Becomes(a, [vec[a] EXCEPT !.buf = destroy(@, vec[a].count - 1), !.count = @ - 1],
             SubSeq(held[a], 1, Len(held[a]) - 1))

erase(a, index) ==
  LET v == vec[a] IN
  /\ index < v.count /\ ~Panics(a)
  /\ Becomes(a,
       Vector(destroy([i \in DOMAIN v.buf |->
                         IF i > index /\ i < v.count THEN v.buf[i + 1] ELSE v.buf[i]],
                      v.count - 1),
              v.count - 1, v.capacity),
       SubSeq(held[a], 1, index) \o SubSeq(held[a], index + 2, Len(held[a])))

clear(a) ==
  Becomes(a, Vector([i \in DOMAIN vec[a].buf |-> IF i <= vec[a].count THEN Raw ELSE vec[a].buf[i]],
                    0, vec[a].capacity),
          <<>>)

\* Kiwi only: the objects behind the new size are destroyed and forgotten.
\* What a vector without slots counts is not followed any further.
resize(a, size) ==
  LET v == vec[a]
      count == IF size < v.count THEN size ELSE v.count
  IN  /\ ~Panics(a)
      /\ Becomes(a, Vector(resizeBuffer(v.buf, size), count, size), SubSeq(held[a], 1, count))

copyAssign(a, other) ==
  /\ a # other /\ ~Panics(other)
  /\ Becomes(a, Copied(vec[other]), held[other])

\* The other vector is left without a slot and with capacity zero.
moveAssign(a, other) ==
  /\ a # other
  /\ vec' = [vec EXCEPT ![a] = vec[other], ![other] = Moved]
  /\ held' = [held EXCEPT ![a] = held[other], ![other] = <<>>]

MelonNext ==
  \E a \in Vecs :
    \/ \E object \in Objects : pushBack(a, object)
    \/ popBack(a) \/ clear(a)
    \/ \E index \in 0..MaxCount : erase(a, index)
    \/ \E other \in Vecs : copyAssign(a, other) \/ moveAssign(a, other)

KiwiNext ==
  \E a \in Vecs :
    \/ \E object \in Objects : KiwiPushBack(a, object)
    \/ popBack(a) \/ clear(a)
    \/ \E index \in 0..MaxCount : erase(a, index) \/ resize(a, index)
    \/ \E other \in Vecs : copyAssign(a, other) \/ moveAssign(a, other)

----------------------------------------------------------------------------

\* A vector has a slot for all it counts, and holds what it was given, in order,
\* however it is looked at.
Keeps(a) ==
  LET v == vec[a]
  IN  /\ v.count <= v.capacity /\ v.capacity = Len(v.buf)
      /\ toBuffer(v) = held[a]
      /\ \A i \in 0..MaxCount :
           Item(v, i) = IF i < Len(held[a]) THEN held[a][i + 1] ELSE Outside
      /\ \A object \in Objects :
           Contains(v, object) = \E i \in DOMAIN held[a] : held[a][i] = object

WithoutSlot(a) == vec[a].capacity = 0 /\ vec[a].buf = <<>>

\* Vectors that keep their objects are the same when they were given the same.
Compared == \A a, b \in Vecs : Keeps(a) /\ Keeps(b) =>
              (Same(vec[a], vec[b]) <=> held[a] = held[b])

\* A kernel vector whose slots a move or a resize took counts what it cannot hold.
MelonKeepsObjects == Compared /\ \A a \in Vecs : Keeps(a)
KiwiKeepsObjects == Compared /\ \A a \in Vecs : Keeps(a) \/ WithoutSlot(a)
====
