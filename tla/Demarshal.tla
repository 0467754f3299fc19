------------------------------ MODULE Demarshal ------------------------------
(***************************************************************************)
(* Reading a reply: demarshallElement() and extractBasic() of              *)
(* src/dbus/dbusbridge.cpp over a QDBusArgument, whose iterators move only *)
(* as far as the calls push them.                                          *)
(*                                                                         *)
(* The elements of a reply are numbered in the order they are written;     *)
(* element n reaches to reply.last[n], the last element nested in it, and  *)
(* reply.up[n] is the container that holds it.  An array and a structure   *)
(* are both read by the branch of ArrayType; a dictionary entry is a       *)
(* container of its own, with a key and a value; "unknown" is a wire type  *)
(* extractBasic() or demarshallElement() cannot read, which stays unread.  *)
(***************************************************************************)
EXTENDS Integers, Sequences

CONSTANT Replies    \* what services may answer

Leaves     == {"basic", "unknown"}
Containers == {"variant", "array", "map", "entry"}

Elements(r) == 1 .. Len(r.kind)

Holds(r, c, n) == c < n /\ n <= r.last[c]

\* Elements nest: an element is in the container it is said to be in, and within
\* every container that has room for its number.
IsNested(r) ==
    \A n \in Elements(r) :
        /\ n <= r.last[n]
        /\ r.kind[n] \in Leaves => r.last[n] = n
        /\ n > 1 => Holds(r, r.up[n], n)
        /\ \A c \in 1 .. n - 1 :
            Holds(r, c, n) => /\ c <= r.up[n] /\ r.last[n] <= r.last[c]
                              /\ r.kind[c] \in Containers

\* Entries are in maps, and hold a key that is no container and a value; a
\* variant holds one element.
IsSpelled(r) ==
    \A n \in Elements(r) :
        /\ n > 1 => (r.kind[n] = "entry" <=> r.kind[r.up[n]] = "map")
        /\ r.kind[n] = "variant" => r.last[n] > n /\ r.last[n + 1] = r.last[n]
        /\ r.kind[n] = "entry" => /\ r.last[n] > n + 1
                                 /\ r.kind[n + 1] \in Leaves
                                 /\ r.last[n + 2] = r.last[n]

\* What QtDBus hands out: one element with what is nested in it.
IsReply(r) ==
    /\ r.kind \in Seq(Leaves \cup Containers) /\ r.kind # <<>>
    /\ r.last \in [Elements(r) -> Elements(r)]
    /\ r.up \in [Elements(r) -> {0} \cup Elements(r)]
    /\ r.last[1] = Len(r.kind) /\ r.up[1] = 0 /\ r.kind[1] # "entry"
    /\ \A n \in Elements(r) : n > 1 => r.up[n] \in 1 .. n - 1
    /\ IsNested(r)
    /\ IsSpelled(r)

ASSUME RepliesAssumption == \A r \in Replies : IsReply(r)

VARIABLES
    reply,      \* the reply being read
    inside,     \* the container being read, 0 for none: the current QDBusArgument
    at,         \* where the iterator of each level stands, at[0] the outermost
    consumed,   \* FALSE once an element of the current container stayed unread
    json,       \* the elements of the JSON value, in the order they were met
    done

replyVars == <<reply, inside, at, consumed, json, done>>

ReplyInit ==
    /\ reply \in Replies
    /\ inside = 0
    /\ at = [n \in 0 .. Len(reply.kind) |-> 1]
    /\ consumed = TRUE
    /\ json = <<>>
    /\ done = FALSE

-----------------------------------------------------------------------------
(* QtDBus. *)

\* The element the iterator stands on.
Current == at[inside]

\* argument.atEnd(), for the container being read.
AtEnd == at[inside] > reply.last[inside]

\* argument >> v with the type of the element: the iterator goes on.
Step == [at EXCEPT ![inside] = Current + 1]

\* begin*(): the iterator of the parent moves past the container, and a new one
\* stands on its first element.
Recurse == [at EXCEPT ![inside] = reply.last[Current] + 1, ![Current] = Current + 1]

-----------------------------------------------------------------------------
(* demarshallElement(). *)

\* The loop of the container goes on.
Reading == ~done /\ consumed /\ (inside # 0 => ~AtEnd)

\* A basic element, or the key of an entry.
ReadBasic ==
    /\ Reading
    /\ reply.kind[Current] = "basic"
    /\ json' = Append(json, Current)
    /\ at' = Step
    /\ done' = (inside = 0)
    /\ UNCHANGED <<reply, inside, consumed>>

\* An element nobody knows how to read: a marker is added, the iterator stays
\* where it is, and the loop that reads the container ends.
MeetUnknown ==
    /\ Reading
    /\ reply.kind[Current] = "unknown"
    /\ json' = Append(json, Current)
    /\ consumed' = FALSE
    /\ done' = (inside = 0)
    /\ UNCHANGED <<reply, inside, at>>

\* beginArray(), beginStructure(), beginMap(), beginMapEntry(), or the variant.
Begin ==
    /\ Reading
    /\ reply.kind[Current] \in Containers
    /\ json' = Append(json, Current)
    /\ at' = Recurse
    /\ inside' = Current
    /\ UNCHANGED <<reply, consumed, done>>

\* Mutant of ConsumedBy: a truncated container ends the loop of its parent too.
ConsumedWhole(container) == consumed

\* A container counts as consumed for the one that holds it, an entry only when
\* both its parts were.
ConsumedBy(container) == reply.kind[container] = "entry" => consumed

\* Mutant of End: an element that stayed unread does not end the loop.
EndAtEnd ==
    /\ ~done /\ inside # 0
    /\ AtEnd
    /\ inside' = reply.up[inside]
    /\ consumed' = ConsumedBy(inside)
    /\ done' = (inside' = 0)
    /\ UNCHANGED <<reply, at, json>>

\* endArray(), ..., back to the iterator of the parent.
End ==
    /\ ~done /\ inside # 0
    /\ AtEnd \/ ~consumed
    /\ inside' = reply.up[inside]
    /\ consumed' = ConsumedBy(inside)
    /\ done' = (inside' = 0)
    /\ UNCHANGED <<reply, at, json>>

ReplyNext == ReadBasic \/ MeetUnknown \/ Begin \/ End

ReplySpec == ReplyInit /\ [][ReplyNext]_replyVars

\* The recursion runs on one thread.
ReplyFairSpec == ReplySpec /\ WF_replyVars(ReplyNext)

-----------------------------------------------------------------------------
(* Properties. *)

\* The container an unknown element n ends: the one whose loop it is in, a map
\* for the key or the value of an entry.
Ends(r, n) ==
    IF n > 1 /\ r.kind[r.up[n]] = "entry" THEN r.up[r.up[n]] ELSE r.up[n]

\* Element n is behind an unknown one in the same loop, or nested in one that is.
Lost(r, n) ==
    \E u \in Elements(r) :
        /\ r.kind[u] = "unknown" /\ u > 1 /\ u < n
        /\ n <= r.last[Ends(r, u)]

Kept(r) == {n \in Elements(r) : ~Lost(r, n)}

\* The elements are met in the order they were written, none twice.
InOrder == \A i, j \in 1 .. Len(json) : i < j => json[i] < json[j]

\* The value of a reply has every element except those behind an unknown one in
\* its own container: what follows a truncated container is there.
KeepsTheRest ==
    /\ InOrder
    /\ \A i \in 1 .. Len(json) : json[i] \in Kept(reply)
    /\ done => \A n \in Kept(reply) : \E i \in 1 .. Len(json) : json[i] = n

\* Reading ends, with every container closed, whatever stays unread.
Terminates == <>(done /\ inside = 0)
=============================================================================
