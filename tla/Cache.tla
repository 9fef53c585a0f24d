------------------------------- MODULE Cache -------------------------------
(***************************************************************************)
(* The block cache of src/cache.rs: frames of a CLOCK, each tagged with a  *)
(* table id and the block it holds.                                        *)
(***************************************************************************)
EXTENDS Integers, Sequences

CONSTANT CACHE      \* frames; 0 compiles the cache out

FreeFrame == [occupied |-> FALSE, refbit |-> FALSE, tag |-> <<>>, data |-> <<>>]
EmptyCache == [frames |-> [i \in 1 .. CACHE |-> FreeFrame], hand |-> 1]

HasTag(f, tag) == f.occupied /\ f.tag = tag
hit(ca, tag) == \E i \in DOMAIN ca.frames : HasTag(ca.frames[i], tag)

\* The image under tag, once hit.
cached(ca, tag) == ca.frames[CHOOSE i \in DOMAIN ca.frames : HasTag(ca.frames[i], tag)].data

\* A hit sets the reference bit.
get_into(ca, tag) ==
    [ca EXCEPT !.frames = [i \in DOMAIN @ |->
        IF HasTag(@[i], tag) THEN [@[i] EXCEPT !.refbit = TRUE] ELSE @[i]]]

\* Frames the hand passes before one without a reference bit; a full round
\* clears them all.
passed(ca) ==
    LET at(n) == ((ca.hand + n - 1) % CACHE) + 1
        clear == {n \in 0 .. CACHE - 1 : ~ca.frames[at(n)].refbit}
    IN  IF clear = {} THEN CACHE
        ELSE CHOOSE n \in clear : \A m \in clear : n <= m

\* A frame that already holds the tag stays; else the hand gives every set bit
\* a second chance and the first clear frame is taken.
cache_put(ca, tag, data, hot) ==
    IF CACHE = 0 THEN ca
    ELSE IF hit(ca, tag)
    THEN [ca EXCEPT !.frames = [i \in DOMAIN @ |->
            IF HasTag(@[i], tag) THEN [@[i] EXCEPT !.refbit = @ \/ hot] ELSE @[i]]]
    ELSE LET at(n) == ((ca.hand + n - 1) % CACHE) + 1
             gone == {at(n) : n \in 0 .. passed(ca) - 1}
             victim == at(passed(ca))
         IN  [hand |-> at(passed(ca) + 1),
              frames |-> [i \in DOMAIN ca.frames |->
                IF i = victim
                THEN [occupied |-> TRUE, refbit |-> hot, tag |-> tag, data |-> data]
                ELSE IF i \in gone THEN [ca.frames[i] EXCEPT !.refbit = FALSE]
                ELSE ca.frames[i]]]

\* Variant: the reference bit goes, the frame stays.
invalidate_table_bit(ca, id) ==
    [ca EXCEPT !.frames = [i \in DOMAIN @ |->
        IF @[i].occupied /\ @[i].tag[1] = id THEN [@[i] EXCEPT !.refbit = FALSE] ELSE @[i]]]

\* Drops every frame of table id.
invalidate_table(ca, id) ==
    [ca EXCEPT !.frames = [i \in DOMAIN @ |->
        IF @[i].occupied /\ @[i].tag[1] = id THEN FreeFrame ELSE @[i]]]

=============================================================================
