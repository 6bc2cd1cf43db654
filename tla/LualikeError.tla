---- MODULE LualikeError ----
(***************************************************************************)
(* Error (error.cc): objects that are created, wrapped, given a source     *)
(* text, copied, moved, asked what() they are, and destroyed.  cached_what_*)
(* is mutable and filled by what(); the operations differ in what they do  *)
(* to it.                                                                  *)
(***************************************************************************)
EXTENDS LualikeErrorChain

CONSTANTS
    Handles,        \* the places an Error can be in
    Nodes,          \* the ContextErrors to make
    SourceTexts,
    MaxChain        \* bound on the length of a chain

VARIABLES
    errors,     \* the object in each place: a sequence of at most one
    told        \* what the last call of what() returned

vars == <<errors, told>>

Object(root, text, cached) ==
    <<[root_ |-> root, source_text_ |-> text, cached_what_ |-> cached]>>

(* The state a moved-from Error is left in.                                *)
Empty == Object(<<>>, <<>>, <<>>)

Lives(h) == errors[h] # <<>>
The(h) == errors[h][1]

Become(h, object) == errors' = [errors EXCEPT ![h] = object] /\ UNCHANGED told

----------------------------------------------------------------------------
Init == errors = [h \in Handles |-> <<>>] /\ told = <<>>

(* Message, Context, FromException and FromCurrentException                *)
Create(h) == ~Lives(h) /\ \E n \in Nodes : Become(h, Object(<<n>>, <<>>, <<>>))

(* Faulty: the text what() has made stays.                                 *)
FaultyWrap(h) ==
    /\ Lives(h) /\ Len(The(h).root_) < MaxChain
    /\ \E n \in Nodes :
           /\ n.foreign = <<>>
           /\ Become(h, Object(<<n>> \o The(h).root_, The(h).source_text_,
                               The(h).cached_what_))

(* The overloads of Wrap, none of which takes an exception.                *)
Wrap(h) ==
    /\ Lives(h) /\ Len(The(h).root_) < MaxChain
    /\ \E n \in Nodes :
           /\ n.foreign = <<>>
           /\ Become(h, Object(<<n>> \o The(h).root_, The(h).source_text_, <<>>))

(* Faulty: the text of the last caller is taken.                           *)
FaultyTextAfter(object, text) == text

TextAfter(object, text) ==
    IF object.source_text_ = <<>> THEN text ELSE object.source_text_

AttachSourceText(h) ==
    /\ Lives(h)
    /\ \E t \in SourceTexts :
           Become(h, Object(The(h).root_, TextAfter(The(h), t), The(h).cached_what_))

(* Error(const Error&), and operator= for h that lives; assigning an Error *)
(* to itself leaves it as it is.                                           *)
Copy(g, h) == Lives(g) /\ Become(h, errors[g])

(* The defaulted move operations.                                          *)
Move(g, h) ==
    /\ g # h /\ Lives(g)
    /\ errors' = [errors EXCEPT ![h] = errors[g], ![g] = Empty]
    /\ UNCHANGED told

Destroy(h) == Lives(h) /\ Become(h, <<>>)

What(h) ==
    /\ Lives(h)
    /\ LET text == IF The(h).cached_what_ = <<>> THEN BuildWhat(The(h).root_)
                   ELSE The(h).cached_what_
       IN  /\ errors' = [errors EXCEPT ![h] =
                            Object(The(h).root_, The(h).source_text_, text)]
           /\ told' = text

(* BuildWhat throws, for want of memory.                                   *)
WhatWithoutMemory(h) ==
    /\ Lives(h) /\ The(h).cached_what_ = <<>>
    /\ told' = IF The(h).root_ = <<>> THEN <<"unknown error">>
               ELSE <<The(h).root_[1].message>>
    /\ UNCHANGED errors

Next ==
    \/ \E h \in Handles :
           \/ Create(h) \/ Wrap(h) \/ AttachSourceText(h) \/ Destroy(h)
           \/ What(h) \/ WhatWithoutMemory(h)
    \/ \E g, h \in Handles : Copy(g, h) \/ Move(g, h)

Spec == Init /\ [][Next]_vars

----------------------------------------------------------------------------
(* The text what() has kept is still what the chain says, whatever was     *)
(* wrapped, copied or moved since.                                         *)
CacheIsFresh ==
    \A h \in Handles :
        Lives(h) => The(h).cached_what_ \in {<<>>, BuildWhat(The(h).root_)}

(* The mapping, for one object and for all of them.                        *)
Seen(object) ==
    IF object = <<>> THEN <<>>
    ELSE <<[chain |-> object[1].root_, text |-> object[1].source_text_]>>
Reports == [h \in Handles |-> Seen(errors[h])]

Visible == INSTANCE ErrorReport WITH reports <- Reports

(* An Error behaves as one that keeps no text: the cache cannot be seen,   *)
(* the first source text attached stays, and a copy is independent of the  *)
(* object it was made from.                                                *)
ImplementsErrorReport == Visible!Spec
====
