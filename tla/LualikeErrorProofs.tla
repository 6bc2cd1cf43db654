---- MODULE LualikeErrorProofs ----
(***************************************************************************)
(* Theorems about Error: the text what() keeps is never stale, and the     *)
(* cache cannot be seen from outside.                                      *)
(***************************************************************************)
EXTENDS LualikeError, TLAPS

(* Nothing, or an object whose cache is empty or what its chain says.      *)
IsFresh(object) ==
    \/ object = <<>>
    \/ \E root, text, cached :
           /\ object = Object(root, text, cached)
           /\ cached \in {<<>>, BuildWhat(root)}

AreFresh(objects) ==
    /\ objects = [h \in Handles |-> objects[h]]
    /\ \A h \in Handles : IsFresh(objects[h])

(* The inductive invariant: CacheIsFresh, and that every object is one.    *)
Inv == AreFresh(errors)

LEMMA ObjectFields ==
    ASSUME NEW root, NEW text, NEW cached
    PROVE  /\ Object(root, text, cached) # <<>>
           /\ Object(root, text, cached)[1].root_ = root
           /\ Object(root, text, cached)[1].source_text_ = text
           /\ Object(root, text, cached)[1].cached_what_ = cached
  BY DEF Object

(* Writing a fresh object keeps all of them fresh.                         *)
LEMMA FreshWrite ==
    ASSUME Inv, NEW h \in Handles, NEW object, IsFresh(object),
           errors' = [errors EXCEPT ![h] = object]
    PROVE  Inv'
  BY DEF Inv, AreFresh

LEMMA Initially == Init => Inv
  BY DEF Init, Inv, AreFresh, IsFresh

(* The fields of a fresh object.                                           *)
LEMMA FreshFields ==
    ASSUME Inv, NEW h \in Handles, Lives(h)
    PROVE  /\ errors[h] = Object(The(h).root_, The(h).source_text_, The(h).cached_what_)
           /\ The(h).cached_what_ \in {<<>>, BuildWhat(The(h).root_)}
  BY ObjectFields DEF Inv, AreFresh, IsFresh, Lives, The

(* Every operation leaves the caches fresh.                                *)
LEMMA StepKeepsInv ==
    ASSUME Inv, [Next]_vars
    PROVE  Inv'
  <1>1. ASSUME NEW h \in Handles, Create(h) PROVE Inv'
    <2>1. PICK n \in Nodes : Become(h, Object(<<n>>, <<>>, <<>>)) BY <1>1 DEF Create
    <2> QED BY <2>1, FreshWrite DEF Become, IsFresh
  <1>2. ASSUME NEW h \in Handles, Wrap(h) PROVE Inv'
    <2>1. PICK n \in Nodes :
              Become(h, Object(<<n>> \o The(h).root_, The(h).source_text_, <<>>))
      BY <1>2 DEF Wrap
    <2> QED BY <2>1, FreshWrite DEF Become, IsFresh
  <1>3. ASSUME NEW h \in Handles, AttachSourceText(h) PROVE Inv'
    <2>1. PICK t \in SourceTexts :
              Become(h, Object(The(h).root_, TextAfter(The(h), t), The(h).cached_what_))
      BY <1>3 DEF AttachSourceText
    <2>2. The(h).cached_what_ \in {<<>>, BuildWhat(The(h).root_)}
      BY <1>3, FreshFields DEF AttachSourceText
    <2> QED BY <2>1, <2>2, FreshWrite DEF Become, IsFresh
  <1>4. ASSUME NEW h \in Handles, Destroy(h) PROVE Inv'
    BY <1>4, FreshWrite DEF Destroy, Become, IsFresh
  <1>5. ASSUME NEW h \in Handles, What(h) PROVE Inv'
    <2> DEFINE text == IF The(h).cached_what_ = <<>> THEN BuildWhat(The(h).root_)
                       ELSE The(h).cached_what_
    <2>1. text \in {<<>>, BuildWhat(The(h).root_)} BY <1>5, FreshFields DEF What
    <2>2. errors' = [errors EXCEPT ![h] = Object(The(h).root_, The(h).source_text_, text)]
      BY <1>5 DEF What
    <2>3. IsFresh(Object(The(h).root_, The(h).source_text_, text)) BY <2>1 DEF IsFresh
    <2> QED BY <2>2, <2>3, FreshWrite
  <1>6. ASSUME NEW h \in Handles, WhatWithoutMemory(h) PROVE Inv'
    BY <1>6 DEF WhatWithoutMemory, Inv
  <1>7. ASSUME NEW g \in Handles, NEW h \in Handles, Copy(g, h) PROVE Inv'
    BY <1>7, FreshWrite DEF Copy, Become, Inv, AreFresh
  <1>8. ASSUME NEW g \in Handles, NEW h \in Handles, Move(g, h) PROVE Inv'
    <2>1. IsFresh(Empty) BY DEF IsFresh, Empty
    <2>2. \A x \in Handles : errors'[x] \in {Empty, errors[g], errors[x]}
      BY <1>8 DEF Move, Inv, AreFresh
    <2>3. errors' = [x \in Handles |-> errors'[x]] BY <1>8 DEF Move, Inv, AreFresh
    <2> QED BY <2>1, <2>2, <2>3 DEF Inv, AreFresh
  <1>9. CASE UNCHANGED vars
    BY <1>9 DEF vars, Inv
  <1> QED
    BY <1>1, <1>2, <1>3, <1>4, <1>5, <1>6, <1>7, <1>8, <1>9 DEF Next

(* The text what() has kept is never stale: no sequence of wraps, copies,  *)
(* moves and calls makes it differ from what the chain says.               *)
THEOREM CacheStaysFresh == Spec => []CacheIsFresh
  <1>1. Inv /\ [Next]_vars => Inv' BY StepKeepsInv
  <1>2. Inv => CacheIsFresh BY FreshFields DEF CacheIsFresh
  <1> QED BY Initially, <1>1, <1>2, PTL DEF Spec

----------------------------------------------------------------------------
(* A write to a place is a write to the same place of the mapped state.    *)
LEMMA SeenWrite ==
    ASSUME Inv, NEW h \in Handles, NEW object, errors' = [errors EXCEPT ![h] = object]
    PROVE  Reports' = [Reports EXCEPT ![h] = Seen(object)]
  BY DEF Inv, AreFresh, Reports

LEMMA SeenObject ==
    ASSUME NEW root, NEW text, NEW cached
    PROVE  Seen(Object(root, text, cached)) = <<[chain |-> root, text |-> text]>>
  BY DEF Seen, Object

(* What a place looks like from outside.                                   *)
LEMMA SeenPlace ==
    ASSUME NEW h \in Handles
    PROVE  /\ Lives(h) <=> Reports[h] # <<>>
           /\ Lives(h) => /\ Reports[h][1].chain = The(h).root_
                          /\ Reports[h][1].text = The(h).source_text_
  BY DEF Reports, Seen, Lives, The

(* Every step is a step of the same name of the Error without a cache.     *)
LEMMA StepRefines ==
    ASSUME Inv, [Next]_vars
    PROVE  [Visible!Next]_(Visible!vars)
  <1>1. ASSUME NEW h \in Handles, Create(h) PROVE Visible!Create(h)
    <2>1. PICK n \in Nodes : Become(h, Object(<<n>>, <<>>, <<>>)) BY <1>1 DEF Create
    <2>2. /\ Reports' = [Reports EXCEPT ![h] = Seen(Object(<<n>>, <<>>, <<>>))]
          /\ UNCHANGED told
      BY <2>1, SeenWrite DEF Become
    <2>3. Seen(Object(<<n>>, <<>>, <<>>)) = Visible!Report(<<n>>, <<>>)
      BY SeenObject DEF Visible!Report
    <2>4. Visible!New(h, Visible!Report(<<n>>, <<>>)) BY <2>2, <2>3 DEF Visible!New
    <2> QED BY <1>1, <2>4, SeenPlace DEF Create, Visible!Create
  <1>2. ASSUME NEW h \in Handles, Wrap(h) PROVE Visible!Wrap(h)
    <2>1. PICK n \in Nodes :
              /\ n.foreign = <<>>
              /\ Become(h, Object(<<n>> \o The(h).root_, The(h).source_text_, <<>>))
      BY <1>2 DEF Wrap
    <2>2. /\ Reports' = [Reports EXCEPT ![h] =
                 Seen(Object(<<n>> \o The(h).root_, The(h).source_text_, <<>>))]
          /\ UNCHANGED told
      BY <2>1, SeenWrite DEF Become
    <2>3. Visible!New(h, Visible!Report(<<n>> \o Reports[h][1].chain, Reports[h][1].text))
      BY <1>2, <2>2, SeenObject, SeenPlace DEF Wrap, Visible!New, Visible!Report
    <2> QED BY <1>2, <2>1, <2>3, SeenPlace DEF Wrap, Visible!Wrap
  <1>3. ASSUME NEW h \in Handles, AttachSourceText(h) PROVE Visible!AttachSourceText(h)
    <2>1. PICK t \in SourceTexts :
              Become(h, Object(The(h).root_, TextAfter(The(h), t), The(h).cached_what_))
      BY <1>3 DEF AttachSourceText
    <2>2. /\ Reports' = [Reports EXCEPT ![h] =
                 Seen(Object(The(h).root_, TextAfter(The(h), t), The(h).cached_what_))]
          /\ UNCHANGED told
      BY <2>1, SeenWrite DEF Become
    <2>3. Visible!New(h, Visible!Report(Reports[h][1].chain,
                  IF Reports[h][1].text = <<>> THEN t ELSE Reports[h][1].text))
      BY <1>3, <2>2, SeenObject, SeenPlace
         DEF AttachSourceText, TextAfter, Visible!New, Visible!Report
    <2> QED BY <1>3, <2>3, SeenPlace DEF AttachSourceText, Visible!AttachSourceText
  <1>4. ASSUME NEW h \in Handles, Destroy(h) PROVE Visible!Destroy(h)
    BY <1>4, SeenWrite, SeenPlace DEF Destroy, Become, Visible!Destroy, Visible!New, Seen
  <1>5. ASSUME NEW h \in Handles, What(h) PROVE Visible!What(h)
    <2> DEFINE text == IF The(h).cached_what_ = <<>> THEN BuildWhat(The(h).root_)
                       ELSE The(h).cached_what_
    <2>1. /\ errors' = [errors EXCEPT ![h] =
                           Object(The(h).root_, The(h).source_text_, text)]
          /\ told' = text /\ Lives(h)
      BY <1>5 DEF What
    <2>2. text = BuildWhat(The(h).root_) BY <2>1, FreshFields
    <2>3. Seen(Object(The(h).root_, The(h).source_text_, text)) = Reports[h]
      <3>1. errors[h] = Object(The(h).root_, The(h).source_text_, The(h).cached_what_)
        BY <2>1, FreshFields
      <3> QED BY <3>1, SeenObject DEF Reports
    <2>4. Reports' = [Reports EXCEPT ![h] = Reports[h]] BY <2>1, <2>3, SeenWrite
    <2>5. Reports' = Reports BY <2>4 DEF Reports
    <2>6. Visible!BuildWhat(The(h).root_) = BuildWhat(The(h).root_)
      BY DEF BuildWhat, Messages, Foreign, Last,
             Visible!BuildWhat, Visible!Messages, Visible!Foreign, Visible!Last
    <2> HIDE DEF text
    <2> QED BY <2>1, <2>2, <2>5, <2>6, SeenPlace DEF Visible!What, Visible!Tell
  <1>6. ASSUME NEW h \in Handles, WhatWithoutMemory(h)
        PROVE  Visible!WhatWithoutMemory(h)
    <2>1. Reports' = Reports BY <1>6 DEF WhatWithoutMemory, Reports
    <2> QED BY <1>6, <2>1, SeenPlace
            DEF WhatWithoutMemory, Visible!WhatWithoutMemory, Visible!Tell
  <1>7. ASSUME NEW g \in Handles, NEW h \in Handles, Copy(g, h) PROVE Visible!Copy(g, h)
    BY <1>7, SeenWrite, SeenPlace DEF Copy, Become, Visible!Copy, Visible!New, Reports
  <1>8. ASSUME NEW g \in Handles, NEW h \in Handles, Move(g, h) PROVE Visible!Move(g, h)
    <2>1. Seen(Empty) = Visible!Nothing
      BY SeenObject DEF Empty, Visible!Nothing, Visible!Report
    <2>2. Reports' = [Reports EXCEPT ![h] = Reports[g], ![g] = Seen(Empty)]
      BY <1>8 DEF Move, Reports, Inv, AreFresh
    <2> QED BY <1>8, <2>1, <2>2, SeenPlace DEF Move, Visible!Move
  <1>9. CASE UNCHANGED vars
    BY <1>9 DEF vars, Visible!vars, Reports
  <1> QED
    BY <1>1, <1>2, <1>3, <1>4, <1>5, <1>6, <1>7, <1>8, <1>9 DEF Next, Visible!Next

(* An Error behaves, for every set of objects, nodes and texts, as one that*)
(* keeps no text of its own making.                                        *)
THEOREM Refinement == Spec => ImplementsErrorReport
  <1>1. Init => Visible!Init
    BY DEF Init, Visible!Init, Reports, Seen
  <1>2. Inv /\ [Next]_vars => Inv' BY StepKeepsInv
  <1>3. Inv /\ [Next]_vars => [Visible!Next]_(Visible!vars) BY StepRefines
  <1> QED BY Initially, <1>1, <1>2, <1>3, PTL
          DEF Spec, ImplementsErrorReport, Visible!Spec
====
