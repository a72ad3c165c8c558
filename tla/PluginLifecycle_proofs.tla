----------------------- MODULE PluginLifecycle_proofs -----------------------
(***************************************************************************)
(* Proofs about the life of the plugins, for every finite set of plugins   *)
(* and every way in which they may require each other.                     *)
(***************************************************************************)
EXTENDS PluginLifecycle, SequenceTheorems, FiniteSetTheorems, TLAPS

-----------------------------------------------------------------------------
(* The inductive invariant                                                 *)

Listed(list) == {list[i] : i \in 1 .. Len(list)}
Entered == {stack[i].plugin : i \in 1 .. Len(stack)}
Recursing == stage \in {"initialize", "startup"}

\* The list that the plugins on the stack are about to enter.
Done == IF stage = "initialize" THEN initialized_plugins ELSE running_plugins

\* The requirements have a rank, which falls along the stack: a plugin is
\* never asked to initialize or to start while its own call is under way.
Ranks(rank) ==
  /\ \A p \in Plugins : \A d \in requires[p] : rank[d] < rank[p]
  /\ \A i, j \in 1 .. Len(stack) :
       i < j => rank[stack[j].plugin] < rank[stack[i].plugin]
Ranked == \E rank \in [Plugins -> 1 .. Cardinality(Plugins)] : Ranks(rank)

\* What a frame has visited is in the list already, or is the call above it.
Visited ==
  \A i \in 1 .. Len(stack) :
    /\ stack[i].plugin \notin Listed(Done)
    /\ stack[i].todo \subseteq requires[stack[i].plugin]
    /\ \A d \in requires[stack[i].plugin] \ stack[i].todo :
         d \in Listed(Done) \/ (i < Len(stack) /\ d = stack[i + 1].plugin)

\* The state says which plugins have been entered, and those that have not
\* returned are on the stack.
StateIsEntered ==
  \A p \in Plugins : state[p] = After <=> p \in Listed(Done) \cup Entered

Calls == IF Recursing THEN Visited /\ StateIsEntered /\ next > 0
                      ELSE stack = <<>>

Initializing ==
  stage = "initialize" =>
    /\ running_plugins = <<>>
    /\ \A p \in Plugins : state[p] \in {"registered", "initialized"}

Starting ==
  stage = "startup" =>
    \A p \in Plugins :
      /\ state[p] # "stopped"
      /\ p \in Listed(initialized_plugins)
           <=> state[p] \in {"initialized", "started"}

Executing ==
  stage = "exec" =>
    \A p \in Plugins :
      /\ state[p] # "stopped"
      /\ state[p] = "started" <=> p \in Listed(running_plugins)

\* shutdown() has stopped the plugins behind next and no other.
Stopping ==
  stage = "shutdown" =>
    /\ next <= Len(running_plugins)
    /\ \A i \in 1 .. Len(running_plugins) :
         state[running_plugins[i]] = IF i <= next THEN "started" ELSE "stopped"
    /\ ~failed =>
         \A p \in Plugins : state[p] = "started" => p \in Listed(running_plugins)

IInv ==
  /\ TypeOK /\ Ranked /\ Calls
  /\ Initializing /\ Starting /\ Executing /\ Stopping
  /\ Listed(running_plugins) \subseteq up
  /\ RequiredComeFirst /\ CleanExit
  /\ stage = "over" => RequiredOutlive

-----------------------------------------------------------------------------
(* Lists of plugins                                                        *)

LEMMA ListedAppend ==
  ASSUME NEW list \in Seq(Plugins), NEW p \in Plugins
  PROVE  /\ Append(list, p) \in Seq(Plugins)
         /\ Len(list) \in Nat /\ Len(Append(list, p)) = Len(list) + 1
         /\ \A i \in 1 .. Len(list) : Append(list, p)[i] = list[i]
         /\ Append(list, p)[Len(list) + 1] = p
         /\ Listed(Append(list, p)) = Listed(list) \cup {p}
<1>1. /\ Append(list, p) \in Seq(Plugins)
      /\ Len(list) \in Nat /\ Len(Append(list, p)) = Len(list) + 1
      /\ \A i \in 1 .. Len(list) : Append(list, p)[i] = list[i]
      /\ Append(list, p)[Len(list) + 1] = p
  BY AppendProperties, LenProperties
<1>2. Listed(Append(list, p)) = Listed(list) \cup {p}
  BY <1>1 DEF Listed
<1>3. QED  BY <1>1, <1>2

\* A plugin that enters the list behind everything it requires.
LEMMA RequiredFirstAppend ==
  ASSUME NEW list \in Seq(Plugins), NEW p \in Plugins,
         RequiredFirst(list), p \notin Listed(list),
         requires[p] \subseteq Listed(list)
  PROVE  RequiredFirst(Append(list, p))
<1> DEFINE new == Append(list, p)
<1>1. /\ Len(list) \in Nat /\ Len(new) = Len(list) + 1
      /\ \A i \in 1 .. Len(list) : new[i] = list[i]
      /\ new[Len(list) + 1] = p
  BY ListedAppend
<1> HIDE DEF new
<1>2. ASSUME NEW i \in 1 .. Len(new)
      PROVE  /\ \A d \in requires[new[i]] : \E j \in 1 .. i - 1 : new[j] = d
             /\ \A j \in 1 .. i - 1 : new[j] # new[i]
  <2>1. CASE i = Len(list) + 1
    <3>1. new[i] = p /\ i - 1 = Len(list)
      BY <1>1, <2>1
    <3>2. QED  BY <1>1, <3>1 DEF Listed
  <2>2. CASE i # Len(list) + 1
    <3>1. i \in 1 .. Len(list) /\ new[i] = list[i]
      BY <1>1, <2>2
    <3>2. \A j \in 1 .. i - 1 : j \in 1 .. Len(list) /\ new[j] = list[j]
      BY <1>1, <3>1
    <3>3. /\ \A d \in requires[list[i]] : \E j \in 1 .. i - 1 : list[j] = d
          /\ \A j \in 1 .. i - 1 : list[j] # list[i]
      BY <3>1 DEF RequiredFirst
    <3>4. QED  BY <3>1, <3>2, <3>3
  <2>3. QED  BY <2>1, <2>2
<1>3. QED  BY <1>2 DEF RequiredFirst, new

\* RequiredFirst, with the requirements as a parameter.
Ordered(required, list) ==
  \A i \in 1 .. Len(list) :
    /\ \A d \in required[list[i]] : \E j \in 1 .. i - 1 : list[j] = d
    /\ \A j \in 1 .. i - 1 : list[j] # list[i]

LEMMA RequiredFirstIsOrdered ==
  /\ \A list : RequiredFirst(list) <=> Ordered(requires, list)
  /\ RequiredFirst(initialized_plugins)' <=> Ordered(requires', initialized_plugins')
  /\ RequiredFirst(running_plugins)' <=> Ordered(requires', running_plugins')
<1>1. ASSUME NEW list
      PROVE  RequiredFirst(list) <=> Ordered(requires, list)
  BY Zenon DEF RequiredFirst, Ordered
<1>2. RequiredFirst(initialized_plugins)' <=> Ordered(requires', initialized_plugins')
  BY Zenon DEF RequiredFirst, Ordered
<1>3. RequiredFirst(running_plugins)' <=> Ordered(requires', running_plugins')
  BY Zenon DEF RequiredFirst, Ordered
<1>4. QED  BY <1>1, <1>2, <1>3

LEMMA SameLists ==
  ASSUME RequiredComeFirst,
         UNCHANGED <<requires, initialized_plugins, running_plugins>>
  PROVE  RequiredComeFirst'
BY RequiredFirstIsOrdered DEF RequiredComeFirst

LEMMA ListBecomes ==
  ASSUME NEW list, RequiredFirst(list), requires' = requires
  PROVE  /\ initialized_plugins' = list => RequiredFirst(initialized_plugins)'
         /\ running_plugins' = list => RequiredFirst(running_plugins)'
BY RequiredFirstIsOrdered

\* What is required by a plugin of an ordered list is in the list.
LEMMA RequiredAreListed ==
  ASSUME NEW list \in Seq(Plugins), RequiredFirst(list),
         NEW p \in Listed(list), NEW d \in requires[p]
  PROVE  d \in Listed(list)
<1>1. PICK i \in 1 .. Len(list) : list[i] = p
  BY DEF Listed
<1>2. PICK j \in 1 .. i - 1 : list[j] = d
  BY <1>1 DEF RequiredFirst
<1>3. Len(list) \in Nat
  BY LenProperties
<1>4. j \in 1 .. Len(list)
  BY <1>1, <1>2, <1>3
<1>5. QED  BY <1>2, <1>4 DEF Listed

-----------------------------------------------------------------------------
(* The call stack                                                          *)

Frames == [plugin : Plugins, todo : SUBSET Plugins]

LEMMA StackShape ==
  ASSUME TypeOK, stack # <<>>
  PROVE  /\ Len(stack) \in Nat /\ Len(stack) > 0
         /\ Top \in Frames /\ Callers \in Seq(Frames)
         /\ Len(Callers) = Len(stack) - 1
         /\ \A i \in 1 .. Len(Callers) : Callers[i] = stack[i]
<1>1. stack \in Seq(Frames) /\ Len(stack) \in Nat /\ Len(stack) > 0
  BY EmptySeq, LenProperties DEF TypeOK, Frames
<1>2. \A i \in 1 .. Len(stack) : stack[i] \in Frames
  BY <1>1, ElementOfSeq
<1>3. Len(stack) \in 1 .. Len(stack)
  BY <1>1
<1>4. Top \in Frames
  BY <1>2, <1>3 DEF Top
<1> DEFINE m == Len(stack) - 1
<1>0. m \in Int /\ m >= 0 /\ m < Len(stack)
  BY <1>1
<1>5. m \in Int /\ 1 \in Int /\ (1 <= m \/ m = 0)
      /\ \A i \in 1 .. m : i \in 1 .. Len(stack)
  <2> HIDE DEF m
  <2>1. QED  BY <1>0, <1>1
<1> HIDE DEF m
<1>6. /\ SubSeq(stack, 1, m) \in Seq(Frames)
      /\ Len(SubSeq(stack, 1, m)) = IF 1 <= m THEN m - 1 + 1 ELSE 0
      /\ \A i \in 1 .. m - 1 + 1 : SubSeq(stack, 1, m)[i] = stack[1 + i - 1]
  BY <1>2, <1>5, SubSeqProperties
<1>7. Len(SubSeq(stack, 1, m)) = m
  BY <1>5, <1>6
<1>8. m - 1 + 1 = m /\ \A i \in 1 .. m : 1 + i - 1 = i
  BY <1>5
<1>9. \A i \in 1 .. m : SubSeq(stack, 1, m)[i] = stack[i]
  BY <1>6, <1>8
<1>10. QED  BY <1>1, <1>4, <1>6, <1>7, <1>9 DEF Callers, m

LEMMA Pushed ==
  ASSUME NEW callers \in Seq(Frames), NEW frame \in Frames
  PROVE  /\ Append(callers, frame) \in Seq(Frames)
         /\ Len(callers) \in Nat
         /\ Len(Append(callers, frame)) = Len(callers) + 1
         /\ \A i \in 1 .. Len(callers) : Append(callers, frame)[i] = callers[i]
         /\ Append(callers, frame)[Len(callers) + 1] = frame
BY AppendProperties, LenProperties

\* What the callers of initialize or startup of p have done and know.
Asking(callers, p, rank) ==
  /\ Entered = {callers[i].plugin : i \in 1 .. Len(callers)}
  /\ \A i, j \in 1 .. Len(callers) :
       i < j => rank[callers[j].plugin] < rank[callers[i].plugin]
  /\ \A i \in 1 .. Len(callers) :
       /\ rank[p] < rank[callers[i].plugin]
       /\ callers[i].plugin \in Plugins \ Listed(Done)
       /\ callers[i].todo \subseteq requires[callers[i].plugin]
       /\ \A d \in requires[callers[i].plugin] \ callers[i].todo :
            \/ d \in Listed(Done)
            \/ i < Len(callers) /\ d = callers[i + 1].plugin
            \/ i = Len(callers) /\ d = p

Rankings == [Plugins -> 1 .. Cardinality(Plugins)]

LEMMA RankIsInt ==
  ASSUME NEW rank \in Rankings, NEW p \in Plugins
  PROVE  rank[p] \in Int
<1>1. Cardinality(Plugins) \in Nat
  BY FS_CardinalityType, PluginsAssumption
<1>2. QED  BY <1>1 DEF Rankings

\* A call for a plugin that has been entered returns at once, since it is
\* not among its own callers; another one enters it.
LEMMA EnterCalls ==
  ASSUME IInv, Recursing, NEW p \in Plugins, NEW callers \in Seq(Frames),
         NEW rank \in Rankings, Ranks(rank), Asking(callers, p, rank),
         state[p] \in {Before, After}, Enter(p, callers),
         UNCHANGED <<requires, stage, initialized_plugins, running_plugins>>
  PROVE  /\ stack' \in Seq(Frames)
         /\ Ranks(rank)' /\ Visited' /\ StateIsEntered'
<1> USE DEF Asking
<1>1. Done' = Done /\ Before' = Before /\ After' = After
  BY DEF Done, Before, After
<1>2. Before # After /\ Len(callers) \in Nat
  BY LenProperties DEF Before, After
<1>3. \A i \in 1 .. Len(callers) : p # callers[i].plugin
  BY RankIsInt
<1>4. StateIsEntered
  BY DEF IInv, Calls
<1>5. CASE state[p] = After
  <2>1. stack' = callers /\ state' = state
    BY <1>2, <1>5 DEF Enter
  <2>2. p \in Listed(Done)
    BY <1>3, <1>4, <1>5 DEF StateIsEntered
  <2>3. Ranks(rank)'
    BY <2>1 DEF Ranks
  <2>4. Visited'
    BY <1>1, <2>1, <2>2 DEF Visited
  <2>5. StateIsEntered'
    BY <1>1, <1>4, <2>1 DEF StateIsEntered, Entered
  <2>6. QED  BY <2>1, <2>3, <2>4, <2>5
<1>6. CASE state[p] = Before
  <2>1. stack' = Append(callers, Frame(p)) /\ state' = [state EXCEPT ![p] = After]
    BY <1>6 DEF Enter
  <2>2. Frame(p) \in Frames /\ Frame(p).plugin = p /\ Frame(p).todo = requires[p]
    BY DEF Frame, Frames, IInv, TypeOK
  <2>3. /\ stack' \in Seq(Frames)
        /\ Len(stack') = Len(callers) + 1
        /\ \A i \in 1 .. Len(callers) : stack'[i] = callers[i]
        /\ stack'[Len(callers) + 1] = Frame(p)
    BY <2>1, <2>2, Pushed
  <2>4. p \notin Listed(Done)
    BY <1>2, <1>4, <1>6 DEF StateIsEntered
  <2>5. ASSUME NEW i \in 1 .. Len(stack')
        PROVE  i \in 1 .. Len(callers) \/ i = Len(callers) + 1
    BY <1>2, <2>3
  <2>6. Ranks(rank)'
    <3>1. ASSUME NEW i \in 1 .. Len(stack'), NEW j \in 1 .. Len(stack'), i < j
          PROVE  rank[stack'[j].plugin] < rank[stack'[i].plugin]
      <4>1. i \in 1 .. Len(callers)
        BY <1>2, <2>3, <3>1
      <4>2. CASE j = Len(callers) + 1
        BY <2>2, <2>3, <4>1, <4>2
      <4>3. CASE j \in 1 .. Len(callers)
        BY <2>3, <3>1, <4>1, <4>3
      <4>4. QED  BY <2>5, <4>2, <4>3
    <3>2. QED  BY <3>1 DEF Ranks
  <2>7. Visited'
    <3>1. ASSUME NEW i \in 1 .. Len(stack')
          PROVE  /\ stack'[i].plugin \notin Listed(Done)
                 /\ stack'[i].todo \subseteq requires[stack'[i].plugin]
                 /\ \A d \in requires[stack'[i].plugin] \ stack'[i].todo :
                      \/ d \in Listed(Done)
                      \/ i < Len(stack') /\ d = stack'[i + 1].plugin
      <4>1. CASE i = Len(callers) + 1
        BY <2>2, <2>3, <2>4, <4>1
      <4>2. CASE i \in 1 .. Len(callers)
        <5>1. /\ stack'[i] = callers[i] /\ i < Len(stack')
              /\ i < Len(callers) => stack'[i + 1] = callers[i + 1]
              /\ i = Len(callers) => stack'[i + 1] = Frame(p)
          BY <1>2, <2>3, <4>2
        <5>2. QED  BY <2>2, <4>2, <5>1
      <4>3. QED  BY <2>5, <4>1, <4>2
    <3>2. QED  BY <1>1, <3>1 DEF Visited
  <2>8. Entered' = Entered \cup {p}
    <3>1. \A q : q \in Entered' <=> \E i \in 1 .. Len(stack') : q = stack'[i].plugin
      BY DEF Entered
    <3>2. \A q : q \in Entered <=> \E i \in 1 .. Len(callers) : q = callers[i].plugin
      OBVIOUS
    <3>3. ASSUME NEW i \in 1 .. Len(callers)
          PROVE  i \in 1 .. Len(stack') /\ stack'[i].plugin = callers[i].plugin
      BY <1>2, <2>3
    <3>4. Len(callers) + 1 \in 1 .. Len(stack')
      BY <1>2, <2>3
    <3>5. stack'[Len(callers) + 1].plugin = p
      BY <2>2, <2>3
    <3>6. \A q : q \in Entered' => q \in Entered \cup {p}
      BY <2>5, <3>1, <3>2, <3>3, <3>5
    <3>7. \A q : q \in Entered \cup {p} => q \in Entered'
      BY <3>1, <3>2, <3>3, <3>4, <3>5
    <3>8. QED  BY <3>6, <3>7
  <2>9. StateIsEntered'
    BY <1>1, <1>4, <2>1, <2>8 DEF StateIsEntered, IInv, TypeOK
  <2>10. QED  BY <2>3, <2>6, <2>7, <2>9
<1>7. QED  BY <1>5, <1>6

-----------------------------------------------------------------------------
(* initialize and startup                                                  *)

LEMMA WantedStep ==
  ASSUME IInv, InitializeWanted
  PROVE  IInv'
<1> USE DEF InitializeWanted
<1>1. PICK p \in wanted : wanted' = wanted \ {p} /\ Enter(p, <<>>)
  OBVIOUS
<1>2. PICK rank \in Rankings : Ranks(rank)
  BY DEF IInv, Ranked, Rankings
<1>3. Recursing /\ Visited /\ StateIsEntered /\ next > 0
  BY DEF IInv, Calls, Recursing
<1>4. <<>> \in Seq(Frames) /\ Len(<<>>) = 0 /\ Asking(<<>>, p, rank)
  BY EmptySeq DEF Asking, Entered
<1>5. p \in Plugins /\ state[p] \in {Before, After}
  BY DEF IInv, TypeOK, Initializing, Before, After
<1>6. stack' \in Seq(Frames) /\ Ranks(rank)' /\ Visited' /\ StateIsEntered'
  BY <1>2, <1>1, <1>3, <1>4, <1>5, EnterCalls
<1>7. state' \in [Plugins -> {"registered", "initialized"}]
  BY <1>1, <1>5 DEF Enter, IInv, TypeOK, Initializing, After
<1>8. TypeOK'
  BY <1>6, <1>7 DEF IInv, TypeOK, Frames, States
<1>9. Ranked' /\ Calls'
  BY <1>2, <1>3, <1>6 DEF Ranked, Rankings, Calls, Recursing
<1>10. Initializing' /\ Starting' /\ Executing' /\ Stopping' /\ CleanExit'
  BY <1>7 DEF IInv, Initializing, Starting, Executing, Stopping, CleanExit
<1>11. RequiredComeFirst'
  BY SameLists DEF IInv
<1>12. (Listed(running_plugins) \subseteq up)'
  BY DEF IInv, Listed
<1>13. QED
  BY <1>8, <1>9, <1>10, <1>11, <1>12 DEF IInv

LEMMA StartNextStep ==
  ASSUME IInv, StartNext
  PROVE  IInv'
<1> USE DEF StartNext
<1> DEFINE p == initialized_plugins[next]
<1>1. PICK rank \in Rankings : Ranks(rank)
  BY DEF IInv, Ranked, Rankings
<1>2. Recursing /\ Visited /\ StateIsEntered /\ next > 0
  BY DEF IInv, Calls, Recursing
<1>3. initialized_plugins \in Seq(Plugins) /\ next \in 1 .. Len(initialized_plugins)
  BY <1>2 DEF IInv, TypeOK
<1>4. p \in Plugins /\ p \in Listed(initialized_plugins)
  BY <1>3, ElementOfSeq DEF Listed
<1>5. state[p] \in {Before, After}
  BY <1>4 DEF IInv, Starting, Before, After
<1>6. <<>> \in Seq(Frames) /\ Len(<<>>) = 0 /\ Asking(<<>>, p, rank)
  BY EmptySeq DEF Asking, Entered
<1> HIDE DEF p
<1>7. Enter(p, <<>>)
  BY DEF p
<1>8. stack' \in Seq(Frames) /\ Ranks(rank)' /\ Visited' /\ StateIsEntered'
  BY <1>1, <1>2, <1>4, <1>5, <1>6, <1>7, EnterCalls
<1>9. /\ state' \in [Plugins -> {"registered", "initialized", "started"}]
      /\ \A q \in Plugins : state'[q] \in {"initialized", "started"}
                              <=> state[q] \in {"initialized", "started"}
  BY <1>4, <1>5, <1>7 DEF Enter, IInv, TypeOK, Starting, Before, After, States
<1>10. TypeOK'
  BY <1>8, <1>9 DEF IInv, TypeOK, Frames, States
<1>11. Ranked' /\ Calls'
  BY <1>1, <1>2, <1>3, <1>8 DEF Ranked, Rankings, Calls, Recursing
<1>12. Starting' /\ Listed(initialized_plugins)' = Listed(initialized_plugins)
  BY <1>9 DEF IInv, Starting, Listed
<1>13. Initializing' /\ Executing' /\ Stopping' /\ CleanExit'
  BY DEF Initializing, Executing, Stopping, CleanExit
<1>14. RequiredComeFirst'
  BY SameLists DEF IInv
<1>15. (Listed(running_plugins) \subseteq up)'
  BY DEF IInv, Listed
<1>16. QED
  BY <1>10, <1>11, <1>12, <1>13, <1>14, <1>15 DEF IInv

\* The visitor asks for d and remembers that it has.
LEMMA VisitAsks ==
  ASSUME IInv, Recursing, stack # <<>>, NEW d \in Top.todo,
         NEW rank \in Rankings, Ranks(rank)
  PROVE  /\ d \in requires[Top.plugin] /\ d \in Plugins
         /\ Append(Callers, [Top EXCEPT !.todo = @ \ {d}]) \in Seq(Frames)
         /\ Asking(Append(Callers, [Top EXCEPT !.todo = @ \ {d}]), d, rank)
<1> DEFINE top == [Top EXCEPT !.todo = @ \ {d}]
           callers == Append(Callers, top)
<1>1. /\ Len(stack) \in Nat /\ Len(stack) > 0
      /\ Top \in Frames /\ Callers \in Seq(Frames)
      /\ Len(Callers) = Len(stack) - 1
      /\ \A i \in 1 .. Len(Callers) : Callers[i] = stack[i]
  BY StackShape DEF IInv
<1>2. top \in Frames /\ top.plugin = Top.plugin /\ top.todo = Top.todo \ {d}
  BY <1>1 DEF Frames
<1>3. Visited /\ stack \in Seq(Frames)
  BY DEF IInv, Calls, TypeOK, Frames
<1>4. ASSUME NEW i \in 1 .. Len(stack)
      PROVE  stack[i] \in Frames /\ stack[i].plugin \in Plugins
  <2>1. stack[i] \in Frames
    BY <1>3, ElementOfSeq
  <2>2. QED  BY <2>1 DEF Frames
<1>5. Len(stack) \in 1 .. Len(stack) /\ stack[Len(stack)] = Top
  BY <1>1 DEF Top
<1>6. d \in requires[Top.plugin] /\ d \in Plugins /\ Top.plugin \in Plugins
  BY <1>1, <1>3, <1>5 DEF Visited, Frames
<1> HIDE DEF top
<1>7. /\ callers \in Seq(Frames) /\ Len(callers) = Len(stack)
      /\ callers[Len(stack)] = top
      /\ \A i \in 1 .. Len(stack) : i # Len(stack) => callers[i] = stack[i]
  <2>1. /\ callers \in Seq(Frames)
        /\ Len(callers) = Len(Callers) + 1
        /\ \A i \in 1 .. Len(Callers) : callers[i] = Callers[i]
        /\ callers[Len(Callers) + 1] = top
    BY <1>1, <1>2, Pushed
  <2> HIDE DEF callers
  <2>2. Len(Callers) + 1 = Len(stack)
        /\ \A i \in 1 .. Len(stack) : i # Len(stack) => i \in 1 .. Len(Callers)
    BY <1>1
  <2>3. QED  BY <1>1, <2>1, <2>2
<1> HIDE DEF callers
<1>8. \A i \in 1 .. Len(stack) : callers[i].plugin = stack[i].plugin
  BY <1>2, <1>5, <1>7
<1>9. Entered = {callers[i].plugin : i \in 1 .. Len(callers)}
  BY <1>7, <1>8 DEF Entered
<1>10. \A i, j \in 1 .. Len(callers) :
         i < j => rank[callers[j].plugin] < rank[callers[i].plugin]
  BY <1>7, <1>8 DEF Ranks
<1>11. ASSUME NEW i \in 1 .. Len(stack)
       PROVE  rank[d] < rank[stack[i].plugin]
  <2>1. rank[d] < rank[Top.plugin]
    BY <1>6 DEF Ranks
  <2>2. CASE i = Len(stack)
    BY <1>5, <2>1, <2>2
  <2>3. CASE i # Len(stack)
    <3>1. rank[Top.plugin] < rank[stack[i].plugin]
      BY <1>1, <1>5, <2>3 DEF Ranks
    <3>2. /\ rank[d] \in Int /\ rank[Top.plugin] \in Int
          /\ rank[stack[i].plugin] \in Int
      BY <1>4, <1>6, RankIsInt
    <3>3. QED  BY <2>1, <3>1, <3>2
  <2>4. QED  BY <2>2, <2>3
<1>12. ASSUME NEW i \in 1 .. Len(stack)
       PROVE  /\ callers[i].plugin \in Plugins \ Listed(Done)
              /\ callers[i].todo \subseteq requires[callers[i].plugin]
              /\ \A e \in requires[callers[i].plugin] \ callers[i].todo :
                   \/ e \in Listed(Done)
                   \/ i < Len(stack) /\ e = callers[i + 1].plugin
                   \/ i = Len(stack) /\ e = d
  <2>1. /\ stack[i].plugin \in Plugins \ Listed(Done)
        /\ stack[i].todo \subseteq requires[stack[i].plugin]
        /\ \A e \in requires[stack[i].plugin] \ stack[i].todo :
             e \in Listed(Done) \/ (i < Len(stack) /\ e = stack[i + 1].plugin)
    BY <1>3, <1>4 DEF Visited
  <2>2. CASE i = Len(stack)
    <3>1. callers[i].todo = stack[i].todo \ {d}
      BY <1>2, <1>5, <1>7, <2>2
    <3>2. ~(i < Len(stack))
      BY <1>1, <2>2
    <3>3. QED  BY <1>8, <2>1, <2>2, <3>1, <3>2
  <2>3. CASE i # Len(stack)
    <3>1. i + 1 \in 1 .. Len(stack)
      BY <1>1, <2>3
    <3>2. callers[i] = stack[i] /\ callers[i + 1].plugin = stack[i + 1].plugin
      BY <1>7, <1>8, <2>3, <3>1
    <3>3. QED  BY <2>1, <3>2
  <2>4. QED  BY <2>2, <2>3
<1>13. Asking(callers, d, rank)
  BY <1>7, <1>8, <1>9, <1>10, <1>11, <1>12 DEF Asking
<1>14. QED  BY <1>6, <1>7, <1>13 DEF callers, top

LEMMA VisitStep ==
  ASSUME IInv, VisitRequired
  PROVE  IInv'
<1> USE DEF VisitRequired
<1>1. PICK d \in Top.todo : Enter(d, Append(Callers, [Top EXCEPT !.todo = @ \ {d}]))
  OBVIOUS
<1> DEFINE callers == Append(Callers, [Top EXCEPT !.todo = @ \ {d}])
<1>2. PICK rank \in Rankings : Ranks(rank)
  BY DEF IInv, Ranked, Rankings
<1>3. Recursing /\ Visited /\ StateIsEntered /\ next > 0
  BY DEF IInv, Calls, Recursing
<1>4. d \in requires[Top.plugin] /\ d \in Plugins
      /\ callers \in Seq(Frames) /\ Asking(callers, d, rank)
  BY <1>2, <1>3, VisitAsks
<1>5. state[d] \in {Before, After}
  <2>1. CASE stage = "initialize"
    BY <1>4, <2>1 DEF IInv, Initializing, Before, After
  <2>2. CASE stage = "startup"
    <3>1. Len(stack) \in 1 .. Len(stack) /\ Top = stack[Len(stack)]
      BY StackShape DEF IInv, Top
    <3>2. Top.plugin \in Entered /\ Top.plugin \in Plugins
      BY <3>1, StackShape DEF Entered, Frames, IInv
    <3>3. state[Top.plugin] = "started"
      BY <1>3, <2>2, <3>2 DEF StateIsEntered, After
    <3>4. Top.plugin \in Listed(initialized_plugins)
      BY <2>2, <3>2, <3>3 DEF IInv, Starting
    <3>5. d \in Listed(initialized_plugins)
      BY <1>4, <3>4, RequiredAreListed DEF IInv, TypeOK, RequiredComeFirst
    <3>6. QED  BY <1>4, <2>2, <3>5 DEF IInv, Starting, Before, After
  <2>3. QED  BY <2>1, <2>2
<1> HIDE DEF callers
<1>6. Enter(d, callers)
  BY <1>1 DEF callers
<1>7. stack' \in Seq(Frames) /\ Ranks(rank)' /\ Visited' /\ StateIsEntered'
  BY <1>2, <1>3, <1>4, <1>5, <1>6, EnterCalls
<1>8. state' = state \/ (state[d] = Before /\ state' = [state EXCEPT ![d] = After])
  BY <1>6 DEF Enter
<1>9. TypeOK'
  BY <1>4, <1>7, <1>8 DEF IInv, TypeOK, Frames, States, After
<1>10. Ranked' /\ Calls'
  BY <1>2, <1>3, <1>7 DEF Ranked, Rankings, Calls, Recursing
<1>11. Initializing'
  BY <1>4, <1>8 DEF IInv, TypeOK, Initializing, After
<1>12. Starting'
  <2>1. Listed(initialized_plugins)' = Listed(initialized_plugins)
    BY DEF Listed
  <2>2. QED  BY <1>4, <1>8, <2>1 DEF IInv, TypeOK, Starting, Before, After
<1>13. Executing' /\ Stopping' /\ CleanExit'
  BY DEF Executing, Stopping, CleanExit
<1>14. RequiredComeFirst'
  BY SameLists DEF IInv
<1>15. (Listed(running_plugins) \subseteq up)'
  BY DEF IInv, Listed
<1>16. QED
  BY <1>9, <1>10, <1>11, <1>12, <1>13, <1>14, <1>15 DEF IInv

\* The call on top returns: all that it required is in the list, itself not.
LEMMA ReturnCalls ==
  ASSUME IInv, Recursing, stack # <<>>, Top.todo = {}, stack' = Callers,
         UNCHANGED <<requires, state, stage, next>>,
         Listed(Done)' = Listed(Done) \cup {Top.plugin}
  PROVE  /\ stack' \in Seq(Frames) /\ Ranked' /\ Calls'
         /\ Top.plugin \in Plugins /\ Top.plugin \notin Listed(Done)
         /\ requires[Top.plugin] \subseteq Listed(Done)
<1> DEFINE p == Top.plugin
<1>1. /\ Len(stack) \in Nat /\ Len(stack) > 0
      /\ Top \in Frames /\ stack' \in Seq(Frames)
      /\ Len(stack') = Len(stack) - 1
      /\ \A i \in 1 .. Len(stack') : stack'[i] = stack[i]
  BY StackShape DEF IInv
<1>2. Visited /\ StateIsEntered /\ next > 0
  BY DEF IInv, Calls
<1>3. Len(stack) \in 1 .. Len(stack) /\ stack[Len(stack)] = Top
      /\ ~(Len(stack) < Len(stack))
  BY <1>1 DEF Top
<1>4. p \in Plugins /\ p \notin Listed(Done)
  BY <1>1, <1>2, <1>3 DEF Visited, Frames
<1>5. requires[p] \subseteq Listed(Done)
  BY <1>2, <1>3 DEF Visited
<1>6. \A i \in 1 .. Len(stack') : /\ i \in 1 .. Len(stack) /\ i < Len(stack)
                                  /\ i + 1 \in 1 .. Len(stack)
                                  /\ i < Len(stack') \/ i + 1 = Len(stack)
                                  /\ i < Len(stack') => i + 1 \in 1 .. Len(stack')
  BY <1>1
<1>7. PICK rank \in Rankings : Ranks(rank)
  BY DEF IInv, Ranked, Rankings
<1>8. Ranks(rank)'
  BY <1>1, <1>6, <1>7 DEF Ranks
<1>9. ASSUME NEW i \in 1 .. Len(stack')
      PROVE  stack[i].plugin # p
  <2>1. rank[p] < rank[stack[i].plugin] /\ rank[p] \in Int
    BY <1>3, <1>4, <1>6, <1>7, RankIsInt DEF Ranks
  <2>2. QED  BY <2>1
<1> HIDE DEF p
<1>10. Visited'
  <2>1. ASSUME NEW i \in 1 .. Len(stack')
        PROVE  /\ stack'[i].plugin \notin Listed(Done)'
               /\ stack'[i].todo \subseteq requires[stack'[i].plugin]
               /\ \A d \in requires[stack'[i].plugin] \ stack'[i].todo :
                    \/ d \in Listed(Done)'
                    \/ i < Len(stack') /\ d = stack'[i + 1].plugin
    <3>1. /\ stack[i].plugin \notin Listed(Done)
          /\ stack[i].todo \subseteq requires[stack[i].plugin]
          /\ \A d \in requires[stack[i].plugin] \ stack[i].todo :
               d \in Listed(Done) \/ d = stack[i + 1].plugin
      BY <1>2, <1>6 DEF Visited
    <3>2. stack'[i] = stack[i]
      BY <1>1
    <3>3. CASE i < Len(stack')
      <4>1. stack'[i + 1] = stack[i + 1]
        BY <1>1, <1>6, <3>3
      <4>2. QED  BY <1>9, <3>1, <3>2, <3>3, <4>1 DEF p
    <3>4. CASE i + 1 = Len(stack)
      BY <1>3, <1>9, <3>1, <3>2, <3>4 DEF p
    <3>5. QED  BY <1>6, <3>3, <3>4
  <2>2. QED  BY <2>1 DEF Visited
<1>11. \A q : q \in Entered <=> q \in Entered' \/ q = p
  <2>1. ASSUME NEW i \in 1 .. Len(stack)
        PROVE  i \in 1 .. Len(stack') \/ i = Len(stack)
    BY <1>1
  <2>2. \A q : q \in Entered <=> \E i \in 1 .. Len(stack) : q = stack[i].plugin
    BY DEF Entered
  <2>3. \A q : q \in Entered' <=> \E i \in 1 .. Len(stack') : q = stack'[i].plugin
    BY DEF Entered
  <2>4. \A q : q \in Entered => q \in Entered' \/ q = p
    BY <1>1, <1>3, <2>1, <2>2, <2>3 DEF p
  <2>5. ASSUME NEW q \in Entered'
        PROVE  q \in Entered
    <3>1. PICK i \in 1 .. Len(stack') : q = stack'[i].plugin
      BY <2>3
    <3>2. i \in 1 .. Len(stack) /\ stack'[i] = stack[i]
      BY <1>1, <1>6
    <3>3. QED  BY <2>2, <3>1, <3>2
  <2>6. p \in Entered
    BY <1>3, <2>2 DEF p
  <2>7. QED  BY <2>4, <2>5, <2>6
<1>12. StateIsEntered'
  <2>1. After' = After
    BY DEF After
  <2>2. QED  BY <1>2, <1>11, <2>1 DEF StateIsEntered, p
<1>13. QED
  BY <1>1, <1>2, <1>4, <1>5, <1>7, <1>8, <1>10, <1>12
  DEF Ranked, Rankings, Calls, Recursing, p

LEMMA ReturnStep ==
  ASSUME IInv, PluginReturns
  PROVE  IInv'
<1>1. /\ Recursing /\ stack # <<>> /\ Top.todo = {} /\ stack' = Callers
      /\ UNCHANGED <<requires, wanted, state, stage, next, is_quiting, failed>>
  BY DEF PluginReturns, Recursing
<1>2. /\ initialized_plugins \in Seq(Plugins) /\ running_plugins \in Seq(Plugins)
      /\ RequiredFirst(initialized_plugins) /\ RequiredFirst(running_plugins)
  BY DEF IInv, TypeOK, RequiredComeFirst
<1>3. Top.plugin \in Plugins
  BY <1>1, StackShape DEF IInv, Frames
<1>4. CASE stage = "initialize"
  <2>1. initialized_plugins' = Append(initialized_plugins, Top.plugin)
        /\ UNCHANGED <<running_plugins, up>>
    BY <1>4 DEF PluginReturns
  <2>2. /\ initialized_plugins' \in Seq(Plugins)
        /\ Listed(initialized_plugins)' = Listed(initialized_plugins) \cup {Top.plugin}
    BY <1>2, <1>3, <2>1, ListedAppend DEF Listed
  <2>3. Listed(Done)' = Listed(Done) \cup {Top.plugin}
    BY <1>1, <1>4, <2>2 DEF Done, Listed
  <2>4. /\ stack' \in Seq(Frames) /\ Ranked' /\ Calls'
        /\ Top.plugin \notin Listed(initialized_plugins)
        /\ requires[Top.plugin] \subseteq Listed(initialized_plugins)
    BY <1>1, <1>4, <2>3, ReturnCalls DEF Done
  <2>5. RequiredFirst(initialized_plugins)'
    <3> DEFINE new == Append(initialized_plugins, Top.plugin)
    <3>1. RequiredFirst(new)
      BY <1>2, <1>3, <2>4, RequiredFirstAppend
    <3>2. initialized_plugins' = new /\ requires' = requires
      BY <1>1, <2>1
    <3> HIDE DEF new
    <3>3. QED  BY <3>1, <3>2, ListBecomes
  <2>6. RequiredComeFirst'
    BY <1>1, <1>2, <2>1, <2>5, ListBecomes DEF RequiredComeFirst
  <2>7. TypeOK' /\ (Listed(running_plugins) \subseteq up)'
    BY <1>1, <2>1, <2>2, <2>4 DEF IInv, TypeOK, Frames, Listed
  <2>8. Initializing' /\ Starting' /\ Executing' /\ Stopping' /\ CleanExit'
    BY <1>1, <1>4, <2>1
    DEF IInv, Initializing, Starting, Executing, Stopping, CleanExit
  <2>9. QED  BY <1>1, <1>4, <2>4, <2>6, <2>7, <2>8 DEF IInv
<1>5. CASE stage = "startup"
  <2>1. running_plugins' = Append(running_plugins, Top.plugin)
        /\ up' = up \cup {Top.plugin} /\ UNCHANGED initialized_plugins
    BY <1>5 DEF PluginReturns
  <2>2. /\ running_plugins' \in Seq(Plugins)
        /\ Listed(running_plugins)' = Listed(running_plugins) \cup {Top.plugin}
    BY <1>2, <1>3, <2>1, ListedAppend DEF Listed
  <2>3. Listed(Done)' = Listed(Done) \cup {Top.plugin}
    BY <1>1, <1>5, <2>2 DEF Done, Listed
  <2>4. /\ stack' \in Seq(Frames) /\ Ranked' /\ Calls'
        /\ Top.plugin \notin Listed(running_plugins)
        /\ requires[Top.plugin] \subseteq Listed(running_plugins)
    BY <1>1, <1>5, <2>3, ReturnCalls DEF Done
  <2>5. RequiredFirst(running_plugins)'
    <3> DEFINE new == Append(running_plugins, Top.plugin)
    <3>1. RequiredFirst(new)
      BY <1>2, <1>3, <2>4, RequiredFirstAppend
    <3>2. running_plugins' = new /\ requires' = requires
      BY <1>1, <2>1
    <3> HIDE DEF new
    <3>3. QED  BY <3>1, <3>2, ListBecomes
  <2>6. RequiredComeFirst'
    BY <1>1, <1>2, <2>1, <2>5, ListBecomes DEF RequiredComeFirst
  <2>7. TypeOK' /\ (Listed(running_plugins) \subseteq up)'
    BY <1>1, <1>3, <2>1, <2>2, <2>4 DEF IInv, TypeOK, Frames
  <2>8. Starting'
    BY <1>1, <1>5, <2>1 DEF IInv, Starting, Listed
  <2>9. Initializing' /\ Executing' /\ Stopping' /\ CleanExit'
    BY <1>1, <1>5 DEF Initializing, Executing, Stopping, CleanExit
  <2>10. QED  BY <1>1, <1>5, <2>4, <2>6, <2>7, <2>8, <2>9 DEF IInv
<1>6. QED  BY <1>1, <1>4, <1>5 DEF Recursing

-----------------------------------------------------------------------------
(* The stages                                                              *)

\* While no plugin has been stopped, nothing can have outlived its
\* requirements.
LEMMA Outlive ==
  ASSUME IInv
  PROVE  RequiredOutlive
<1>1. running_plugins \in Seq(Plugins) /\ RequiredFirst(running_plugins)
      /\ Len(running_plugins) \in Nat
  BY LenProperties DEF IInv, TypeOK, RequiredComeFirst
<1>2. ASSUME NEW i \in 1 .. Len(running_plugins),
             state[running_plugins[i]] = "started",
             NEW d \in requires[running_plugins[i]]
      PROVE  state[d] = "started"
  <2>1. PICK j \in 1 .. i - 1 : running_plugins[j] = d
    BY <1>1, <1>2 DEF RequiredFirst
  <2>2. j \in 1 .. Len(running_plugins) /\ j < i
    BY <1>1, <2>1
  <2>3. d \in Listed(running_plugins) /\ d \in Plugins
    BY <1>1, <2>1, <2>2, ElementOfSeq DEF Listed
  <2>4. CASE stage = "initialize"
    BY <1>2, <2>4 DEF IInv, Initializing
  <2>5. CASE stage = "startup"
    BY <2>3, <2>5
    DEF IInv, Calls, Recursing, StateIsEntered, After, Done
  <2>6. CASE stage = "exec"
    BY <2>3, <2>6 DEF IInv, Executing
  <2>7. CASE stage = "shutdown"
    <3>1. i <= next
      BY <1>2, <2>7 DEF IInv, Stopping
    <3>2. j <= next
      BY <1>1, <2>2, <3>1 DEF IInv, TypeOK
    <3>3. QED  BY <2>1, <2>2, <2>7, <3>2 DEF IInv, Stopping
  <2>8. CASE stage = "over"
    BY <1>2, <2>8 DEF IInv, RequiredOutlive
  <2>9. QED  BY <2>4, <2>5, <2>6, <2>7, <2>8 DEF IInv, TypeOK, Stages
<1>3. QED  BY <1>2 DEF RequiredOutlive

\* Nothing else matters once the main thread is back in main().
LEMMA IsOver ==
  ASSUME RequiredComeFirst', TypeOK', Ranked', (Listed(running_plugins) \subseteq up)',
         stage' = "over", stack' = <<>>, RequiredOutlive', CleanExit'
  PROVE  IInv'
BY DEF IInv, Calls, Recursing, Initializing, Starting, Executing, Stopping

LEMMA NoStack ==
  ASSUME IInv, stack' = <<>>, requires' = requires
  PROVE  Ranked' /\ stack' \in Seq(Frames)
<1>1. PICK rank \in Rankings : Ranks(rank)
  BY DEF IInv, Ranked, Rankings
<1>2. Len(stack') = 0
  BY EmptySeq
<1>3. Ranks(rank)'
  BY <1>1, <1>2 DEF Ranks
<1>4. QED  BY <1>3, EmptySeq DEF Ranked, Rankings

LEMMA InitializeEnds ==
  ASSUME IInv, InitializeDone \/ InitializeThrows
  PROVE  IInv'
<1>1. /\ stage = "initialize" /\ stack' = <<>>
      /\ UNCHANGED <<requires, wanted, state, next, initialized_plugins,
                     running_plugins, is_quiting, up>>
  BY DEF InitializeDone, InitializeThrows
<1>2. running_plugins = <<>> /\ Calls
  BY <1>1 DEF IInv, Initializing
<1>3. RequiredComeFirst'
  BY <1>1, SameLists DEF IInv
<1>4. Ranked' /\ stack' \in Seq(Frames)
  BY <1>1, NoStack
<1>5. TypeOK'
  BY <1>1, <1>4
  DEF IInv, TypeOK, Stages, Frames, InitializeDone, InitializeThrows
<1>6. (Listed(running_plugins) \subseteq up)'
  BY <1>1 DEF IInv, Listed
<1>7. CASE InitializeThrows
  <2>1. CleanExit' /\ stage' = "over"
    BY <1>7 DEF InitializeThrows, CleanExit
  <2>2. RequiredOutlive'
    BY <1>1, <1>2 DEF RequiredOutlive
  <2>3. QED  BY <1>1, <1>3, <1>4, <1>5, <1>6, <2>1, <2>2, IsOver
<1>8. CASE InitializeDone
  <2>1. stage' = "startup" /\ stack = <<>> /\ Len(<<>>) = 0
    BY <1>8, EmptySeq DEF InitializeDone
  <2>2. \A p \in Plugins : state[p] \in {"registered", "initialized"}
    BY <1>1 DEF IInv, Initializing
  <2>3. Entered = {} /\ Entered' = {} /\ Listed(running_plugins)' = {}
    BY <1>1, <1>2, <2>1 DEF Entered, Listed
  <2>4. StateIsEntered /\ next > 0
    BY <1>1, <1>2 DEF Calls, Recursing
  <2>5. Starting'
    <3>1. \A p \in Plugins :
            state[p] = "initialized" <=> p \in Listed(initialized_plugins)
      BY <1>1, <2>3, <2>4 DEF StateIsEntered, After, Done
    <3>2. QED  BY <1>1, <2>1, <2>2, <3>1 DEF Starting, Listed
  <2>6. Visited'
    BY <1>1, <2>1 DEF Visited
  <2>7. StateIsEntered'
    <3>1. After' = "started" /\ Listed(Done)' = {}
      BY <2>1, <2>3 DEF After, Done
    <3>2. QED  BY <1>1, <2>2, <2>3, <3>1 DEF StateIsEntered
  <2>8. Calls'
    BY <1>1, <2>1, <2>4, <2>6, <2>7 DEF Calls, Recursing
  <2>9. Initializing' /\ Executing' /\ Stopping' /\ CleanExit'
    BY <2>1 DEF Initializing, Executing, Stopping, CleanExit
  <2>10. QED  BY <1>3, <1>4, <1>5, <1>6, <2>1, <2>5, <2>8, <2>9 DEF IInv
<1>9. QED  BY <1>7, <1>8

LEMMA StartupEnds ==
  ASSUME IInv, StartupDone \/ StartupThrows
  PROVE  IInv'
<1>1. /\ stage = "startup" /\ stack' = <<>>
      /\ UNCHANGED <<requires, wanted, state, initialized_plugins,
                     running_plugins, is_quiting, up>>
  BY DEF StartupDone, StartupThrows
<1>2. RequiredComeFirst'
  BY <1>1, SameLists DEF IInv
<1>3. Ranked' /\ stack' \in Seq(Frames)
  BY <1>1, NoStack
<1>4. (Listed(running_plugins) \subseteq up)'
      /\ Listed(running_plugins)' = Listed(running_plugins)
  BY <1>1 DEF IInv, Listed
<1>5. StateIsEntered /\ After = "started" /\ Done = running_plugins
  BY <1>1 DEF IInv, Calls, Recursing, After, Done
<1>6. running_plugins \in Seq(Plugins) /\ Len(running_plugins) \in Nat
  BY LenProperties DEF IInv, TypeOK
<1>7. CASE StartupDone
  <2>1. stage' = "exec" /\ stack = <<>> /\ Len(<<>>) = 0
        /\ UNCHANGED <<next, failed>>
    BY <1>7, EmptySeq DEF StartupDone
  <2>2. Entered = {}
    BY <2>1 DEF Entered
  <2>3. Executing'
    BY <1>1, <1>4, <1>5, <2>1, <2>2 DEF IInv, Starting, StateIsEntered, Executing
  <2>4. TypeOK'
    BY <1>1, <1>3, <2>1 DEF IInv, TypeOK, Stages, Frames
  <2>5. Calls' /\ Initializing' /\ Starting' /\ Stopping' /\ CleanExit'
    BY <1>1, <2>1
    DEF Calls, Recursing, Initializing, Starting, Stopping, CleanExit
  <2>6. QED  BY <1>2, <1>3, <1>4, <2>1, <2>3, <2>4, <2>5 DEF IInv
<1>8. CASE StartupThrows
  <2>1. stage' = "shutdown" /\ failed' = TRUE /\ next' = Len(running_plugins)
    BY <1>8 DEF StartupThrows, EnterShutdown
  <2>2. \A i \in 1 .. Len(running_plugins) : state[running_plugins[i]] = "started"
    <3>1. ASSUME NEW i \in 1 .. Len(running_plugins)
          PROVE  state[running_plugins[i]] = "started"
      <4>1. running_plugins[i] \in Listed(running_plugins)
            /\ running_plugins[i] \in Plugins
        BY <1>6, ElementOfSeq DEF Listed
      <4>2. QED  BY <1>5, <4>1 DEF StateIsEntered
    <3>2. QED  BY <3>1
  <2>3. Stopping'
    <3>1. \A i \in 1 .. Len(running_plugins) : i <= next'
      BY <1>6, <2>1
    <3>2. QED  BY <1>1, <1>6, <2>1, <2>2, <3>1 DEF Stopping
  <2>4. TypeOK'
    BY <1>1, <1>3, <1>6, <2>1 DEF IInv, TypeOK, Stages, Frames
  <2>5. Calls' /\ Initializing' /\ Starting' /\ Executing' /\ CleanExit'
    BY <1>1, <2>1
    DEF Calls, Recursing, Initializing, Starting, Executing, CleanExit
  <2>6. QED  BY <1>2, <1>3, <1>4, <2>1, <2>3, <2>4, <2>5 DEF IInv
<1>9. QED  BY <1>7, <1>8

LEMMA ExecEnds ==
  ASSUME IInv, ExecReturns \/ ExecThrows
  PROVE  IInv'
<1>1. /\ stage = "exec"
      /\ UNCHANGED <<requires, wanted, state, stack, initialized_plugins,
                     running_plugins, is_quiting, up>>
  BY DEF ExecReturns, ExecThrows
<1>2. RequiredComeFirst' /\ stack' = <<>>
  BY <1>1, SameLists DEF IInv, Calls, Recursing
<1>3. Ranked' /\ stack' \in Seq(Frames)
  BY <1>1, <1>2, NoStack
<1>4. (Listed(running_plugins) \subseteq up)'
      /\ Listed(running_plugins)' = Listed(running_plugins)
  BY <1>1 DEF IInv, Listed
<1>5. running_plugins \in Seq(Plugins) /\ Len(running_plugins) \in Nat
  BY LenProperties DEF IInv, TypeOK
<1>6. CASE ExecReturns
  <2>1. stage' = "shutdown" /\ next' = Len(running_plugins) /\ failed' = failed
    BY <1>6 DEF ExecReturns, EnterShutdown
  <2>2. TypeOK'
    BY <1>1, <1>3, <1>5, <2>1 DEF IInv, TypeOK, Stages, Frames
  <2>3. Stopping'
    <3>1. ASSUME NEW i \in 1 .. Len(running_plugins)
          PROVE  i <= next' /\ state[running_plugins[i]] = "started"
      <4>1. running_plugins[i] \in Listed(running_plugins)
            /\ running_plugins[i] \in Plugins
        BY <1>5, ElementOfSeq DEF Listed
      <4>2. i <= next'
        BY <1>5, <2>1
      <4>3. QED  BY <1>1, <4>1, <4>2 DEF IInv, Executing
    <3>2. \A p \in Plugins : state[p] = "started" => p \in Listed(running_plugins)
      BY <1>1 DEF IInv, Executing
    <3>3. QED  BY <1>1, <1>4, <1>5, <2>1, <3>1, <3>2 DEF Stopping
  <2>4. Calls' /\ Initializing' /\ Starting' /\ Executing' /\ CleanExit'
    BY <1>1, <1>2, <2>1
    DEF Calls, Recursing, Initializing, Starting, Executing, CleanExit
  <2>5. QED  BY <1>2, <1>3, <1>4, <2>1, <2>2, <2>3, <2>4 DEF IInv
<1>7. CASE ExecThrows
  <2>1. stage' = "over" /\ failed' = TRUE /\ next' = next
    BY <1>7 DEF ExecThrows
  <2>2. TypeOK' /\ CleanExit'
    BY <1>1, <1>3, <2>1 DEF IInv, TypeOK, Stages, Frames, CleanExit
  <2>3. RequiredOutlive'
    BY <1>1, Outlive DEF RequiredOutlive
  <2>4. QED  BY <1>2, <1>3, <1>4, <2>1, <2>2, <2>3, IsOver
<1>8. QED  BY <1>6, <1>7

\* What shutdown() does to the plugin it is at.
LEMMA VictimStops ==
  ASSUME IInv, stage = "shutdown", next > 0
  PROVE  /\ next \in 1 .. Len(running_plugins) /\ Victim \in Plugins
         /\ Victim \in up /\ state[Victim] = "started"
         /\ \A i \in 1 .. Len(running_plugins) :
              running_plugins[i] \in Plugins
              /\ (running_plugins[i] = Victim <=> i = next)
<1>1. /\ running_plugins \in Seq(Plugins) /\ Len(running_plugins) \in Nat
      /\ RequiredFirst(running_plugins)
  BY LenProperties DEF IInv, TypeOK, RequiredComeFirst
<1>2. next \in 1 .. Len(running_plugins)
  BY <1>1 DEF IInv, TypeOK, Stopping
<1>3. \A i \in 1 .. Len(running_plugins) : running_plugins[i] \in Plugins
  BY <1>1, ElementOfSeq
<1>4. Victim \in Plugins /\ Victim \in up
  BY <1>2, <1>3 DEF Victim, IInv, Listed
<1>5. state[Victim] = "started"
  BY <1>2 DEF Victim, IInv, Stopping
<1>6. ASSUME NEW i \in 1 .. Len(running_plugins), i # next
      PROVE  running_plugins[i] # Victim
  <2>1. CASE i < next
    <3>1. i \in 1 .. next - 1
      BY <1>2, <2>1
    <3>2. QED  BY <1>1, <1>2, <3>1 DEF RequiredFirst, Victim
  <2>2. CASE next < i
    <3>1. next \in 1 .. i - 1
      BY <1>2, <2>2
    <3>2. QED  BY <1>1, <3>1 DEF RequiredFirst, Victim
  <2>3. QED  BY <1>2, <1>6, <2>1, <2>2
<1>7. \A i \in 1 .. Len(running_plugins) : running_plugins[i] = Victim <=> i = next
  BY <1>6 DEF Victim
<1>8. QED  BY <1>2, <1>3, <1>4, <1>5, <1>7

LEMMA ShutdownStep ==
  ASSUME IInv, ShutdownNext \/ ShutdownThrows
  PROVE  IInv'
<1>1. /\ stage = "shutdown" /\ next > 0
      /\ UNCHANGED <<requires, wanted, stack, initialized_plugins,
                     running_plugins, is_quiting, up>>
  BY DEF ShutdownNext, ShutdownThrows
<1>2. /\ next \in 1 .. Len(running_plugins) /\ Victim \in Plugins
      /\ state[Victim] = "started"
      /\ \A i \in 1 .. Len(running_plugins) :
           running_plugins[i] \in Plugins
           /\ (running_plugins[i] = Victim <=> i = next)
  BY <1>1, VictimStops
<1>3. state' = [state EXCEPT ![Victim] = "stopped"]
  BY <1>2 DEF ShutdownNext, ShutdownThrows
<1>4. /\ state' \in [Plugins -> States] /\ state'[Victim] = "stopped"
      /\ \A p \in Plugins : p # Victim => state'[p] = state[p]
  BY <1>2, <1>3 DEF IInv, TypeOK, States
<1>5. RequiredComeFirst' /\ stack' = <<>>
  BY <1>1, SameLists DEF IInv, Calls, Recursing
<1>6. Ranked' /\ stack' \in Seq(Frames)
  BY <1>1, <1>5, NoStack
<1>7. (Listed(running_plugins) \subseteq up)'
      /\ Listed(running_plugins)' = Listed(running_plugins)
  BY <1>1 DEF IInv, Listed
<1>8. running_plugins \in Seq(Plugins) /\ Len(running_plugins) \in Nat
  BY LenProperties DEF IInv, TypeOK
<1>9. \A i \in 1 .. Len(running_plugins) :
        state'[running_plugins[i]] = IF i <= next - 1 THEN "started" ELSE "stopped"
  <2>1. ASSUME NEW i \in 1 .. Len(running_plugins)
        PROVE  state'[running_plugins[i]]
                 = IF i <= next - 1 THEN "started" ELSE "stopped"
    <3>1. state[running_plugins[i]] = IF i <= next THEN "started" ELSE "stopped"
      BY <1>1 DEF IInv, Stopping
    <3>2. CASE i = next
      <4>1. state'[running_plugins[i]] = "stopped" /\ ~(i <= next - 1)
        BY <1>2, <1>4, <3>2
      <4>2. QED  BY <4>1
    <3>3. CASE i # next
      <4>1. state'[running_plugins[i]] = state[running_plugins[i]]
        BY <1>2, <1>4, <3>3
      <4>2. i <= next <=> i <= next - 1
        BY <1>2, <3>3
      <4>3. QED  BY <3>1, <4>1, <4>2
    <3>4. QED  BY <3>2, <3>3
  <2>2. QED  BY <2>1
<1>10. CASE ShutdownNext
  <2>1. stage' = "shutdown" /\ next' = next - 1 /\ failed' = failed
    BY <1>1, <1>10 DEF ShutdownNext
  <2>2. next' \in Nat /\ next' <= Len(running_plugins)
    BY <1>2, <1>8, <2>1
  <2>3. TypeOK'
    BY <1>1, <1>4, <1>6, <2>1, <2>2 DEF IInv, TypeOK, Stages, Frames
  <2>4. ~failed => \A p \in Plugins : state'[p] = "started"
                                        => p \in Listed(running_plugins)
    BY <1>1, <1>4 DEF IInv, Stopping
  <2>5. Stopping'
    BY <1>1, <1>7, <1>9, <2>1, <2>2, <2>4 DEF Stopping
  <2>6. Calls' /\ Initializing' /\ Starting' /\ Executing' /\ CleanExit'
    BY <1>5, <2>1
    DEF Calls, Recursing, Initializing, Starting, Executing, CleanExit
  <2>7. QED  BY <1>5, <1>6, <1>7, <2>1, <2>3, <2>5, <2>6 DEF IInv
<1>11. CASE ShutdownThrows
  <2>1. stage' = "over" /\ failed' = TRUE /\ next' = next
    BY <1>11 DEF ShutdownThrows
  <2>2. TypeOK' /\ CleanExit'
    BY <1>1, <1>4, <1>6, <2>1 DEF IInv, TypeOK, Stages, Frames, CleanExit
  <2>3. ASSUME NEW i \in 1 .. Len(running_plugins),
               state'[running_plugins[i]] = "started",
               NEW d \in requires[running_plugins[i]]
        PROVE  state'[d] = "started"
    <3>1. i <= next - 1
      BY <1>9, <2>3
    <3>2. PICK j \in 1 .. i - 1 : running_plugins[j] = d
      BY <2>3 DEF IInv, RequiredComeFirst, RequiredFirst
    <3>3. j \in 1 .. Len(running_plugins) /\ j <= next - 1
      BY <1>2, <1>8, <3>1, <3>2
    <3>4. QED  BY <1>9, <3>2, <3>3
  <2>4. RequiredOutlive'
    BY <1>1, <2>3 DEF RequiredOutlive
  <2>5. QED  BY <1>5, <1>6, <1>7, <2>1, <2>2, <2>4, IsOver
<1>12. QED  BY <1>10, <1>11

LEMMA ShutdownEnds ==
  ASSUME IInv, ShutdownDone
  PROVE  IInv'
<1>1. /\ stage = "shutdown" /\ next = 0 /\ stage' = "over"
      /\ initialized_plugins' = <<>> /\ running_plugins' = <<>>
      /\ is_quiting' = TRUE
      /\ UNCHANGED <<requires, wanted, state, stack, next, failed, up>>
  BY DEF ShutdownDone
<1>2. Len(<<>>) = 0 /\ <<>> \in Seq(Plugins)
  BY EmptySeq
<1>3. stack' = <<>>
  BY <1>1 DEF IInv, Calls, Recursing
<1>4. Ranked' /\ stack' \in Seq(Frames)
  BY <1>1, <1>3, NoStack
<1>5. TypeOK'
  BY <1>1, <1>2, <1>4 DEF IInv, TypeOK, Stages, Frames
<1>6. RequiredComeFirst' /\ RequiredOutlive' /\ Listed(running_plugins)' = {}
  BY <1>1, <1>2 DEF RequiredComeFirst, RequiredFirst, RequiredOutlive, Listed
<1>7. CleanExit'
  <2>1. ASSUME ~failed, NEW p \in Plugins, state[p] = "started"
        PROVE  FALSE
    <3>1. p \in Listed(running_plugins)
      BY <1>1, <2>1 DEF IInv, Stopping
    <3>2. PICK i \in 1 .. Len(running_plugins) : running_plugins[i] = p
      BY <3>1 DEF Listed
    <3>3. ~(i <= next)
      BY <1>1, <3>2
    <3>4. QED  BY <1>1, <2>1, <3>2, <3>3 DEF IInv, Stopping
  <2>2. QED  BY <1>1, <2>1 DEF CleanExit
<1>8. QED  BY <1>1, <1>3, <1>4, <1>5, <1>6, <1>7, IsOver

LEMMA QuitStep ==
  ASSUME IInv, Quit \/ UNCHANGED vars
  PROVE  IInv'
<1>1. UNCHANGED <<requires, wanted, stage, state, stack, next,
                  initialized_plugins, running_plugins, failed, up>>
  BY DEF Quit, vars
<1>2. RequiredComeFirst'
  BY <1>1, SameLists DEF IInv
<1>3. TypeOK'
  BY <1>1 DEF IInv, TypeOK, Quit, vars
<1>4. Ranked'
  BY <1>1 DEF IInv, Ranked, Ranks
<1>5. Calls'
  BY <1>1
  DEF IInv, Calls, Recursing, Visited, StateIsEntered, Done, After, Entered, Listed
<1>6. Initializing' /\ Starting' /\ Executing' /\ Stopping' /\ CleanExit'
  BY <1>1
  DEF IInv, Initializing, Starting, Executing, Stopping, CleanExit, Listed
<1>7. (Listed(running_plugins) \subseteq up)' /\ (stage = "over" => RequiredOutlive)'
  BY <1>1 DEF IInv, Listed, RequiredOutlive
<1>8. QED  BY <1>2, <1>3, <1>4, <1>5, <1>6, <1>7 DEF IInv

-----------------------------------------------------------------------------
(* The theorems                                                            *)

LEMMA InitIInv == Init => IInv
<1> SUFFICES ASSUME Init PROVE IInv
  OBVIOUS
<1> USE DEF Init
<1>1. Len(<<>>) = 0 /\ <<>> \in Seq(Plugins) /\ <<>> \in Seq(Frames)
  BY EmptySeq
<1>2. TypeOK
  BY <1>1 DEF TypeOK, Stages, States, Frames
<1>3. Ranked
  <2>1. PICK rank \in Rankings :
          \A p \in Plugins : \A d \in requires[p] : rank[d] < rank[p]
    BY DEF Acyclic, Rankings
  <2>2. Ranks(rank)
    BY <1>1, <2>1 DEF Ranks
  <2>3. QED  BY <2>2 DEF Ranked, Rankings
<1>4. Entered = {} /\ Listed(initialized_plugins) = {} /\ Listed(running_plugins) = {}
  BY <1>1 DEF Entered, Listed
<1>5. Calls
  BY <1>1, <1>4
  DEF Calls, Recursing, Visited, StateIsEntered, Done, After
<1>6. Initializing /\ Starting /\ Executing /\ Stopping /\ CleanExit
  BY DEF Initializing, Starting, Executing, Stopping, CleanExit
<1>7. RequiredComeFirst
  BY <1>1 DEF RequiredComeFirst, RequiredFirst
<1>8. QED  BY <1>2, <1>3, <1>4, <1>5, <1>6, <1>7 DEF IInv

LEMMA NextIInv ==
  ASSUME IInv, [Next]_vars
  PROVE  IInv'
<1>1. CASE InitializeWanted
  BY <1>1, WantedStep
<1>2. CASE InitializeDone \/ InitializeThrows
  BY <1>2, InitializeEnds
<1>3. CASE StartNext
  BY <1>3, StartNextStep
<1>4. CASE StartupDone \/ StartupThrows
  BY <1>4, StartupEnds
<1>5. CASE VisitRequired
  BY <1>5, VisitStep
<1>6. CASE PluginReturns
  BY <1>6, ReturnStep
<1>7. CASE ExecReturns \/ ExecThrows
  BY <1>7, ExecEnds
<1>8. CASE ShutdownNext \/ ShutdownThrows
  BY <1>8, ShutdownStep
<1>9. CASE ShutdownDone
  BY <1>9, ShutdownEnds
<1>10. CASE Quit \/ UNCHANGED vars
  BY <1>10, QuitStep
<1>11. QED
  BY <1>1, <1>2, <1>3, <1>4, <1>5, <1>6, <1>7, <1>8, <1>9, <1>10
  DEF Next, MainStep, Exited

(* IInv holds in every reachable state of an application.                  *)
THEOREM Invariance == Spec => []IInv
<1>1. IInv /\ [Next]_vars => IInv'
  BY NextIInv
<1>2. QED  BY InitIInv, <1>1, PTL DEF Spec

(* Whatever the plugins require of each other, the recursion initializes   *)
(* and starts each of them once and behind all it requires.                *)
THEOREM InOrderOfRequirements == Spec => []RequiredComeFirst
<1>1. IInv => RequiredComeFirst
  BY DEF IInv
<1>2. QED  BY <1>1, Invariance, PTL

(* The assertions at the end of plugin<Impl>::initialize and startup hold  *)
(* for each of their callers, and every variable keeps its type.           *)
THEOREM NoAssertionFails == Spec => []LifecycleInv
<1>1. ASSUME IInv
      PROVE  LifecycleInv
  <2>1. stage = "initialize" =>
          \A p \in Plugins : state[p] \in {"registered", "initialized"}
    BY <1>1 DEF IInv, Initializing
  <2>2. ASSUME stage = "startup", stack # <<>>, NEW d \in Top.todo
        PROVE  state[d] \in {"initialized", "started"}
    <3>1. PICK rank \in Rankings : Ranks(rank)
      BY <1>1 DEF IInv, Ranked, Rankings
    <3>2. d \in requires[Top.plugin] /\ d \in Plugins
      BY <1>1, <2>2, <3>1, VisitAsks DEF Recursing
    <3>3. Top \in Frames /\ Len(stack) \in 1 .. Len(stack) /\ Top = stack[Len(stack)]
      BY <1>1, <2>2, StackShape DEF IInv, Top
    <3>4. Top.plugin \in Entered /\ Top.plugin \in Plugins
      BY <3>3 DEF Entered, Frames
    <3>5. state[Top.plugin] = "started"
      BY <1>1, <2>2, <3>4 DEF IInv, Calls, Recursing, StateIsEntered, After
    <3>6. Top.plugin \in Listed(initialized_plugins)
      BY <1>1, <2>2, <3>4, <3>5 DEF IInv, Starting
    <3>7. d \in Listed(initialized_plugins)
      BY <1>1, <3>2, <3>6, RequiredAreListed DEF IInv, TypeOK, RequiredComeFirst
    <3>8. QED  BY <1>1, <2>2, <3>2, <3>7 DEF IInv, Starting
  <2>3. ASSUME stage = "startup", next <= Len(initialized_plugins)
        PROVE  state[initialized_plugins[next]] \in {"initialized", "started"}
    <3>1. next \in 1 .. Len(initialized_plugins)
          /\ initialized_plugins \in Seq(Plugins)
      BY <1>1, <2>3 DEF IInv, TypeOK, Calls, Recursing
    <3>2. initialized_plugins[next] \in Plugins
          /\ initialized_plugins[next] \in Listed(initialized_plugins)
      BY <3>1, ElementOfSeq DEF Listed
    <3>3. QED  BY <1>1, <2>3, <3>2 DEF IInv, Starting
  <2>4. QED  BY <1>1, <2>1, <2>2, <2>3 DEF LifecycleInv, AssertionsHold, IInv
<1>2. QED  BY <1>1, Invariance, PTL

(* A started plugin finds everything it requires started, also during the  *)
(* shutdown, after quit() and after an exception.                          *)
THEOREM RequiredPluginsOutlive == Spec => []RequiredOutlive
<1>1. IInv => RequiredOutlive
  BY Outlive
<1>2. QED  BY <1>1, Invariance, PTL

(* Without an exception main returns with no plugin left started.          *)
THEOREM NothingLeftStarted == Spec => []CleanExit
<1>1. IInv => CleanExit
  BY DEF IInv
<1>2. QED  BY <1>1, Invariance, PTL

(* Only a plugin whose plugin_startup has returned is shut down, and once. *)
THEOREM OnlyStartedShutDown == Spec => ShutdownOnlyStarted
<1>1. ASSUME IInv, [Next]_vars, NEW p \in Plugins,
             state[p] # "stopped", state'[p] = "stopped"
      PROVE  state[p] = "started" /\ p \in up
  <2>1. CASE ShutdownNext \/ ShutdownThrows
    <3>1. Victim \in up /\ Victim \in Plugins /\ state[Victim] = "started"
      BY <1>1, <2>1, VictimStops DEF ShutdownNext, ShutdownThrows
    <3>2. state' = [state EXCEPT ![Victim] = "stopped"]
      BY <2>1, <3>1 DEF ShutdownNext, ShutdownThrows
    <3>3. p = Victim
      BY <1>1, <3>1, <3>2 DEF IInv, TypeOK
    <3>4. QED  BY <3>1, <3>3
  <2>2. CASE InitializeWanted \/ StartNext \/ VisitRequired
    <3>1. \E q, callers : Enter(q, callers)
      BY <2>2 DEF InitializeWanted, StartNext, VisitRequired
    <3>2. PICK q : state' = [state EXCEPT ![q] = After] \/ state' = state
      BY <3>1 DEF Enter
    <3>3. QED  BY <1>1, <3>2 DEF IInv, TypeOK, After
  <2>3. CASE UNCHANGED state
    BY <1>1, <2>3
  <2>4. QED
    BY <1>1, <2>1, <2>2, <2>3
    DEF Next, MainStep, Exited, vars, InitializeDone, InitializeThrows,
        StartupDone, StartupThrows, PluginReturns, ExecReturns, ExecThrows,
        ShutdownDone, Quit
<1>2. IInv /\ [Next]_vars =>
        [\A p \in Plugins :
           state[p] # "stopped" /\ state'[p] = "stopped" =>
             state[p] = "started" /\ p \in up]_vars
  BY <1>1
<1>3. QED  BY <1>2, Invariance, PTL DEF Spec, ShutdownOnlyStarted

-----------------------------------------------------------------------------
(* The callbacks of one plugin, and the end of the recursion               *)

\* A plugin is initialized, started and shut down in this order, each at most
\* once, and it is started only when its own plugin_initialize has returned.
StatesAdvance ==
  [][\A p \in Plugins :
       \/ state'[p] = state[p]
       \/ state[p] = "registered" /\ state'[p] = "initialized"
       \/ /\ state[p] = "initialized" /\ state'[p] = "started"
          /\ p \in Listed(initialized_plugins)
       \/ state[p] = "started" /\ state'[p] = "stopped"]_vars

\* The plugins on which initialize, respectively startup, would still act.
Left == {p \in Plugins : state[p] = Before}

\* The recursion into required plugins is no deeper than there are plugins.
Shallow == Len(stack) <= Cardinality(Plugins)

\* While a call is under way each step of it lowers, in this order, the
\* plugins that are left, the depth of the stack, and what its top has still
\* to visit; or the call is left by an exception.
CallsEnd ==
  [][stack # <<>> =>
       \/ stack' = <<>>
       \/ Left' \subseteq Left /\ Left' # Left
       \/ Left' = Left /\ Len(stack') < Len(stack)
       \/ /\ Left' = Left /\ Len(stack') = Len(stack)
          /\ Top'.todo \subseteq Top.todo /\ Top'.todo # Top.todo]_stack

LEMMA EnterAdvances ==
  ASSUME IInv, Recursing, NEW q \in Plugins, NEW callers, Enter(q, callers),
         NEW p \in Plugins
  PROVE  \/ state'[p] = state[p]
         \/ state[p] = "registered" /\ state'[p] = "initialized"
         \/ /\ state[p] = "initialized" /\ state'[p] = "started"
            /\ p \in Listed(initialized_plugins)
<1>1. CASE state[q] = Before /\ state' = [state EXCEPT ![q] = After]
  <2>1. CASE p = q
    <3>1. state'[p] = After /\ state[p] = Before
      BY <1>1, <2>1 DEF IInv, TypeOK
    <3>2. CASE stage = "initialize"
      BY <3>1, <3>2 DEF Before, After
    <3>3. CASE stage = "startup"
      <4>1. state[p] = "initialized" /\ state'[p] = "started"
        BY <3>1, <3>3 DEF Before, After
      <4>2. p \in Listed(initialized_plugins)
        BY <3>3, <4>1 DEF IInv, Starting
      <4>3. QED  BY <4>1, <4>2
    <3>4. QED  BY <3>2, <3>3 DEF Recursing
  <2>2. CASE p # q
    BY <1>1, <2>2 DEF IInv, TypeOK
  <2>3. QED  BY <2>1, <2>2
<1>2. QED  BY <1>1 DEF Enter

(* The application calls plugin_initialize, plugin_startup and             *)
(* plugin_shutdown of a plugin in this order and at most once each, though *)
(* several plugins may require it and the lists may name it as well.       *)
THEOREM CallbacksOnceAndInOrder == Spec => StatesAdvance
<1>1. ASSUME IInv, [Next]_vars, NEW p \in Plugins
      PROVE  \/ state'[p] = state[p]
             \/ state[p] = "registered" /\ state'[p] = "initialized"
             \/ /\ state[p] = "initialized" /\ state'[p] = "started"
                /\ p \in Listed(initialized_plugins)
             \/ state[p] = "started" /\ state'[p] = "stopped"
  <2>1. CASE ShutdownNext \/ ShutdownThrows
    <3>1. Victim \in Plugins /\ state[Victim] = "started"
      BY <1>1, <2>1, VictimStops DEF ShutdownNext, ShutdownThrows
    <3>2. state' = [state EXCEPT ![Victim] = "stopped"]
      BY <2>1, <3>1 DEF ShutdownNext, ShutdownThrows
    <3>3. state'[p] = IF p = Victim THEN "stopped" ELSE state[p]
      BY <1>1, <3>1, <3>2 DEF IInv, TypeOK
    <3>4. QED  BY <3>1, <3>3
  <2>2. CASE InitializeWanted
    <3>1. PICK q \in wanted : Enter(q, <<>>)
      BY <2>2 DEF InitializeWanted
    <3>2. q \in Plugins /\ Recursing
      BY <1>1, <2>2, <3>1 DEF InitializeWanted, Recursing, IInv, TypeOK
    <3>3. QED  BY <1>1, <3>1, <3>2, EnterAdvances
  <2>3. CASE StartNext
    <3>1. Enter(initialized_plugins[next], <<>>) /\ Recursing
      BY <2>3 DEF StartNext, Recursing
    <3>2. initialized_plugins[next] \in Plugins
      <4>1. initialized_plugins \in Seq(Plugins) /\ next \in 1 .. Len(initialized_plugins)
        BY <1>1, <2>3, <3>1 DEF StartNext, IInv, TypeOK, Calls
      <4>2. QED  BY <4>1, ElementOfSeq
    <3>3. QED  BY <1>1, <3>1, <3>2, EnterAdvances
  <2>4. CASE VisitRequired
    <3>1. PICK d \in Top.todo : Enter(d, Append(Callers, [Top EXCEPT !.todo = @ \ {d}]))
      BY <2>4 DEF VisitRequired
    <3>2. d \in Plugins /\ Recursing
      BY <1>1, <2>4, <3>1, StackShape DEF VisitRequired, Recursing, IInv, Frames
    <3>3. QED  BY <1>1, <3>1, <3>2, EnterAdvances
  <2>5. CASE UNCHANGED state
    BY <2>5
  <2>6. QED
    BY <1>1, <2>1, <2>2, <2>3, <2>4, <2>5
    DEF Next, MainStep, Exited, vars, InitializeDone, InitializeThrows,
        StartupDone, StartupThrows, PluginReturns, ExecReturns, ExecThrows,
        ShutdownDone, Quit
<1>2. IInv /\ [Next]_vars =>
        [\A p \in Plugins :
           \/ state'[p] = state[p]
           \/ state[p] = "registered" /\ state'[p] = "initialized"
           \/ /\ state[p] = "initialized" /\ state'[p] = "started"
              /\ p \in Listed(initialized_plugins)
           \/ state[p] = "started" /\ state'[p] = "stopped"]_vars
  BY <1>1
<1>3. QED  BY <1>2, Invariance, PTL DEF Spec, StatesAdvance

LEMMA FirstNumbers ==
  ASSUME NEW n \in Nat
  PROVE  IsFiniteSet(1 .. n) /\ Cardinality(1 .. n) = n
<1>1. 1 \in Int /\ n \in Int
  OBVIOUS
<1>2. IsFiniteSet(1 .. n) /\ Cardinality(1 .. n) = IF 1 > n THEN 0 ELSE n - 1 + 1
  BY <1>1, FS_Interval, Zenon
<1>3. (IF 1 > n THEN 0 ELSE n - 1 + 1) = n
  OBVIOUS
<1>4. QED  BY <1>2, <1>3

\* The plugins on the stack differ, since their ranks do.
LEMMA StackIsShallow == IInv => Shallow
<1> SUFFICES ASSUME IInv PROVE Shallow
  OBVIOUS
<1>1. /\ Cardinality(Plugins) \in Nat /\ IsFiniteSet(Plugins)
      /\ Len(stack) \in Nat /\ stack \in Seq(Frames)
  BY FS_CardinalityType, PluginsAssumption, LenProperties DEF IInv, TypeOK, Frames
<1>2. PICK rank \in Rankings : Ranks(rank)
  BY DEF IInv, Ranked, Rankings
<1> DEFINE f == [i \in 1 .. Len(stack) |-> stack[i].plugin]
<1>3. f \in [1 .. Len(stack) -> Plugins]
  <2>1. \A i \in 1 .. Len(stack) : stack[i] \in Frames
    BY <1>1, ElementOfSeq
  <2>2. \A i \in 1 .. Len(stack) : stack[i].plugin \in Plugins
    BY <2>1 DEF Frames
  <2>3. QED  BY <2>2
<1>4. IsFiniteSet(1 .. Len(stack)) /\ Cardinality(1 .. Len(stack)) = Len(stack)
  BY <1>1, FirstNumbers
<1>5. ASSUME NEW i \in 1 .. Len(stack), NEW j \in 1 .. Len(stack), i # j
      PROVE  f[i] # f[j]
  <2>1. /\ stack[i].plugin \in Plugins /\ stack[j].plugin \in Plugins
        /\ f[i] = stack[i].plugin /\ f[j] = stack[j].plugin
    BY <1>3
  <2>2. rank[stack[i].plugin] \in Int /\ rank[stack[j].plugin] \in Int
    BY <2>1, RankIsInt
  <2>3. CASE i < j
    <3>1. rank[stack[j].plugin] < rank[stack[i].plugin]
      BY <1>2, <2>3 DEF Ranks
    <3>2. QED  BY <2>1, <2>2, <3>1
  <2>4. CASE j < i
    <3>1. rank[stack[i].plugin] < rank[stack[j].plugin]
      BY <1>2, <2>4 DEF Ranks
    <3>2. QED  BY <2>1, <2>2, <3>1
  <2>5. QED  BY <1>1, <1>5, <2>3, <2>4
<1> HIDE DEF f
<1>6. ~(Cardinality(Plugins) < Len(stack))
  BY <1>1, <1>3, <1>4, <1>5, FS_PigeonHole
<1>7. QED  BY <1>1, <1>6 DEF Shallow

LEMMA CallStep ==
  ASSUME IInv, Next, stack # <<>>, stack' # stack
  PROVE  \/ stack' = <<>>
         \/ Left' \subseteq Left /\ Left' # Left
         \/ Left' = Left /\ Len(stack') < Len(stack)
         \/ /\ Left' = Left /\ Len(stack') = Len(stack)
            /\ Top'.todo \subseteq Top.todo /\ Top'.todo # Top.todo
<1>1. /\ Len(stack) \in Nat /\ Len(stack) > 0
      /\ Top \in Frames /\ Callers \in Seq(Frames)
      /\ Len(Callers) = Len(stack) - 1
  BY StackShape DEF IInv
<1>2. CASE VisitRequired
  <2>1. PICK d \in Top.todo : Enter(d, Append(Callers, [Top EXCEPT !.todo = @ \ {d}]))
    BY <1>2 DEF VisitRequired
  <2>2. Before' = Before /\ After # Before
    BY <1>2 DEF VisitRequired, Before, After
  <2> DEFINE visited == [Top EXCEPT !.todo = @ \ {d}]
  <2>3. d \in Plugins /\ visited \in Frames /\ visited.todo = Top.todo \ {d}
    BY <1>1 DEF Frames
  <2>4. CASE state[d] = Before
    <3>1. state' = [state EXCEPT ![d] = After]
      BY <2>1, <2>4 DEF Enter
    <3>2. \A p \in Plugins : state'[p] = IF p = d THEN After ELSE state[p]
      BY <2>3, <3>1 DEF IInv, TypeOK
    <3>3. d \in Left /\ d \notin Left' /\ Left' \subseteq Left
      BY <2>2, <2>3, <2>4, <3>2 DEF Left
    <3>4. QED  BY <3>3
  <2>5. CASE state[d] # Before
    <3>1. stack' = Append(Callers, visited) /\ state' = state
      BY <2>1, <2>5 DEF Enter
    <3> HIDE DEF visited
    <3>2. /\ Len(stack') = Len(Callers) + 1
          /\ stack'[Len(Callers) + 1] = visited
      BY <1>1, <2>3, <3>1, Pushed
    <3>3. Len(stack') = Len(stack) /\ Top' = visited
      <4>1. Len(stack') = Len(stack)
        BY <1>1, <3>2
      <4>2. Top' = stack'[Len(stack')]
        BY Zenon DEF Top
      <4>3. QED  BY <3>2, <4>1, <4>2
    <3>4. Left' = Left
      BY <2>2, <3>1 DEF Left
    <3>5. Top'.todo \subseteq Top.todo /\ Top'.todo # Top.todo
      BY <2>1, <2>3, <3>3
    <3>6. QED  BY <3>3, <3>4, <3>5
  <2>6. QED  BY <2>4, <2>5
<1>3. CASE PluginReturns
  <2>1. stack' = Callers /\ UNCHANGED <<state, stage>>
    BY <1>3 DEF PluginReturns
  <2>2. Left' = Left
    BY <2>1 DEF Left, Before
  <2>3. QED  BY <1>1, <2>1, <2>2
<1>4. CASE InitializeThrows \/ StartupThrows
  BY <1>4 DEF InitializeThrows, StartupThrows
<1>5. ~(VisitRequired \/ PluginReturns \/ InitializeThrows \/ StartupThrows) => FALSE
  <2>1. ~InitializeWanted /\ ~InitializeDone /\ ~StartNext /\ ~StartupDone
    BY DEF InitializeWanted, InitializeDone, StartNext, StartupDone
  <2>2. ~(ExecReturns \/ ExecThrows \/ ShutdownNext \/ ShutdownThrows
          \/ ShutdownDone \/ Quit \/ Exited)
    BY DEF ExecReturns, ExecThrows, ShutdownNext, ShutdownThrows, ShutdownDone,
           Quit, Exited, vars
  <2>3. QED  BY <2>1, <2>2 DEF Next, MainStep
<1>6. QED  BY <1>2, <1>3, <1>4, <1>5

(* Whatever the plugins require of each other, initialize and startup of   *)
(* a plugin come to an end: the recursion has no cycle to follow, and      *)
(* visits nothing twice.                                                   *)
THEOREM RecursionEnds == Spec => []Shallow /\ CallsEnd
<1>1. IInv /\ [Next]_vars =>
        [stack # <<>> =>
           \/ stack' = <<>>
           \/ Left' \subseteq Left /\ Left' # Left
           \/ Left' = Left /\ Len(stack') < Len(stack)
           \/ /\ Left' = Left /\ Len(stack') = Len(stack)
              /\ Top'.todo \subseteq Top.todo /\ Top'.todo # Top.todo]_stack
  BY CallStep, Zenon DEF vars
<1>2. QED  BY <1>1, StackIsShallow, Invariance, PTL DEF Spec, CallsEnd
=============================================================================
