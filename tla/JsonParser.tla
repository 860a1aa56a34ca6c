----------------------------- MODULE JsonParser -----------------------------
(***************************************************************************)
(* json::parse: nlohmann::parser::sax_parse_internal reads the tokens of   *)
(* the scanner, json_sax_dom_parser builds the document.  The parser keeps *)
(* its place in `states' (TRUE: in an array, FALSE: in an object) and in   *)
(* what it wants of the next token; the builder keeps references into the  *)
(* document it builds: `ref_stack', the containers that are open, and      *)
(* `object_element', where the next value of an object goes.               *)
(*                                                                         *)
(* The document is a heap: node n is heap[n], the root is node 1, and a    *)
(* reference is the number of a node.  The tokens "k" and "l" are strings  *)
(* (keys or values), "v" stands for every other scalar; "error" is a token *)
(* the scanner refused, or a number no double can hold.                    *)
(***************************************************************************)
EXTENDS Naturals, Sequences, FiniteSets, SequencesExt, Functions

CONSTANT MaxLength          \* bound: the number of tokens

Strings == {"k", "l"}
Scalars == Strings \cup {"v"}
Tokens  == Scalars \cup {"[", "]", "{", "}", ":", ",", "error"}

VARIABLES
    text,           \* history: the tokens read, with the end
    wants,          \* what the next token is read for
    states, ref_stack, object_element,
    heap

vars == <<text, wants, states, ref_stack, object_element, heap>>
document == <<ref_stack, object_element, heap>>

Scalar(t)   == [kind |-> "scalar", value |-> t]
EmptyArray  == [kind |-> "array", items |-> <<>>]
EmptyObject == [kind |-> "object", members |-> [k \in {} |-> 0]]

-----------------------------------------------------------------------------
\* get_token: the end of the input may come at any time.
Read(t) == (t # "end" => Len(text) < MaxLength) /\ text' = Append(text, t)

Refuse == wants' = "refused" /\ UNCHANGED <<states, document>>

\* handle_value: the new value becomes the root, the last item of the array that is
\* open, or what object_element refers to.  Target is the node it gets.
Target == IF ref_stack # <<>> /\ heap[Last(ref_stack)].kind = "object"
          THEN object_element
          ELSE Len(heap) + 1
HandleValue(v) ==
    heap' = IF ref_stack = <<>> THEN <<v>>
            ELSE IF heap[Last(ref_stack)].kind = "array"
            THEN Append([heap EXCEPT ![Last(ref_stack)].items = Append(@, Target)], v)
            ELSE [heap EXCEPT ![object_element] = v]

StartContainer(v) == HandleValue(v) /\ ref_stack' = Append(ref_stack, Target)
EndContainer      == ref_stack' = Front(ref_stack) /\ UNCHANGED <<object_element, heap>>

\* An element of std::map is never replaced by inserting.
Insert(members, k, n) ==
    [x \in DOMAIN members \cup {k} |-> IF x \in DOMAIN members THEN members[x] ELSE n]

\* Fault: a key that is there already gets a second element, which nothing refers to.
KeyOnlyNew(k) ==
    LET object == heap[Last(ref_stack)].members IN
    /\ object_element' = Len(heap) + 1
    /\ heap' = Append([heap EXCEPT ![Last(ref_stack)].members =
                          Insert(object, k, Len(heap) + 1)], Scalar("null"))
\* key: operator[] of the map finds the element or adds a null.
Key(k) ==
    LET object == heap[Last(ref_stack)].members IN
    IF k \in DOMAIN object
    THEN object_element' = object[k] /\ UNCHANGED heap
    ELSE /\ object_element' = Len(heap) + 1
         /\ heap' = Append([heap EXCEPT ![Last(ref_stack)].members =
                               Insert(object, k, Len(heap) + 1)], Scalar("null"))

-----------------------------------------------------------------------------
\* What follows a value, by the container it is in.
AfterValue(stack) == IF stack = <<>> THEN "end" ELSE "comma"

\* The switch over the token that should begin a value; stack becomes states.
BeginValue(t, stack) ==
    /\ states' = stack
    /\ CASE t = "{" -> StartContainer(EmptyObject) /\ wants' = "first key" /\ UNCHANGED object_element
         [] t = "[" -> StartContainer(EmptyArray) /\ wants' = "first item" /\ UNCHANGED object_element
         [] t \in Scalars -> /\ HandleValue(Scalar(t)) /\ wants' = AfterValue(stack)
                             /\ UNCHANGED <<ref_stack, object_element>>
         [] OTHER -> wants' = "refused" /\ UNCHANGED document

Value(t) == wants = "value" /\ Read(t) /\ BeginValue(t, states)

\* Fault: "]" right after "[" is taken for a value that is missing.
FirstItemNeeded(t) == wants = "first item" /\ Read(t) /\ BeginValue(t, Append(states, TRUE))
\* After "[": the array is empty, or this is its first item.
FirstItem(t) ==
    /\ wants = "first item" /\ Read(t)
    /\ IF t = "]"
       THEN EndContainer /\ wants' = AfterValue(states) /\ UNCHANGED states
       ELSE BeginValue(t, Append(states, TRUE))

\* After "{" or a comma in an object: a key; right after "{" also the end.
FirstKey(t) ==
    /\ wants \in {"first key", "key"} /\ Read(t)
    /\ CASE t = "}" /\ wants = "first key" ->
               EndContainer /\ wants' = AfterValue(states) /\ UNCHANGED states
         [] t \in Strings ->
               /\ Key(t)
               /\ wants' = IF wants = "key" THEN "colon" ELSE "first colon"
               /\ UNCHANGED <<states, ref_stack>>
         [] OTHER -> Refuse

\* The object is on `states' from its first colon on.
Colon(t) ==
    /\ wants \in {"first colon", "colon"} /\ Read(t)
    /\ IF t = ":"
       THEN /\ wants' = "value"
            /\ states' = IF wants = "colon" THEN states ELSE Append(states, FALSE)
            /\ UNCHANGED document
       ELSE Refuse

\* Fault: the end of a container leaves it on `states'.
CloseKeepsState ==
    EndContainer /\ wants' = AfterValue(Front(states)) /\ UNCHANGED states
\* The end of the container we are in; the one around it is evaluated next.
Close == EndContainer /\ states' = Front(states) /\ wants' = AfterValue(states')

Comma(t) ==
    /\ wants = "comma" /\ Read(t)
    /\ LET inArray == Last(states)
       IN  CASE t = "," -> /\ wants' = IF inArray THEN "value" ELSE "key"
                           /\ UNCHANGED <<states, document>>
             [] t = (IF inArray THEN "]" ELSE "}") -> Close
             [] OTHER -> Refuse

\* parse, strict: the value must be followed by the end of the input.
End(t) ==
    /\ wants = "end" /\ Read(t)
    /\ IF t = "end" THEN wants' = "parsed" /\ UNCHANGED <<states, document>> ELSE Refuse

-----------------------------------------------------------------------------
Init ==
    /\ text = <<>> /\ wants = "value"
    /\ states = <<>> /\ ref_stack = <<>>
    /\ object_element = 0 /\ heap = <<>>

Next == \E t \in Tokens \cup {"end"} :
           Value(t) \/ FirstItem(t) \/ FirstKey(t) \/ Colon(t) \/ Comma(t) \/ End(t)

Spec == Init /\ [][Next]_vars

-----------------------------------------------------------------------------
\* The references stay good: the containers that are open lie one in the other from
\* the root down, each the last thing put into the one around it, so that nothing is
\* appended to an array while a reference into it is held (it may move its items), and
\* the value of a member goes into the innermost one.
ReferencesAreAPath ==
    /\ ref_stack # <<>> => ref_stack[1] = 1
    /\ \A i \in 1 .. Len(ref_stack) - 1 :
          LET outer == heap[ref_stack[i]] IN
          IF outer.kind = "array" THEN Last(outer.items) = ref_stack[i + 1]
                                  ELSE ref_stack[i + 1] \in Range(outer.members)
    /\ wants \in {"first colon", "colon"} \/ (wants = "value" /\ states # <<>> /\ ~Last(states)) =>
          object_element \in Range(heap[Last(ref_stack)].members)

\* `JSON_ASSERT(ref_stack.back()->is_array())' and the assertions like it in the builder:
\* parser and builder agree on the containers that are open, one token behind at most.
StacksAgree ==
    wants # "refused" =>
        LET kinds == [i \in DOMAIN ref_stack |-> heap[ref_stack[i]].kind = "array"]
        IN  IF wants \in {"first item", "first key", "first colon"}
            THEN states = Front(kinds) /\ (Last(kinds) <=> wants = "first item")
            ELSE states = kinds
=============================================================================
