------------------------------- MODULE ToolStack -------------------------------
(***************************************************************************)
(* Extensions stacked on a tool: first they are bound one over the other,  *)
(* each composing a signature from that of the layer below, then calls go  *)
(* down through the layers and their outcomes come back up, through        *)
(* failures and cancellations.  The tool is generate_embeddings, or one    *)
(* that takes more arguments; what a chain calls next is pad_embeddings.   *)
(*                                                                         *)
(* There is one call at a time: what concurrent calls do to each other in  *)
(* a cache, a parallel batch and under a proxy is CacheBranch,             *)
(* BatchExecutor and ProxyCall.  An answer is the set of the widths of the *)
(* vectors in it, however they are nested, with an ErrorText for each item *)
(* that failed in a batch.                                                 *)
(***************************************************************************)
EXTENDS Integers, SequencesExt

CONSTANTS
    ToolSignatures, \* signatures of the tool: sequences of parameters
    ReturnOf,       \* the annotation of what the tool of a signature returns
    Texts,          \* how many texts a call may give the tool
    Batches,        \* the texts that the items of a batch may give it
    Secrets,        \* what a call may give for its parameter `secret`, if it has one
    Widths,         \* widths of the vectors a model may answer with
    Width,          \* the width schemas ask for and chains pad to
    ErrorText,      \* str(exc), in the place of an item's result
    None,
    MaxLayers,      \* bound on the number of extensions
    MaxCalls        \* bound on the number of calls

ASSUME WidthAssumption == Widths \subseteq Nat /\ Width \in Nat /\ ErrorText \notin Nat
ASSUME BatchAssumption == Batches \subseteq Seq(Texts)
ASSUME BoundAssumption == {MaxLayers, MaxCalls} \subseteq Nat

VARIABLES
    phase,      \* "binding", "refused" or "calling"
    layers,     \* the tool and the extensions over it, outermost last
    sigs,       \* the signature each layer presents
    stack,      \* the calls under way, innermost last
    outcome,    \* of the call that has just ended, not yet seen by its caller
    store,      \* the values of each cache layer
    metrics,    \* the counters of each prometheus_metrics layer
    given,      \* history: the arguments of the outermost call
    made,       \* history: the arguments and answers of the tool
    ended       \* history: how many outermost calls ended in each way

vars == <<phase, layers, sigs, stack, outcome, store, metrics, given, made, ended>>

--------------------------------------------------------------------------------
(* Signatures.                                                                  *)

\* Kinds of parameters, in the order in which a signature may have them.
PositionalOrKeyword == 1
KeywordOnly == 3
VarKeyword == 4

\* What an annotation is: a value, or a string that evaluates to one where `Any` is
\* imported ("Any"), or only in the tool's own module ("own").  A parameter that no model
\* can have as a field, for its annotation or its name, has an "unfit" one.
Annotations == {"value", "Any", "own", "unfit"}

Annotated(name, kind, annotation) == [name |-> name, kind |-> kind, annotation |-> annotation]

Param(name, kind) == Annotated(name, kind, "value")

Names(sig) == {p.name : p \in Range(sig)}

Named(sig) == {p.name : p \in {q \in Range(sig) : q.kind # VarKeyword}}

HasVar(sig) == \E p \in Range(sig) : p.kind = VarKeyword

WithAddedParamsLast(sig, new) == sig \o new

\* Before a trailing **kwargs.
WithAddedParams(sig, new) ==
    LET isVar(p) == p.kind = VarKeyword
        index    == SelectInSeq(sig, isVar)
    IN IF index = 0 THEN sig \o new
       ELSE SubSeq(sig, 1, index - 1) \o new \o SubSeq(sig, index, Len(sig))

\* The control kwargs of each extension, keyword-only parameters that its wrapper takes
\* out of a call.
Controls(e) == CASE e = "cache" -> <<"exp">>
                 [] e = "proxy" -> <<"proxies">>
                 [] e = "chain" -> <<"jq_expression", "next_tool_name">>
                 [] OTHER       -> << >>

WithControls(e, sig) ==
    WithAddedParams(sig, [i \in DOMAIN Controls(e) |-> Param(Controls(e)[i], KeywordOnly)])

BatchSignature == LET names == <<"params", "execution_mode", "max_concurrent", "fail_fast">>
                  IN [i \in DOMAIN names |-> Param(names[i], PositionalOrKeyword)]

\* The tool's own parameters and those that extensions present.
ParamNames == (UNION {Names(sig) : sig \in ToolSignatures}) \cup Names(BatchSignature)
              \cup {"exp", "proxies", "jq_expression", "next_tool_name"}

Parameters == [name : ParamNames, kind : {PositionalOrKeyword, KeywordOnly, VarKeyword},
               annotation : Annotations]

\* inspect.Signature raises for two parameters of one name, and for kinds out of order.
Accepted(sig) == \A i, j \in DOMAIN sig :
                    i < j => sig[i].name # sig[j].name /\ sig[i].kind <= sig[j].kind

\* No function has two parameters like **kwargs.
OneVar(sig) == \A i, j \in DOMAIN sig : sig[i].kind = VarKeyword /\ sig[j].kind = VarKeyword => i = j

ASSUME SignatureAssumption ==
    \A sig \in ToolSignatures : sig \in Seq(Parameters) /\ Accepted(sig) /\ OneVar(sig)

ASSUME ReturnAssumption == ReturnOf \in [ToolSignatures -> Annotations \ {"unfit"}]

--------------------------------------------------------------------------------
(* The factories.  One that raises ends the binding, its extension the last of  *)
(* the layers.                                                                  *)

Bind(e, sig, refused) ==
    /\ phase = "binding" /\ Len(layers) <= MaxLayers
    /\ layers' = Append(layers, e)
    /\ IF Accepted(sig) /\ ~refused
       THEN sigs' = Append(sigs, sig) /\ UNCHANGED phase
       ELSE phase' = "refused" /\ UNCHANGED sigs
    /\ store' = Append(store, << >>)
    /\ metrics' = Append(metrics, [calls |-> 0, errors |-> 0])
    /\ UNCHANGED <<stack, outcome, given, made, ended>>

BindMetrics == Bind("prometheus_metrics", Last(sigs), FALSE)

BindCache == Bind("cache", WithControls("cache", Last(sigs)), FALSE)

BindProxy == Bind("proxy", WithControls("proxy", Last(sigs)), FALSE)

BindChain == Bind("chain", WithControls("chain", Last(sigs)), FALSE)

\* The extensions that state a return annotation of their own; their modules import Any.
Transformers == {"chain", "output_schema", "batch"}

\* The annotations that a batch over layer l evaluates: of the parameters, and of what is
\* returned, which the other extensions leave as it is.
AnnotationsAt(l) ==
    {p.annotation : p \in Range(sigs[l])}
    \cup IF \E k \in 2 .. l : layers[k] \in Transformers THEN {"value"} ELSE {ReturnOf[sigs[1]]}

\* The strings that do not evaluate there: the globals of a function made by makefun are
\* those of the module of its extension.
Foreign(l) == CASE l = 1                       -> {}
                [] layers[l] \in Transformers -> {"own"}
                [] OTHER                       -> {"own", "Any"}

\* Its input model has a field for each parameter of the signature that it replaces.
BindBatch == LET l == Len(layers)
             IN Bind("batch", BatchSignature, AnnotationsAt(l) \cap (Foreign(l) \cup {"unfit"}) # {})

\* The schema in its config is missing or malformed, or it is neither.
BindOutputSchema == \E refused \in BOOLEAN : Bind("output_schema", Last(sigs), refused)

--------------------------------------------------------------------------------
(* Calls.                                                                       *)

Returned(answer) == [how |-> "returned", answer |-> answer]
Raised    == [how |-> "raised"]        \* an Exception
Cancelled == [how |-> "cancelled"]     \* a CancelledError, which is none

Answers == SUBSET (Nat \cup {ErrorText})

Outcomes == [how : {"returned"}, answer : Answers] \cup {Raised, Cancelled}

ASSUME NoneAssumption == None \notin Outcomes

\* The call of a layer; layer 0 is the tool a chain calls next.  A batch has items to
\* run and results.
Frame(l, args) == [layer |-> l, args |-> args, at |-> "called", todo |-> << >>, got |-> {}]

Top == Last(stack)

Kind(f) == IF f.layer = 0 THEN "next" ELSE layers[f.layer]

\* The top frame, now f, calls a layer.
CallFrom(f, l, args) == /\ stack' = Append(Append(Front(stack), f), Frame(l, args))
                        /\ outcome' = None
                        /\ UNCHANGED metrics

CallBelow(args) == CallFrom([Top EXCEPT !.at = "waiting"], Top.layer - 1, args)

RecordedReturning(l, o) == IF o.how = "returned" THEN [metrics EXCEPT ![l].calls = @ + 1]
                           ELSE [metrics EXCEPT ![l].errors = @ + 1]

RecordedRaising(l, o) == [metrics EXCEPT ![l] = [calls  |-> @.calls + 1,
                                                 errors |-> @.errors + IF o.how = "returned" THEN 0 ELSE 1]]

\* record_tool_metrics(), in the finally clause of the wrapper.
Recorded(l, o) == [metrics EXCEPT ![l] = [calls  |-> @.calls + 1,
                                          errors |-> @.errors + IF o.how = "raised" THEN 1 ELSE 0]]

\* The top frame ends.
Leave(o) == /\ stack' = Front(stack)
            /\ outcome' = o
            /\ metrics' = IF Kind(Top) = "prometheus_metrics" THEN Recorded(Top.layer, o) ELSE metrics

IsCalled(kinds) == stack # << >> /\ outcome = None /\ Kind(Top) \in kinds

IsBack(kinds) == stack # << >> /\ outcome # None /\ Kind(Top) \in kinds

IsBackWith(kinds, how) == IsBack(kinds) /\ outcome.how = how

\* What a step in a call leaves alone, unless it says so.
Fixed == <<phase, layers, sigs, given, ended>>

Data == <<store, made>>

\* A layer's arguments without its control kwargs.
TakenFirst(e) == IF Controls(e) = << >> THEN {} ELSE {Head(Controls(e))}

Taken(e) == Range(Controls(e))

Passed(f) == Restrict(f.args, DOMAIN f.args \ Taken(Kind(f)))

\* What a caller chooses of a call, or of an item of a batch: the values that matter.
Requests == [texts : Texts, items : Batches, fail_fast : BOOLEAN,
             jq : IF "chain" \in Range(layers) THEN {"all", "first"} ELSE {"all"},
             secret : IF "secret" \in Names(sigs[1]) THEN Secrets ELSE {None}]

\* Another keyword for the **kwargs of a direct call; the input model of a batch has a
\* field for the **kwargs itself.
Extras(sig, direct) == IF direct /\ HasVar(sig) THEN {"another"} ELSE Names(sig) \ Named(sig)

\* The items of a batch, each the request of a call.
Items(request) == [i \in DOMAIN request.items |-> [request EXCEPT !.texts = request.items[i]]]

\* Arguments for the signature of a layer: all its parameters, as makefun passes them on
\* and model_dump() of a batch's item gives them.
Arguments(l, request, direct) ==
    [n \in Named(sigs[l]) \cup Extras(sigs[l], direct) |->
        CASE n = "texts"         -> request.texts
          [] n = "params"        -> Items(request)
          [] n = "jq_expression" -> request.jq
          [] n = "fail_fast"     -> request.fail_fast
          [] n = "secret"        -> request.secret
          [] OTHER               -> n]

Delivered == ended["returned"] + ended["raised"] + ended["cancelled"]

Call(args) ==
    /\ phase \in {"binding", "calling"} /\ stack = << >> /\ outcome = None
    /\ Delivered < MaxCalls
    /\ phase' = "calling"
    /\ stack' = <<Frame(Len(layers), args)>>
    /\ given' = args
    /\ UNCHANGED <<layers, sigs, outcome, Data, metrics, ended>>

\* The caller has its answer or its exception.
Deliver == /\ stack = << >> /\ outcome # None
           /\ ended' = [ended EXCEPT ![outcome.how] = @ + 1]
           /\ outcome' = None /\ given' = None
           /\ UNCHANGED <<phase, layers, sigs, stack, Data, metrics>>

\* generate_embeddings: one vector per text, all of the model's width; or it fails.
ToolRuns == /\ IsCalled({"tool"})
            /\ \/ Leave(Raised) /\ UNCHANGED made
               \/ \E w \in Widths :
                    LET answer == IF Top.args["texts"] = 0 THEN {} ELSE {w}
                    IN /\ made' = made \cup {[args |-> Top.args, answer |-> answer]}
                       /\ Leave(Returned(answer))
            /\ UNCHANGED <<Fixed, store>>

\* pad_embeddings of a single vector, or of vectors: pad_single() refuses a vector
\* that is wider than the target.
PaddedUnchecked(vectors) == IF ErrorText \in vectors THEN Raised
                            ELSE Returned({IF w < Width THEN Width ELSE w : w \in vectors})

Padded(vectors) == IF ErrorText \in vectors \/ \E w \in vectors : w > Width
                   THEN Raised
                   ELSE Returned(IF vectors = {} THEN {} ELSE {Width})

\* `if not embeddings`: a single vector without components is an empty list, too.
PadRuns == /\ IsCalled({"next"})
           /\ Leave(IF Top.args = [single |-> TRUE, vectors |-> {0}] THEN Returned({})
                    ELSE Padded(Top.args.vectors))
           /\ UNCHANGED <<Fixed, Data>>

\* Tools and the resolution of a proxy's host are awaited, and may be cancelled.
CancelRunning == /\ IsCalled({"tool", "next", "proxy"})
                 /\ Leave(Cancelled)
                 /\ UNCHANGED <<Fixed, Data>>

\* Called wrappers that call the layer below.
WrapperCalls == /\ IsCalled({"prometheus_metrics", "output_schema", "proxy"})
                /\ CallBelow(Passed(Top))
                /\ UNCHANGED <<Fixed, Data>>

\* build_route() raises.
RouteRefused == /\ IsCalled({"proxy"})
                /\ Leave(Raised)
                /\ UNCHANGED <<Fixed, Data>>

\* What passes on whatever comes back; only a batch stops an exception.
PassOn == /\ \/ IsBack({"prometheus_metrics", "proxy"})
             \/ IsBack({"chain"}) /\ Top.at = "next"
             \/ IsBack({"cache", "chain", "output_schema"}) /\ outcome.how # "returned"
          /\ Leave(outcome)
          /\ UNCHANGED <<Fixed, Data>>

--------------------------------------------------------------------------------
(* cache.                                                                       *)

\* What a value that json.dumps() cannot encode is in a key is what str() makes of it: all
\* secrets are alike, also those in the items of a batch.
Masked == "**********"

ItemPrinted(item) == [item EXCEPT !.secret = Masked]

\* The key is computed from the arguments, makefun passing all of them by keyword.
KeyOfPositional(args) == << >>

KeyOf(args) == [n \in DOMAIN args |->
    CASE n = "secret" -> Masked
      [] n = "params" -> [i \in DOMAIN args[n] |-> ItemPrinted(args[n][i])]
      [] OTHER        -> args[n]]

\* compute_key() raises: an argument has keys of several types.
KeyFails == /\ IsCalled({"cache"})
            /\ Leave(Raised)
            /\ UNCHANGED <<Fixed, Data>>

CacheHits == /\ IsCalled({"cache"})
             /\ LET key == KeyOf(Passed(Top)) IN
                /\ key \in DOMAIN store[Top.layer]
                /\ Leave(Returned(store[Top.layer][key]))
             /\ UNCHANGED <<Fixed, Data>>

\* The value is not there, has expired or was evicted.
CacheMisses == /\ IsCalled({"cache"})
               /\ CallBelow(Passed(Top))
               /\ UNCHANGED <<Fixed, Data>>

CacheWrites == /\ IsBackWith({"cache"}, "returned")
               /\ LET written == KeyOf(Passed(Top)) IN
                  store' = [store EXCEPT ![Top.layer] =
                              [key \in DOMAIN @ \cup {written} |->
                                  IF key = written THEN outcome.answer ELSE @[key]]]
               /\ Leave(outcome)
               /\ UNCHANGED <<Fixed, made>>

--------------------------------------------------------------------------------
(* output_schema, chain and batch.                                              *)

Conforms(answer) == answer \subseteq {Width}

Validate == /\ IsBackWith({"output_schema"}, "returned")
            /\ Leave(IF Conforms(outcome.answer) THEN outcome ELSE Raised)
            /\ UNCHANGED <<Fixed, Data>>

\* run_tool(orig_name, kwargs)
ChainCalls == /\ IsCalled({"chain"})
              /\ CallBelow(Passed(Top))
              /\ UNCHANGED <<Fixed, Data>>

\* jq takes all vectors of the answer or the first one, null where there is none.
Transformed(jq, answer) == IF jq = "all" \/ answer = {} THEN {[single |-> FALSE, vectors |-> answer]}
                           ELSE {[single |-> TRUE, vectors |-> {w}] : w \in answer}

ChainTransforms ==
    /\ IsBackWith({"chain"}, "returned") /\ Top.at = "waiting"
    /\ \/ Leave(Raised)        \* run_jq_first fails or times out, or no tool has the name
       \/ Leave(Cancelled)
       \/ \E arg \in Transformed(Top.args["jq_expression"], outcome.answer) :
            CallFrom([Top EXCEPT !.at = "next"], 0, arg)
    /\ UNCHANGED <<Fixed, Data>>

\* A sequential execute_batch(): the next item, or the end.
Continue(f) == IF f.todo = << >> THEN Leave(Returned(f.got))
               ELSE CallFrom([f EXCEPT !.at = "waiting", !.todo = Tail(@)], f.layer - 1,
                             Arguments(f.layer - 1, Head(f.todo), FALSE))

BatchStarts == /\ IsCalled({"batch"})
               /\ Continue([Top EXCEPT !.todo = Top.args["params"]])
               /\ UNCHANGED <<Fixed, Data>>

BatchGets(result) == Continue([Top EXCEPT !.got = @ \cup result])

BatchGoesOn ==
    /\ IsBack({"batch"})
    /\ CASE outcome.how = "returned"                             -> BatchGets(outcome.answer)
         [] outcome.how = "raised" /\ ~Top.args["fail_fast"]     -> BatchGets({ErrorText})
         [] OTHER                                                -> Leave(outcome)
    /\ UNCHANGED <<Fixed, Data>>

--------------------------------------------------------------------------------

Init == /\ phase = "binding"
        /\ layers = <<"tool">>
        /\ sigs \in {<<sig>> : sig \in ToolSignatures}
        /\ stack = << >> /\ outcome = None
        /\ store = << << >> >>
        /\ metrics = << [calls |-> 0, errors |-> 0] >>
        /\ given = None /\ made = {}
        /\ ended = [how \in {"returned", "raised", "cancelled"} |-> 0]

\* Refused, or no further call: the one way the system stops.
Over == /\ phase = "refused" \/ Delivered = MaxCalls
        /\ UNCHANGED vars

Next == \/ BindMetrics \/ BindCache \/ BindProxy \/ BindChain \/ BindBatch \/ BindOutputSchema
        \/ \E request \in Requests : Call(Arguments(Len(layers), request, TRUE))
        \/ Deliver \/ ToolRuns \/ PadRuns \/ CancelRunning \/ WrapperCalls \/ RouteRefused \/ PassOn
        \/ KeyFails \/ CacheHits \/ CacheMisses \/ CacheWrites
        \/ Validate \/ ChainCalls \/ ChainTransforms \/ BatchStarts \/ BatchGoesOn
        \/ Over

Spec == Init /\ [][Next]_vars

--------------------------------------------------------------------------------
(* Properties.                                                                  *)

Adding == {"cache", "proxy", "chain"}       \* the extensions with control kwargs

Wrapping == {"prometheus_metrics", "cache", "proxy", "output_schema"}

Extensions == Adding \cup Wrapping \cup {"batch"}

\* Types of the variables: no layer counts more errors than calls.
TypeOK ==
    /\ phase \in {"binding", "refused", "calling"}
    /\ layers[1] = "tool" /\ \A l \in 2 .. Len(layers) : layers[l] \in Extensions
    /\ Len(sigs) = Len(layers) - IF phase = "refused" THEN 1 ELSE 0
    /\ \A i \in DOMAIN stack : /\ stack[i].layer \in 0 .. Len(layers)
                               /\ stack[i].at \in {"called", "waiting", "next"}
    /\ outcome \in Outcomes \cup {None}
    /\ DOMAIN store = DOMAIN layers /\ DOMAIN metrics = DOMAIN layers
    /\ \A l \in DOMAIN metrics : metrics[l].errors \in 0 .. metrics[l].calls

\* A layer whose control kwarg is already in the signature it is bound over: it was bound
\* before, with no batch in between to give the parameters up, or the tool has one so named.
Clashes(l) == \E m \in 1 .. l - 1 :
                 /\ \A k \in m + 1 .. l - 1 : layers[k] # "batch"
                 /\ \/ layers[m] = layers[l] /\ layers[l] \in Adding
                    \/ m = 1 /\ Names(sigs[1]) \cap Taken(layers[l]) # {}

\* No batch can be bound over the layers up to l: a parameter of the tool is unfit for its
\* input model, or its annotations are strings and the outermost of its wrappers is of a
\* module that does not have their names.
Unreadable(l) ==
    LET written == {p.annotation : p \in Range(sigs[1])}
                   \cup IF \A k \in 2 .. l : layers[k] \notin Transformers THEN {ReturnOf[sigs[1]]} ELSE {}
    IN /\ \A k \in 2 .. l : layers[k] # "batch"
       /\ \/ "unfit" \in written
          \/ l > 1 /\ "own" \in written
          \/ l > 1 /\ "Any" \in written /\ layers[l] \notin Transformers

\* Extensions can be stacked in any order and over any tool, also one with **kwargs, but
\* for these: a name that occurs twice, a missing schema, and a batch over a tool whose
\* annotations it cannot read where the tool is wrapped (signature.py:11-12, batch.py:25,
\* 38).  What is bound is free of them, and each name has one owner; what extensions add
\* themselves, and another batch below, never are a reason.
BindRefusedForCause ==
    /\ phase = "refused" => \/ Last(layers) = "output_schema"
                            \/ Clashes(Len(layers))
                            \/ Last(layers) = "batch" /\ Unreadable(Len(layers) - 1)
    /\ \A l \in DOMAIN sigs : ~Clashes(l) /\ ~(layers[l] = "batch" /\ Unreadable(l - 1))

\* The arguments with which a layer is called are those of its signature.
Arrived(l, args) ==
    LET sig    == sigs[l]
        others == DOMAIN args \ Named(sig)
    IN /\ Named(sig) \subseteq DOMAIN args
       /\ others # {} => HasVar(sig) /\ others \subseteq {"another"} \cup Names(sig)

\* Whatever is stacked, each layer is called with the parameters of the signature it
\* presents: its control kwargs and those of the layers below arrive, none that was taken
\* above is passed on, and the tool gets its own arguments alone.
ArgumentsArrive ==
    \A i \in DOMAIN stack : stack[i].layer # 0 => Arrived(stack[i].layer, stack[i].args)

\* A metrics layer over another one, with layers of some kinds alone between them.
OuterAndInner(n, m, kinds) ==
    /\ m < n /\ layers[m] = "prometheus_metrics" /\ layers[n] = "prometheus_metrics"
    /\ \A k \in m + 1 .. n - 1 : layers[k] \in kinds

\* An outermost metrics layer counts every call, however it ended, and as errors those that
\* raised an Exception (a cancelled one is a success: prometheus.py:31-34).  Where only
\* wrappers are between two metrics layers, the inner one is called no more often, and no
\* error it saw was hidden from the outer one; directly one over the other they agree.
MetricsMatchOutcomes ==
    stack = << >> /\ outcome = None =>
        /\ Last(layers) = "prometheus_metrics" =>
                Last(metrics) = [calls |-> Delivered, errors |-> ended["raised"]]
        /\ \A m, n \in DOMAIN layers :
              /\ OuterAndInner(n, m, Wrapping) => /\ metrics[m].calls <= metrics[n].calls
                                                  /\ metrics[m].errors <= metrics[n].errors
              /\ OuterAndInner(n, m, {"prometheus_metrics"}) => metrics[m] = metrics[n]

\* A schema or a padding chain is below the caller of a layer.
Sealed(l) == \E k \in 1 .. l : layers[k] \in {"output_schema", "chain"}

\* What comes out of a stack with a schema or a padding chain in it has the width that was
\* asked for, through caches, batches and whatever else is stacked over it
\* (output_schema.py:5-8, pad_embeddings.py:22-25).
WidthsAreAsAsked ==
    stack = << >> /\ outcome # None /\ outcome.how = "returned" /\ Sealed(Len(layers)) =>
        outcome.answer \subseteq {Width, ErrorText}

\* The kinds of extensions that are among the layers up to l.
Below(kind, l) == \E k \in 1 .. l : layers[k] = kind

\* The error of an item may be in what layer l answers: no chain is over its batch, whose
\* next tool would refuse it.
ErrorsBelow(l) == \E k \in 1 .. l : layers[k] = "batch" /\ \A j \in k + 1 .. l : layers[j] # "chain"

\* The names that the layers up to l take out of a call.
TakenBelow(l) == UNION {Taken(layers[k]) : k \in 1 .. l}

\* What the tool may be called with for a call of layer l: the arguments of the call without
\* those that are taken out on the way, or those of an item of a batch.
ToolArguments(l, args) ==
    IF Below("batch", l) THEN {Arguments(1, item, FALSE) : item \in Range(args["params"])}
    ELSE {Restrict(args, DOMAIN args \ TakenBelow(l))}

WithoutSecret(r) == Restrict(r, DOMAIN r \ {"secret"})

\* Arguments without their secrets, those in the items of a batch included.
WithoutSecrets(args) == [n \in DOMAIN args \ {"secret"} |->
    IF n = "params" THEN [i \in DOMAIN args[n] |-> WithoutSecret(args[n][i])] ELSE args[n]]

\* A cache, if there is one below, does not tell secrets apart, but everything else.
Alike(l, a, b) == a = b \/ (Below("cache", l) /\ WithoutSecrets(a) = WithoutSecrets(b))

\* What an answer of layer l may consist of if it comes of these calls of the tool: widths
\* the tool answered with; what a chain pads to; errors in a batch.
MadeOf(l, calls) ==
    (IF Below("chain", l) THEN {Width} ELSE UNION {m.answer : m \in calls})
    \cup IF ErrorsBelow(l) THEN {ErrorText} ELSE {}

Origin(l, args) ==
    MadeOf(l, {m \in made : \E a \in ToolArguments(l, args) : Alike(l, m.args, a)})

\* An answer is what the tool answered to a call with the same arguments of its own or,
\* through a cache, with arguments that differ from them in secrets alone, which stand for
\* all that str() prints alike.  Wherever it is in the stack, a cache "memoizes results by
\* call arguments" (cache.py:3), so far as the key tells them apart (cache_store.py:41).
AnswersAreOfAlikeCalls ==
    stack = << >> /\ outcome # None /\ outcome.how = "returned" =>
        outcome.answer \subseteq Origin(Len(layers), given)
================================================================================
