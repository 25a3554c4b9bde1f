---------------------------- MODULE SettingsFile ---------------------------
(***************************************************************************)
(* The file-backed settings provider, crates/harnless-settings-file/src/   *)
(* provider.rs: a stack of layers, each a document in memory or a file     *)
(* that is read and parsed on every call, lowest first, while somebody may *)
(* be editing the files.  Of a document, one namespace is modelled; of a   *)
(* value, its JSON type.                                                   *)
(***************************************************************************)
EXTENDS Naturals, FiniteSets, FiniteSetsExt

CONSTANTS
  SettingsCallers,
  Layers,         \* 1..n; the last outranks the others
  DocLayers,      \* those that are documents in memory: nobody edits them
  SettingKeys,
  Values,         \* JSON types: "null", "string", ...
  MaxEdits,       \* bound: edits of a file and declarations
  MaxGets         \* bound: calls

ASSUME SettingsAssumption ==
  /\ IsFiniteSet(Layers) /\ 1 \in Layers
  /\ \A l \in Layers : l \in Nat \ {0} /\ (l = 1 \/ l - 1 \in Layers)

Unset   == "unset"
Failure == "io-error"

(* What a file may be: missing, no document, or a document whose namespace *)
(* is missing or not an object, or an object with some keys.               *)
NoKeys  == [k \in SettingKeys |-> Unset]
Missing == [file |-> "missing", object |-> FALSE, at |-> NoKeys]
Corrupt == [file |-> "corrupt", object |-> FALSE, at |-> NoKeys]
Blank   == [file |-> "document", object |-> FALSE, at |-> NoKeys]
Documents == [file : {"document"}, object : {TRUE}, at : [SettingKeys -> Values \cup {Unset}]]
Contents  == {Missing, Corrupt, Blank} \cup Documents

VARIABLES
  layers,     \* layer -> its content now
  declared,   \* keys declared without a value
  get,        \* each caller's call: what it has read, and its answer
  edits, gets

setVars == <<layers, declared, get, edits, gets>>

NoGet == [pc |-> "idle", op |-> "none", key |-> Unset, next |-> 1, docs |-> [l \in Layers |-> Missing],
          answer |-> Unset, began |-> [layers |-> [l \in Layers |-> Missing], declared |-> {}, edits |-> 0]]

SettingsFrom(ls) ==
  /\ layers = ls
  /\ declared = {}
  /\ get = [c \in SettingsCallers |-> NoGet]
  /\ edits = 0 /\ gets = 0

Stacks == { ls \in [Layers -> {Missing, Blank} \cup Documents] : \A l \in DocLayers : ls[l] # Missing }
SettingsInit == \E ls \in Stacks : SettingsFrom(ls)

----------------------------------------------------------------------------
(* Resolving over documents that were read                                 *)

Carries(docs, k) == { l \in Layers : docs[l].object /\ docs[l].at[k] # Unset }

(* get: the topmost layer that carries the key; a null is a value.         *)
Lookup(docs, k) ==
  IF Carries(docs, k) = {} THEN Unset ELSE docs[Max(Carries(docs, k))].at[k]

Summary(v) == IF v = "null" THEN "present" ELSE v

HasNamespace(docs, decl) == decl # {} \/ \E l \in Layers : docs[l].object

ResolveIn(op, docs, decl, k) ==
  CASE op = "get"           -> Lookup(docs, k)
    [] op = "describe"      -> Summary(Lookup(docs, k))
    [] op = "has namespace" -> IF HasNamespace(docs, decl) THEN "yes" ELSE "no"

(* A damaged layer: an error, or, for a namespace, its presence.           *)
OnFailure(op) == IF op = "has namespace" THEN "yes" ELSE Failure

----------------------------------------------------------------------------
SettingsCall(c, op, k) ==
  /\ get[c].pc = "idle" /\ gets < MaxGets
  /\ gets' = gets + 1
  /\ get' = [get EXCEPT ![c] = [NoGet EXCEPT !.pc = "read", !.op = op, !.key = k,
               !.began = [layers |-> layers, declared |-> declared, edits |-> edits]]]
  /\ UNCHANGED <<layers, declared, edits>>

(* A plausible slip: a layer that does not parse is skipped.               *)
ReadLayerSkipping(c) ==
  /\ get[c].pc = "read"
  /\ get' = [get EXCEPT ![c].docs[get[c].next] = layers[get[c].next], ![c].next = @ + 1,
               ![c].pc = IF get[c].next + 1 \in Layers THEN "read" ELSE "resolve"]
  /\ UNCHANGED <<layers, declared, edits, gets>>

(* LayerSource::read, lowest first; the first error ends the call.         *)
ReadLayer(c) ==
  /\ get[c].pc = "read"
  /\ LET l == get[c].next
     IN  get' = IF layers[l].file = "corrupt"
                THEN [get EXCEPT ![c].pc = "idle", ![c].answer = OnFailure(get[c].op)]
                ELSE [get EXCEPT ![c].docs[l] = layers[l], ![c].next = l + 1,
                        ![c].pc = IF l + 1 \in Layers THEN "read" ELSE "resolve"]
  /\ UNCHANGED <<layers, declared, edits, gets>>

Answered(c) ==
  /\ get[c].pc = "resolve"
  /\ get' = [get EXCEPT ![c].pc = "idle",
               ![c].answer = ResolveIn(get[c].op, get[c].docs, declared, get[c].key)]
  /\ UNCHANGED <<layers, declared, edits, gets>>

Declare(k) ==
  /\ edits < MaxEdits /\ k \notin declared
  /\ declared' = declared \cup {k}
  /\ edits' = edits + 1
  /\ UNCHANGED <<layers, get, gets>>

(* Somebody replaces a layer's file.                                       *)
EditLayer(l, content) ==
  /\ edits < MaxEdits /\ l \notin DocLayers /\ content # layers[l]
  /\ layers' = [layers EXCEPT ![l] = content]
  /\ edits' = edits + 1
  /\ UNCHANGED <<declared, get, gets>>

SettingsNext ==
  \/ \E c \in SettingsCallers, k \in SettingKeys, op \in {"get", "describe", "has namespace"} : SettingsCall(c, op, k)
  \/ \E c \in SettingsCallers : ReadLayer(c) \/ Answered(c)
  \/ \E k \in SettingKeys : Declare(k)
  \/ \E l \in Layers, content \in Contents : EditLayer(l, content)

----------------------------------------------------------------------------
(* What a call would answer if everything were read at one moment.         *)
Effective(op, ls, decl, k) ==
  IF \E l \in Layers : ls[l].file = "corrupt" THEN OnFailure(op) ELSE ResolveIn(op, ls, decl, k)

(* An answer is the effective one at the call's beginning or at its end,   *)
(* damage included, when at most one edit falls into the call; two edits   *)
(* that move a key between layers may hide it ("a corrupt settings file    *)
(* must surface", LayerSource::read; get's precedence).                    *)
AnswerIsOfAMoment ==
  [][ \A c \in SettingsCallers :
        get[c].pc # "idle" /\ get'[c].pc = "idle" /\ edits - get[c].began.edits <= 1
          => LET g == get[c]
             IN  get'[c].answer \in { Effective(g.op, g.began.layers, g.began.declared, g.key),
                                      Effective(g.op, layers, declared, g.key) } ]_setVars

=============================================================================
