------------------------------ MODULE Registry ------------------------------
(***************************************************************************)
(* The tool registry (internal/registry/service.go, store.go, template.go, *)
(* and the handlers of internal/api/tools_handler.go).                     *)
(*                                                                         *)
(* An update is validated field by field, then, if it names the mode, the  *)
(* endpoint or the variables, merged with the row as loaded and validated  *)
(* again; the UPDATE that follows writes the named columns only, into      *)
(* whatever the row is by then.  auth_config is a JSONB column: what a     *)
(* configured cipher (internal/crypto) makes of it is not JSON, and the    *)
(* database refuses the statement.  Any call of the database may fail, a   *)
(* statement before it changed its row or after, and is answered with 500. *)
(***************************************************************************)
EXTENDS Naturals

CONSTANTS
  Tool,             \* ids; random, so a deleted one never returns
  Request,          \* goroutines that serve administrators, again and again
  Variables,        \* maps of template variables
  NoVariables,      \* the empty one
  Endpoint,         \* endpoints, each known by what validation asks of it
  Credential,       \* values of auth_config
  NoCredential,     \* the empty one
  Unborn, Gone,     \* an id that has no row: not inserted yet, deleted
  Absent            \* a field that the body of a request does not name

Mode == {"service", "api"}
NoRow == {Unborn, Gone}

(* A credential as its column holds it, in the clear or encrypted.         *)
Stored == [value : Credential, sealed : BOOLEAN]

(* The columns that validation reads, and one that it does not.            *)
Row == [mode : Mode, endpoint : Endpoint, variables : Variables, auth : Stored]
Field == {"mode", "endpoint", "variables", "auth"}
Input == [mode : Mode \cup {Absent}, endpoint : Endpoint \cup {Absent},
          variables : Variables \cup {Absent}, auth : Credential \cup {Absent}]

CONSTANT Body       \* the bodies that administrators send
ASSUME BodyAssumption == Body \subseteq Input

(* raw: it is a URL as it stands.  under: the variables with which its     *)
(* template resolves to one.                                               *)
ASSUME EndpointAssumption == Endpoint \subseteq [raw : BOOLEAN, under : SUBSET Variables]
ASSUME DefaultsAssumption == NoVariables \in Variables /\ NoCredential \in Credential
ASSUME NamesAssumption ==
  /\ Unborn # Gone /\ NoRow \cap Row = {}
  /\ Absent \notin Mode /\ Absent \notin Endpoint
  /\ Absent \notin Variables /\ Absent \notin Credential

VARIABLES
  tools,       \* the tools table: id -> row
  keyed,       \* OCTROI_ENCRYPTION_KEY is set in this process
  req,         \* request -> what its goroutine holds, or its last answer
  overtaken    \* history: requests whose tool was changed by another since
               \* they loaded it

vars == <<tools, keyed, req, overtaken>>

-----------------------------------------------------------------------------
HasTool(t) == tools[t] \notin NoRow

Job == [pc : {"load", "write"}, op : {"create", "update"},
        tool : Tool \cup {Absent}, input : Input]

(* How a request ended: answered for what it found, or with 500, because   *)
(* the database refused its statement or because a call failed.            *)
Answer == {"served", "rejected", "failed"}
Reply == [pc : {"done"}, answer : Answer]
Done(answer) == [pc |-> "done", answer |-> answer]

(* Types; a row holds a value in every column.                             *)
TypeOK ==
  /\ tools \in [Tool -> Row \cup NoRow]
  /\ keyed \in BOOLEAN
  /\ req \in [Request -> Job \cup Reply]
  /\ overtaken \in SUBSET Request

Init ==
  /\ tools = [t \in Tool |-> Unborn]
  /\ keyed \in BOOLEAN
  /\ req = [r \in Request |-> Done("served")]
  /\ overtaken = {}

-----------------------------------------------------------------------------
(* validateEndpoint, or validateAPIEndpoint, by the mode.                  *)
Callable(row) ==
  IF row.mode = "api" THEN row.variables \in row.endpoint.under ELSE row.endpoint.raw

Merge(row, input) == [f \in Field |-> IF input[f] = Absent THEN row[f] ELSE input[f]]

\* Mutant: a tool created without a mode gets none.
FilledLeavesMode(input) ==
  Merge([mode |-> Absent, endpoint |-> Absent, variables |-> NoVariables,
         auth |-> NoCredential], input)

(* The defaults of Service.Create; an endpoint has none.                   *)
Filled(input) ==
  Merge([mode |-> "service", endpoint |-> Absent, variables |-> NoVariables,
         auth |-> NoCredential], input)

ValidCreate(input) == input.endpoint # Absent /\ Callable(Filled(input))

(* validateUpdate: the endpoint alone is looked at only without a mode.    *)
ValidUpdate(input) ==
  input.endpoint # Absent /\ input.mode = Absent => input.endpoint.raw

\* Mutant: new variables alone are not validated against the endpoint.
CrossFieldOfURL(input) == \E f \in {"mode", "endpoint"} : input[f] # Absent

CrossField(input) == \E f \in {"mode", "endpoint", "variables"} : input[f] # Absent

(* The merged row is validated as a template if it is in mode "api".       *)
ValidMerge(row, input) == Merge(row, input).mode = "api" => Callable(Merge(row, input))

(* Cipher.Encrypt, which leaves its argument as it is without a key.       *)
Encrypt(credential) == [value |-> credential, sealed |-> keyed]

(* What a statement sends of a body.                                       *)
Columns(input) == [input EXCEPT !.auth = IF @ = Absent THEN @ ELSE Encrypt(@)]

(* A ciphertext is base64, and JSONB accepts nothing but JSON.             *)
Rejected(columns) == columns.auth # Absent /\ columns.auth.sealed

Advance(r, job) == req' = [req EXCEPT ![r] = job] /\ UNCHANGED <<tools, keyed, overtaken>>

Free(r) == req[r].pc = "done"
Finish(r, answer) == Advance(r, Done(answer))

(* A statement of r set tool t to row: who has loaded t is overtaken.      *)
Put(r, t, row, answer) ==
  /\ tools' = [tools EXCEPT ![t] = row]
  /\ req' = [req EXCEPT ![r] = Done(answer)]
  /\ overtaken' = (overtaken \ {r}) \cup
       {s \in Request \ {r} : req[s].pc = "write" /\ req[s].tool = t /\ CrossField(req[s].input)}
  /\ UNCHANGED keyed

Fail(r, answer) ==
  /\ req' = [req EXCEPT ![r] = Done(answer)]
  /\ overtaken' = overtaken \ {r}
  /\ UNCHANGED <<tools, keyed>>

-----------------------------------------------------------------------------
BeginCreate(r, input) ==
  /\ Free(r)
  /\ IF ValidCreate(input)
     THEN Advance(r, [pc |-> "write", op |-> "create", tool |-> Absent, input |-> Filled(input)])
     ELSE Finish(r, "served")

BeginUpdate(r, t, input) ==
  /\ Free(r)
  /\ IF ValidUpdate(input)
     THEN Advance(r, [pc |-> IF CrossField(input) THEN "load" ELSE "write",
                      op |-> "update", tool |-> t, input |-> input])
     ELSE Finish(r, "served")

(* GetByID, and the validation of the merge.                               *)
Load(r) ==
  LET q == req[r] IN
  /\ q.pc = "load"
  /\ \/ Finish(r, "failed")
     \/ IF HasTool(q.tool) /\ ValidMerge(tools[q.tool], q.input)
        THEN Advance(r, [q EXCEPT !.pc = "write"])
        ELSE Finish(r, "served")

(* A statement that does not fail, or whose answer alone is lost.          *)
Answered == {"served", "failed"}

(* Store.Create: one INSERT, of every column.                              *)
Insert(r) ==
  LET columns == Columns(req[r].input) IN
  /\ req[r].pc = "write" /\ req[r].op = "create"
  /\ \/ Fail(r, "failed")
     \/ Rejected(columns) /\ Fail(r, "rejected")
     \/ /\ ~Rejected(columns)
        /\ \E t \in Tool, answer \in Answered : tools[t] = Unborn /\ Put(r, t, columns, answer)

(* Store.Update: UPDATE ... RETURNING of the named columns.                *)
Write(r) ==
  LET t == req[r].tool
      columns == Columns(req[r].input) IN
  /\ req[r].pc = "write" /\ req[r].op = "update"
  /\ \/ Fail(r, "failed")
     \/ Rejected(columns) /\ Fail(r, "rejected")
     \/ /\ ~Rejected(columns) /\ HasTool(t)
        /\ \E answer \in Answered : Put(r, t, Merge(tools[t], columns), answer)
     \/ ~Rejected(columns) /\ ~HasTool(t) /\ Fail(r, "served")

Delete(r, t) ==
  /\ Free(r)
  /\ \/ Finish(r, "failed")
     \/ HasTool(t) /\ \E answer \in Answered : Put(r, t, Gone, answer)
     \/ ~HasTool(t) /\ Finish(r, "served")

(* The process ends and another is started, with a key or without; what    *)
(* was in flight is lost.                                                  *)
Restart ==
  /\ keyed' \in BOOLEAN
  /\ req' = [r \in Request |-> Done("served")]
  /\ overtaken' = {}
  /\ UNCHANGED tools

Next ==
  \/ \E r \in Request :
       \/ \E input \in Body : BeginCreate(r, input)
       \/ \E t \in Tool, input \in Body : BeginUpdate(r, t, input)
       \/ Load(r) \/ Insert(r) \/ Write(r)
       \/ \E t \in Tool : Delete(r, t)
  \/ Restart

Spec == Init /\ [][Next]_vars

-----------------------------------------------------------------------------
Writes(r) == req[r].pc = "write" /\ req'[r].pc = "done"

(* Every tool's endpoint passes validation for its mode when it is created *)
(* and ever after, unless an update named mode "service", which is then    *)
(* not validated, or another update came between the load and the write.   *)
ToolsStayCallable ==
  [][\A t \in Tool :
       HasTool(t)' /\ ~Callable(tools'[t]) =>
         \/ HasTool(t) /\ ~Callable(tools[t])
         \/ \E r \in Request :
              /\ Writes(r) /\ req[r].op = "update" /\ req[r].tool = t
              /\ req[r].input.mode = "service" \/ r \in overtaken]_vars

(* Refuted: with a key set, a request that names a credential, for a tool  *)
(* that there is, and that no failure of the database cuts off, leaves it  *)
(* stored, encrypted ("Tool credentials are AES-256-GCM encrypted (when    *)
(* OCTROI_ENCRYPTION_KEY is set)").                                        *)
CredentialsEncrypted ==
  [][\A r \in Request :
       LET q == req[r] IN
       /\ keyed /\ Writes(r) /\ req'[r].answer # "failed"
       /\ q.input.auth # Absent
       /\ q.op = "update" => HasTool(q.tool)
       => \E t \in Tool :
            /\ q.op = "update" => t = q.tool
            /\ HasTool(t)' /\ tools'[t].auth = [value |-> q.input.auth, sealed |-> TRUE]]_vars
=============================================================================
