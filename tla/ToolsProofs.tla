---------------------------- MODULE ToolsProofs ----------------------------
(***************************************************************************)
(* Tools: how they are stored, and what may be spent on them.              *)
(*                                                                         *)
(* The registry first, for any number of tools and overlapping requests,   *)
(* any endpoints, bodies and restarts.  What validation established about  *)
(* a body is carried, as the inductive invariant, to the statement that    *)
(* writes it: of the body alone always, of its merge with the row for as   *)
(* long as nobody else has written that row.                               *)
(*                                                                         *)
(* Then the budgets, for any requests, agents, prices, limits and length   *)
(* of a month.  Their properties compare sums of costs, so the section on  *)
(* sums first proves what adding up a finite set is: by a minimal          *)
(* counterexample, in place of an induction.                               *)
(***************************************************************************)
EXTENDS Registry, Budgets, FiniteSetTheorems, SequenceTheorems, TLAPS

(* No column is left out.                                                  *)
Complete(input) == \A f \in Field : input[f] # Absent

(* What Service.Create validated is what will be inserted, as a whole row. *)
Insertable(q) == q.pc = "write" /\ Complete(q.input) /\ Callable(q.input)

(* validateUpdate passed the body, and the row as loaded, while it is that *)
(* row, passes together with it.                                           *)
Applicable(r, q) ==
  /\ q.tool \in Tool
  /\ ValidUpdate(q.input)
  /\ q.pc = "write" /\ CrossField(q.input) /\ HasTool(q.tool) /\ r \notin overtaken =>
       ValidMerge(tools[q.tool], q.input)

Validated(r, q) ==
  q.pc # "done" =>
    /\ q.op = "create" => Insertable(q)
    /\ q.op = "update" => Applicable(r, q)

(* The inductive invariant of the registry.                               *)
IInv == TypeOK /\ \A r \in Request : Validated(r, req[r])

-----------------------------------------------------------------------------
(* Rows and bodies.                                                        *)

(* A merge takes the named columns from the body, the others from the row. *)
LEMMA MergeColumns ==
  ASSUME NEW row, NEW input, NEW f \in Field
  PROVE  Merge(row, input)[f] = IF input[f] = Absent THEN row[f] ELSE input[f]
BY DEF Merge

(* A body named by its fields.                                             *)
LEMMA InputFields ==
  ASSUME NEW input \in Input
  PROVE  /\ input = [mode |-> input.mode, endpoint |-> input.endpoint,
                     variables |-> input.variables, auth |-> input.auth]
         /\ input.mode \in Mode \cup {Absent} /\ input.endpoint \in Endpoint \cup {Absent}
         /\ input.variables \in Variables \cup {Absent}
         /\ input.auth \in Credential \cup {Absent}
BY DEF Input

(* A statement sends the body, but for the credential as it is.            *)
LEMMA ColumnsFields ==
  ASSUME NEW input \in Input
  PROVE  /\ Columns(input).mode = input.mode
         /\ Columns(input).endpoint = input.endpoint
         /\ Columns(input).variables = input.variables
         /\ Columns(input).auth = IF input.auth = Absent THEN Absent ELSE Encrypt(input.auth)
BY InputFields DEF Columns

(* A complete body is sent as a whole row.                                 *)
LEMMA CompleteIsRow ==
  ASSUME NEW input \in Input, Complete(input), keyed \in BOOLEAN
  PROVE  Columns(input) \in Row
<1>1. /\ input.mode \in Mode /\ input.endpoint \in Endpoint /\ input.variables \in Variables
      /\ input.auth \in Credential /\ input.auth # Absent
  BY InputFields DEF Complete, Field
<1>2. Encrypt(input.auth) \in Stored
  BY <1>1 DEF Encrypt, Stored
<1>3. Columns(input) = [mode |-> input.mode, endpoint |-> input.endpoint,
                        variables |-> input.variables, auth |-> Encrypt(input.auth)]
  BY <1>1, InputFields DEF Columns
<1>. QED  BY <1>1, <1>2, <1>3 DEF Row

(* The merge of a row with what a statement sends is a row again.          *)
LEMMA MergeType ==
  ASSUME NEW row \in Row, NEW input \in Input, keyed \in BOOLEAN
  PROVE  Merge(row, Columns(input)) \in Row
<1>. DEFINE m == Merge(row, Columns(input))
<1>1. DOMAIN m = Field /\ m = [f \in Field |-> m[f]]
  BY DEF Merge
<1>2. /\ m.mode = IF Columns(input).mode = Absent THEN row.mode ELSE Columns(input).mode
      /\ m.endpoint =
           IF Columns(input).endpoint = Absent THEN row.endpoint ELSE Columns(input).endpoint
      /\ m.variables =
           IF Columns(input).variables = Absent THEN row.variables ELSE Columns(input).variables
      /\ m.auth = IF Columns(input).auth = Absent THEN row.auth ELSE Columns(input).auth
  BY MergeColumns DEF Field
<1>3. /\ row.mode \in Mode /\ row.endpoint \in Endpoint
      /\ row.variables \in Variables /\ row.auth \in Stored
  BY DEF Row
<1>4. input.auth # Absent => Encrypt(input.auth) \in Stored
  BY InputFields DEF Encrypt, Stored
<1>5. /\ m.mode \in Mode /\ m.endpoint \in Endpoint
      /\ m.variables \in Variables /\ m.auth \in Stored
  BY <1>2, <1>3, <1>4, ColumnsFields, InputFields
<1>6. m = [mode |-> m.mode, endpoint |-> m.endpoint, variables |-> m.variables, auth |-> m.auth]
  BY <1>1 DEF Field
<1>. QED  BY <1>5, <1>6 DEF Row

(* A body that names an endpoint is complete with the defaults.            *)
LEMMA FilledType ==
  ASSUME NEW input \in Input, ValidCreate(input)
  PROVE  Filled(input) \in Input /\ Complete(Filled(input))
<1>. DEFINE m == Filled(input)
<1>1. DOMAIN m = Field /\ m = [f \in Field |-> m[f]]
  BY DEF Filled, Merge
<1>2. /\ m.mode = IF input.mode = Absent THEN "service" ELSE input.mode
      /\ m.endpoint = input.endpoint
      /\ m.variables = IF input.variables = Absent THEN NoVariables ELSE input.variables
      /\ m.auth = IF input.auth = Absent THEN NoCredential ELSE input.auth
  BY DEF Filled, Merge, Field, ValidCreate
<1>3. input.endpoint # Absent
  BY DEF ValidCreate
<1>4. /\ m.mode \in Mode /\ m.endpoint \in Endpoint
      /\ m.variables \in Variables /\ m.auth \in Credential
  BY <1>2, <1>3, InputFields, DefaultsAssumption DEF Mode
<1>5. m = [mode |-> m.mode, endpoint |-> m.endpoint, variables |-> m.variables, auth |-> m.auth]
  BY <1>1 DEF Field
<1>6. m.mode # Absent /\ m.endpoint # Absent /\ m.variables # Absent /\ m.auth # Absent
  BY <1>4, NamesAssumption
<1>. QED  BY <1>4, <1>5, <1>6 DEF Input, Complete, Field

(* Validation reads nothing but mode, endpoint and variables.              *)
LEMMA CallableReads ==
  ASSUME NEW row, NEW other,
         row.mode = other.mode, row.endpoint = other.endpoint, row.variables = other.variables
  PROVE  Callable(row) = Callable(other)
BY DEF Callable

(* A write that passed both validations, names no mode "service" and finds *)
(* the row as it was loaded, leaves a callable tool callable.              *)
LEMMA MergeKeepsCallable ==
  ASSUME NEW row \in Row, NEW input \in Input,
         ValidUpdate(input), CrossField(input) => ValidMerge(row, input),
         input.mode # "service", Callable(row)
  PROVE  Callable(Merge(row, Columns(input)))
<1>. DEFINE m == Merge(row, input)
<1>0. /\ m.mode = IF input.mode = Absent THEN row.mode ELSE input.mode
      /\ m.endpoint = IF input.endpoint = Absent THEN row.endpoint ELSE input.endpoint
      /\ m.variables = IF input.variables = Absent THEN row.variables ELSE input.variables
  BY DEF Merge, Field
<1>1. Callable(Merge(row, Columns(input))) = Callable(m)
  <2>. DEFINE n == Merge(row, Columns(input))
  <2>1. /\ n.mode = IF Columns(input).mode = Absent THEN row.mode ELSE Columns(input).mode
        /\ n.endpoint =
             IF Columns(input).endpoint = Absent THEN row.endpoint ELSE Columns(input).endpoint
        /\ n.variables =
             IF Columns(input).variables = Absent THEN row.variables ELSE Columns(input).variables
    BY MergeColumns DEF Field
  <2>2. n.mode = m.mode /\ n.endpoint = m.endpoint /\ n.variables = m.variables
    BY <1>0, <2>1, ColumnsFields
  <2>. QED  BY <2>2, CallableReads
<1>. SUFFICES Callable(m)
  BY <1>1
<1>2. m.mode \in Mode /\ row.mode \in Mode /\ input.mode \in Mode \cup {Absent}
  BY <1>0, InputFields DEF Row
<1>. HIDE DEF m
<1>3. CASE ~ CrossField(input)
  <2>1. input.mode = Absent /\ input.endpoint = Absent /\ input.variables = Absent
    BY <1>3 DEF CrossField
  <2>. QED  BY <1>0, <2>1, CallableReads DEF m
<1>4. CASE CrossField(input) /\ m.mode = "api"
  BY <1>4 DEF ValidMerge, m
<1>5. CASE m.mode = "service"
  <2>1. input.mode = Absent /\ row.mode = "service"
    BY <1>0, <1>2, <1>5
  <2>2. row.endpoint.raw
    BY <2>1 DEF Callable
  <2>3. m.endpoint.raw
    BY <1>0, <2>1, <2>2 DEF ValidUpdate
  <2>. QED  BY <1>5, <2>3 DEF Callable, m
<1>. QED  BY <1>2, <1>3, <1>4, <1>5 DEF Mode

-----------------------------------------------------------------------------
(* The steps.                                                              *)

LEMMA Answers == \A answer \in Answer : Done(answer) \in Reply /\ Done(answer).pc = "done"
BY DEF Done, Reply

(* A request goes on, or answers, and the tables stay.                     *)
LEMMA AdvanceInv ==
  ASSUME IInv, NEW r \in Request, NEW job \in Job \cup Reply, Advance(r, job), Validated(r, job)
  PROVE  IInv'
<1>1. TypeOK'
  BY DEF Advance, IInv, TypeOK
<1>2. ASSUME NEW s \in Request
      PROVE  Validated(s, req[s])'
  <2>1. req'[s] = IF s = r THEN job ELSE req[s]
    BY DEF Advance, IInv, TypeOK
  <2>2. Validated(s, req'[s])
    BY <2>1 DEF IInv
  <2>. QED  BY <2>2 DEF Advance, Validated, Insertable, Applicable, HasTool
<1>. QED  BY <1>1, <1>2 DEF IInv

(* A statement that writes a row leaves the others' validation standing,   *)
(* of the merge only where it did not touch the row.                       *)
LEMMA PutInv ==
  ASSUME IInv, NEW r \in Request, NEW t \in Tool, NEW row \in Row \cup NoRow,
         NEW answer \in Answer, Put(r, t, row, answer)
  PROVE  IInv'
<1>1. TypeOK'
  BY Answers DEF Put, IInv, TypeOK
<1>2. ASSUME NEW s \in Request
      PROVE  Validated(s, req[s])'
  <2>1. CASE s = r
    BY <2>1, Answers DEF Put, IInv, TypeOK, Validated
  <2>2. CASE s # r
    <3>1. req'[s] = req[s] /\ Validated(s, req[s])
      BY <2>2 DEF Put, IInv, TypeOK
    <3>2. Applicable(s, req[s]) /\ req[s].pc # "done" => Applicable(s, req[s])'
      <4>1. SUFFICES ASSUME Applicable(s, req[s]), (req[s].pc = "write")', CrossField(req[s].input)',
                            (HasTool(req[s].tool))', s \notin overtaken'
                     PROVE  ValidMerge(tools[req[s].tool], req[s].input)'
        BY <3>1 DEF Applicable
      <4>2. req[s].pc = "write" /\ CrossField(req[s].input)
        BY <3>1, <4>1
      <4>3. req[s].tool # t /\ s \notin overtaken
        BY <2>2, <4>1, <4>2 DEF Put
      <4>4. tools'[req[s].tool] = tools[req[s].tool]
        BY <4>1, <4>3 DEF Put, IInv, TypeOK, Applicable
      <4>. QED  BY <3>1, <4>1, <4>2, <4>3, <4>4 DEF Applicable, HasTool
    <3>. QED  BY <3>1, <3>2 DEF Validated, Insertable
  <2>. QED  BY <2>1, <2>2
<1>. QED  BY <1>1, <1>2 DEF IInv

(* A statement that fails changes nothing.                                 *)
LEMMA FailInv ==
  ASSUME IInv, NEW r \in Request, req[r].pc # "done", NEW answer \in Answer, Fail(r, answer)
  PROVE  IInv'
<1>1. TypeOK'
  BY Answers DEF Fail, IInv, TypeOK
<1>2. ASSUME NEW s \in Request
      PROVE  Validated(s, req[s])'
  <2>1. CASE s = r
    BY <2>1, Answers DEF Fail, IInv, TypeOK, Validated
  <2>2. CASE s # r
    BY <2>2 DEF Fail, IInv, TypeOK, Validated, Insertable, Applicable, HasTool
  <2>. QED  BY <2>1, <2>2
<1>. QED  BY <1>1, <1>2 DEF IInv

LEMMA FinishInv ==
  ASSUME IInv, NEW r \in Request, NEW answer \in Answer, Finish(r, answer)
  PROVE  IInv'
<1>1. Done(answer) \in Job \cup Reply /\ Validated(r, Done(answer))
  BY Answers DEF Validated
<1>. QED  BY <1>1, AdvanceInv DEF Finish

LEMMA BeginCreateInv ==
  ASSUME IInv, NEW r \in Request, NEW input \in Body, BeginCreate(r, input)
  PROVE  IInv'
<1>. DEFINE job == [pc |-> "write", op |-> "create", tool |-> Absent, input |-> Filled(input)]
<1>1. CASE ValidCreate(input)
  <2>1. input \in Input
    BY BodyAssumption
  <2>2. Filled(input) \in Input /\ Complete(Filled(input)) /\ Callable(Filled(input))
    BY <1>1, <2>1, FilledType DEF ValidCreate
  <2>4. job \in Job /\ Validated(r, job)
    BY <2>2 DEF Job, Validated, Insertable
  <2>5. Advance(r, job)
    BY <1>1 DEF BeginCreate
  <2>. QED  BY <2>4, <2>5, AdvanceInv
<1>2. CASE ~ ValidCreate(input)
  BY <1>2, FinishInv DEF BeginCreate, Answer
<1>. QED  BY <1>1, <1>2

LEMMA BeginUpdateInv ==
  ASSUME IInv, NEW r \in Request, NEW t \in Tool, NEW input \in Body, BeginUpdate(r, t, input)
  PROVE  IInv'
<1>. DEFINE job == [pc |-> IF CrossField(input) THEN "load" ELSE "write",
                    op |-> "update", tool |-> t, input |-> input]
<1>1. CASE ValidUpdate(input)
  <2>1. input \in Input
    BY BodyAssumption
  <2>2. job \in Job /\ Validated(r, job)
    BY <1>1, <2>1 DEF Job, Validated, Applicable
  <2>3. Advance(r, job)
    BY <1>1 DEF BeginUpdate
  <2>. QED  BY <2>2, <2>3, AdvanceInv
<1>2. CASE ~ ValidUpdate(input)
  BY <1>2, FinishInv DEF BeginUpdate, Answer
<1>. QED  BY <1>1, <1>2

LEMMA LoadInv ==
  ASSUME IInv, NEW r \in Request, Load(r)
  PROVE  IInv'
<1>. DEFINE q == req[r]
            job == [q EXCEPT !.pc = "write"]
<1>1. q \in Job /\ q.pc = "load" /\ Validated(r, q)
  BY DEF Load, IInv, TypeOK, Reply
<1>2. q.op = "update"
  BY <1>1 DEF Job, Validated, Insertable
<1>3. ASSUME HasTool(q.tool), ValidMerge(tools[q.tool], q.input), Advance(r, job)
      PROVE  IInv'
  <2>1. job \in Job /\ job.op = "update" /\ job.tool = q.tool /\ job.input = q.input
    BY <1>1, <1>2 DEF Job
  <2>2. Validated(r, job)
    BY <1>1, <1>2, <1>3, <2>1 DEF Validated, Applicable
  <2>. QED  BY <1>3, <2>1, <2>2, AdvanceInv
<1>4. ASSUME NEW answer \in Answer, Finish(r, answer)
      PROVE  IInv'
  BY <1>4, FinishInv
<1>. QED  BY <1>3, <1>4 DEF Load, Answer

(* What an insertion and an update write.                                  *)
LEMMA StatementRow ==
  ASSUME IInv, NEW r \in Request
  PROVE  /\ Insert(r) => req[r] \in Job /\ Columns(req[r].input) \in Row
         /\ Write(r) => /\ req[r] \in Job /\ req[r].tool \in Tool
                        /\ HasTool(req[r].tool) =>
                             Merge(tools[req[r].tool], Columns(req[r].input)) \in Row
<1>. DEFINE q == req[r]
<1>0. keyed \in BOOLEAN /\ tools \in [Tool -> Row \cup NoRow] /\ q \in Job \cup Reply
  BY DEF IInv, TypeOK
<1>1. ASSUME Insert(r) PROVE q \in Job /\ Columns(q.input) \in Row
  <2>1. q \in Job /\ q.input \in Input
    BY <1>0, <1>1 DEF Insert, Reply, Job
  <2>2. Complete(q.input)
    BY <1>1 DEF Insert, IInv, Validated, Insertable
  <2>. QED  BY <1>0, <2>1, <2>2, CompleteIsRow
<1>2. ASSUME Write(r)
      PROVE  /\ q \in Job /\ q.tool \in Tool
             /\ HasTool(q.tool) => Merge(tools[q.tool], Columns(q.input)) \in Row
  <2>1. q \in Job /\ q.input \in Input
    BY <1>0, <1>2 DEF Write, Reply, Job
  <2>2. q.tool \in Tool
    BY <1>2 DEF Write, IInv, Validated, Applicable
  <2>3. HasTool(q.tool) => tools[q.tool] \in Row
    BY <1>0, <2>2 DEF HasTool
  <2>. QED  BY <1>0, <2>1, <2>2, <2>3, MergeType
<1>. QED  BY <1>1, <1>2

LEMMA InsertInv ==
  ASSUME IInv, NEW r \in Request, Insert(r)
  PROVE  IInv'
<1>1. Columns(req[r].input) \in Row \cup NoRow /\ req[r].pc # "done"
  BY StatementRow DEF Insert
<1>2. {"served", "rejected", "failed"} = Answer /\ Answered \subseteq Answer
  BY DEF Answer, Answered
<1>. QED  BY <1>1, <1>2, FailInv, PutInv DEF Insert

LEMMA WriteInv ==
  ASSUME IInv, NEW r \in Request, Write(r)
  PROVE  IInv'
<1>. DEFINE q == req[r]
<1>1. /\ q.tool \in Tool /\ q.pc # "done"
      /\ HasTool(q.tool) => Merge(tools[q.tool], Columns(q.input)) \in Row \cup NoRow
  BY StatementRow DEF Write
<1>2. {"served", "rejected", "failed"} = Answer /\ Answered \subseteq Answer
  BY DEF Answer, Answered
<1>. QED  BY <1>1, <1>2, FailInv, PutInv DEF Write

LEMMA DeleteInv ==
  ASSUME IInv, NEW r \in Request, NEW t \in Tool, Delete(r, t)
  PROVE  IInv'
BY FinishInv, PutInv DEF Delete, Answer, Answered, NoRow

LEMMA RestartInv ==
  ASSUME IInv, Restart
  PROVE  IInv'
BY Answers DEF Restart, IInv, TypeOK, Validated, Answer

LEMMA InitInv == Init => IInv
BY Answers DEF Init, IInv, TypeOK, Validated, Answer, NoRow

LEMMA NextInv == IInv /\ [Next]_vars => IInv'
<1>. SUFFICES ASSUME IInv, [Next]_vars PROVE IInv'
  OBVIOUS
<1>1. CASE Next
  BY <1>1, BeginCreateInv, BeginUpdateInv, LoadInv, InsertInv, WriteInv, DeleteInv, RestartInv
     DEF Next
<1>2. CASE UNCHANGED vars
  BY <1>2 DEF vars, IInv, TypeOK, Validated, Insertable, Applicable, HasTool
<1>. QED  BY <1>1, <1>2

(* What was validated holds until it is written, at any time.              *)
THEOREM Validation == Spec => []IInv
BY InitInv, NextInv, PTL DEF Spec

(* The tools, the requests under way and their answers have their types.   *)
THEOREM RegistryTypes == Spec => []TypeOK
<1>1. IInv => TypeOK
  BY DEF IInv
<1>. QED  BY <1>1, Validation, PTL

-----------------------------------------------------------------------------
(* What a step does to the table.                                          *)

(* Only a statement of an administrator writes a row.                      *)
LEMMA WhoWrites ==
  ASSUME IInv, [Next]_vars
  PROVE  \/ tools' = tools
         \/ \E r \in Request, t \in Tool : Insert(r)
                /\ tools[t] = Unborn /\ tools' = [tools EXCEPT ![t] = Columns(req[r].input)]
         \/ \E r \in Request : Write(r) /\ HasTool(req[r].tool)
                /\ tools' = [tools EXCEPT ![req[r].tool] =
                               Merge(tools[req[r].tool], Columns(req[r].input))]
         \/ \E r \in Request, t \in Tool : Delete(r, t) /\ tools' = [tools EXCEPT ![t] = Gone]
<1>1. CASE UNCHANGED vars \/ Restart
  BY <1>1 DEF vars, Restart
<1>2. ASSUME NEW r \in Request, NEW input \in Body, BeginCreate(r, input) PROVE tools' = tools
  BY <1>2 DEF BeginCreate, Advance, Finish
<1>3. ASSUME NEW r \in Request, NEW t \in Tool, NEW input \in Body, BeginUpdate(r, t, input)
      PROVE  tools' = tools
  BY <1>3 DEF BeginUpdate, Advance, Finish
<1>4. ASSUME NEW r \in Request, Load(r) PROVE tools' = tools
  BY <1>4 DEF Load, Advance, Finish
<1>5. ASSUME NEW r \in Request, Insert(r)
      PROVE  \/ tools' = tools
             \/ \E t \in Tool :
                  tools[t] = Unborn /\ tools' = [tools EXCEPT ![t] = Columns(req[r].input)]
  BY <1>5 DEF Insert, Put, Fail
<1>6. ASSUME NEW r \in Request, Write(r)
      PROVE  \/ tools' = tools
             \/ /\ HasTool(req[r].tool)
                /\ tools' = [tools EXCEPT ![req[r].tool] =
                               Merge(tools[req[r].tool], Columns(req[r].input))]
  BY <1>6 DEF Write, Put, Fail
<1>7. ASSUME NEW r \in Request, NEW t \in Tool, Delete(r, t)
      PROVE  tools' = tools \/ tools' = [tools EXCEPT ![t] = Gone]
  BY <1>7 DEF Delete, Put, Finish, Advance
<1>. QED  BY <1>1, <1>2, <1>3, <1>4, <1>5, <1>6, <1>7 DEF Next

(* The request of a statement is answered by it.                           *)
LEMMA StatementAnswers ==
  ASSUME IInv, NEW r \in Request, Insert(r) \/ Write(r)
  PROVE  Writes(r) /\ req[r] \in Job
<1>1. req[r].pc = "write"
  BY DEF Insert, Write
<1>2. req'[r].pc = "done"
  BY Answers DEF Insert, Write, Put, Fail, IInv, TypeOK, Answer, Answered
<1>. QED  BY <1>1, <1>2 DEF Writes, IInv, TypeOK, Reply

-----------------------------------------------------------------------------
(* Every tool's endpoint stays valid for its mode, but for an update that  *)
(* names mode "service" or overtakes another: for any endpoints, bodies    *)
(* and number of concurrent administrators.                                *)
THEOREM ToolsStayCallableHolds == Spec => ToolsStayCallable
<1>. DEFINE Excused(t) ==
              \/ HasTool(t) /\ ~ Callable(tools[t])
              \/ \E r \in Request :
                  /\ Writes(r) /\ req[r].op = "update" /\ req[r].tool = t
                  /\ req[r].input.mode = "service" \/ r \in overtaken
<1>1. ASSUME IInv, [Next]_vars, NEW t \in Tool, (HasTool(t))', ~ Callable(tools'[t])
      PROVE  Excused(t)
  <2>0. tools \in [Tool -> Row \cup NoRow]
    BY <1>1 DEF IInv, TypeOK
  <2>1. CASE tools'[t] = tools[t]
    BY <1>1, <2>1 DEF HasTool
  <2>2. ASSUME NEW r \in Request, Insert(r), tools'[t] = Columns(req[r].input)
        PROVE  FALSE
    <3>1. req[r].input \in Input
      BY <1>1, <2>2, StatementRow DEF Job
    <3>2. Callable(req[r].input)
      BY <1>1, <2>2 DEF Insert, IInv, Validated, Insertable
    <3>3. Callable(Columns(req[r].input)) = Callable(req[r].input)
      BY <3>1, ColumnsFields, CallableReads
    <3>. QED  BY <1>1, <2>2, <3>2, <3>3
  <2>3. ASSUME NEW r \in Request, Write(r), HasTool(req[r].tool), req[r].tool = t,
               tools'[t] = Merge(tools[t], Columns(req[r].input)),
               req[r].input.mode # "service", r \notin overtaken, Callable(tools[t])
        PROVE  FALSE
    <3>1. /\ tools[t] \in Row /\ req[r].input \in Input
          /\ req[r].pc = "write" /\ Applicable(r, req[r])
      BY <1>1, <2>0, <2>3, StatementAnswers DEF Write, IInv, Validated, Job, HasTool
    <3>2. CrossField(req[r].input) => ValidMerge(tools[t], req[r].input)
      BY <2>3, <3>1 DEF Applicable
    <3>. QED  BY <1>1, <2>3, <3>1, <3>2, MergeKeepsCallable DEF Applicable
  <2>4. CASE tools'[t] = Gone
    BY <1>1, <2>4 DEF HasTool, NoRow
  <2>. QED  BY <1>1, <2>0, <2>1, <2>2, <2>3, <2>4, WhoWrites, StatementAnswers DEF HasTool, Write
<1>2. IInv /\ [Next]_vars =>
        [\A t \in Tool : HasTool(t)' /\ ~ Callable(tools'[t]) => Excused(t)]_vars
  BY <1>1
<1>. QED  BY <1>2, Validation, PTL DEF Spec, ToolsStayCallable

----------------------------------------------------------------------------
(* Sums.  CostOf is a fold; what it computes is shown by induction over the *)
(* subsets of a finite set, with the sets of subsets themselves for the     *)
(* induction's hypotheses.                                                  *)

\* Among subsets of a finite set one is smallest.
LEMMA Smallest ==
    ASSUME NEW D, IsFiniteSet(D), NEW Bad \in SUBSET SUBSET D, Bad # {}
    PROVE  \E s \in Bad : \A t \in Bad : t \subseteq s => t = s
<1> DEFINE R == StrictSubsetOrdering(D)
           F == FiniteSubsetsOf(D)
<1>1. IsWellFoundedOn(R, F) /\ Bad \subseteq F
  BY FS_StrictSubsetOrderingWellFounded, FS_Subset DEF FiniteSubsetsOf
<1> HIDE DEF R, F
<1>2. PICK s \in Bad : \A t \in Bad : ~ (<<t, s>> \in R)
  BY <1>1, WFMin
<1>3. ASSUME NEW t \in Bad, t \subseteq s, t # s PROVE FALSE
  BY <1>2, <1>3 DEF R, StrictSubsetOrdering
<1> QED BY <1>3

\* A set of subsets that has the empty one and grows by elements has them all.
LEMMA Growing ==
    ASSUME NEW D, IsFiniteSet(D), NEW G \in SUBSET SUBSET D, {} \in G,
           \A s \in G : \A x \in D \ s : s \cup {x} \in G
    PROVE  G = SUBSET D
<1> DEFINE Bad == (SUBSET D) \ G
<1> SUFFICES ASSUME Bad # {} PROVE FALSE
  OBVIOUS
<1>1. PICK s \in Bad : \A t \in Bad : t \subseteq s => t = s
  <2> HIDE DEF Bad
  <2>1. Bad \in SUBSET SUBSET D
    BY DEF Bad
  <2> QED BY <2>1, Smallest
<1>2. PICK x \in s : TRUE
  OBVIOUS
<1>3. s \ {x} \in G /\ x \in D \ (s \ {x}) /\ (s \ {x}) \cup {x} = s
  BY <1>1, <1>2
<1> QED BY <1>3

\* f sums c over the subsets of D, whichever element is taken first.
Adds(f, c, D) ==
    /\ f \in [SUBSET D -> Nat]
    /\ f[{}] = 0
    /\ \A s \in SUBSET D : \A x \in s : f[s] = c[x] + f[s \ {x}]

LEMMA SumExists ==
    ASSUME NEW D, IsFiniteSet(D), NEW c \in [D -> Nat]
    PROVE  \E f : Adds(f, c, D)
<1> DEFINE G == {E \in SUBSET D : \E f : Adds(f, c, E)}
<1>1. {} \in G
  <2>1. Adds([s \in SUBSET {} |-> 0], c, {})
    BY DEF Adds
  <2> QED BY <2>1
<1>2. ASSUME NEW E \in G, NEW y \in D \ E PROVE E \cup {y} \in G
  <2>1. PICK f : Adds(f, c, E)
    OBVIOUS
  <2> DEFINE g == [s \in SUBSET (E \cup {y}) |-> IF y \in s THEN c[y] + f[s \ {y}] ELSE f[s]]
  <2>2. \A s \in SUBSET (E \cup {y}) : s \ {y} \in SUBSET E /\ (y \notin s => s \in SUBSET E)
    OBVIOUS
  <2>3. g \in [SUBSET (E \cup {y}) -> Nat]
    BY <2>1, <2>2 DEF Adds
  <2>4. g[{}] = 0
    BY <2>1 DEF Adds
  <2>5. ASSUME NEW s \in SUBSET (E \cup {y}), NEW x \in s PROVE g[s] = c[x] + g[s \ {x}]
    <3>1. s \ {x} \in SUBSET (E \cup {y}) /\ c[x] \in Nat /\ c[y] \in Nat
      BY <1>2
    <3>2. CASE x = y
      <4>1. g[s] = c[y] + f[s \ {y}] /\ g[s \ {x}] = f[s \ {y}]
        BY <3>1, <3>2
      <4> QED BY <3>2, <4>1
    <3>3. CASE x # y /\ y \in s
      <4>1. g[s] = c[y] + f[s \ {y}] /\ g[s \ {x}] = c[y] + f[(s \ {x}) \ {y}]
        BY <3>1, <3>3
      <4>2. f[s \ {y}] = c[x] + f[(s \ {y}) \ {x}]
        BY <2>1, <2>2, <3>3 DEF Adds
      <4>3. (s \ {y}) \ {x} = (s \ {x}) \ {y}
        OBVIOUS
      <4>4. f[(s \ {x}) \ {y}] \in Nat
        BY <2>1, <2>2, <3>1 DEF Adds
      <4> HIDE DEF g
      <4>5. f[s \ {y}] = c[x] + f[(s \ {x}) \ {y}]
        BY <4>2, <4>3
      <4>6. \A i, j, k \in Nat : i + (j + k) = j + (i + k)
        OBVIOUS
      <4> QED BY <3>1, <4>1, <4>4, <4>5, <4>6
    <3>4. CASE y \notin s
      BY <2>1, <2>2, <3>1, <3>4 DEF Adds
    <3> QED BY <3>2, <3>3, <3>4
  <2>6. Adds(g, c, E \cup {y})
    <3> HIDE DEF g
    <3> QED BY <2>3, <2>4, <2>5 DEF Adds
  <2>7. E \cup {y} \in SUBSET D
    BY <1>2
  <2> HIDE DEF g
  <2> QED BY <2>6, <2>7
<1> HIDE DEF G
<1>3. G = SUBSET D
  <2>1. G \in SUBSET SUBSET D
    BY DEF G
  <2> QED BY <1>1, <1>2, <2>1, Growing
<1>4. D \in G
  BY <1>3
<1> QED BY <1>4 DEF G

\* The fold takes elements in an order of its own; so does a sum.
LEMMA FoldAdds ==
    ASSUME NEW D, IsFiniteSet(D), NEW c, NEW f, Adds(f, c, D)
    PROVE  MapThenSumSet(LAMBDA r : c[r], D) = f[D]
<1> DEFINE Pick(s) == CHOOSE x \in s : TRUE
           Sums(h) == h = [s \in SUBSET D |-> IF s = {} THEN 0 ELSE c[Pick(s)] + h[s \ {Pick(s)}]]
           iter == CHOOSE h : Sums(h)
<1>1. MapThenSumSet(LAMBDA r : c[r], D) = iter[D]
  BY DEF MapThenSumSet, MapThenFoldSet
<1>2. \A s \in SUBSET D : s # {} => Pick(s) \in s
  OBVIOUS
<1> HIDE DEF Pick
<1>3. Sums(f)
  <2> DEFINE F == [s \in SUBSET D |-> IF s = {} THEN 0 ELSE c[Pick(s)] + f[s \ {Pick(s)}]]
  <2>1. \A s \in SUBSET D : F[s] = f[s]
    BY <1>2 DEF Adds
  <2>2. f = [s \in SUBSET D |-> f[s]] /\ F = [s \in SUBSET D |-> F[s]]
    BY DEF Adds
  <2> HIDE DEF F
  <2>3. f = F
    BY <2>1, <2>2
  <2> QED BY <2>3 DEF F
<1>4. Sums(iter)
  <2> HIDE DEF Sums
  <2> QED BY <1>3
<1> HIDE DEF iter
<1> DEFINE Bad == {s \in SUBSET D : iter[s] # f[s]}
<1>5. CASE Bad = {}
  BY <1>1, <1>5
<1>6. CASE Bad # {}
  <2>1. PICK s \in Bad : \A t \in Bad : t \subseteq s => t = s
    <3> HIDE DEF Bad
    <3>1. Bad \in SUBSET SUBSET D
      BY DEF Bad
    <3> QED BY <1>6, <3>1, Smallest
  <2>2. s # {}
    BY <1>4, <2>1 DEF Adds
  <2>3. Pick(s) \in s /\ s \in SUBSET D
    BY <1>2, <2>1, <2>2
  <2>4. iter[s] = c[Pick(s)] + iter[s \ {Pick(s)}]
    BY <1>4, <2>2, <2>3
  <2>5. f[s] = c[Pick(s)] + f[s \ {Pick(s)}]
    BY <2>3 DEF Adds
  <2>6. s \ {Pick(s)} \notin Bad
    BY <2>1, <2>3
  <2>7. iter[s \ {Pick(s)}] = f[s \ {Pick(s)}]
    BY <2>3, <2>6
  <2> QED BY <2>1, <2>4, <2>5, <2>7
<1> QED BY <1>5, <1>6

\* CostOf, of any costs.
Total(c, S) == MapThenSumSet(LAMBDA r : c[r], S)

LEMMA TotalAdds ==
    ASSUME NEW c \in [Requests -> Nat]
    PROVE  \E f : Adds(f, c, Requests) /\ \A S \in SUBSET Requests : Total(c, S) = f[S]
<1>1. PICK f : Adds(f, c, Requests)
  BY RequestsAssumption, SumExists
<1>2. ASSUME NEW S \in SUBSET Requests PROVE Total(c, S) = f[S]
  <2> DEFINE g == [s \in SUBSET S |-> f[s]]
  <2>1. Adds(g, c, S)
    BY <1>1 DEF Adds
  <2>2. IsFiniteSet(S)
    BY RequestsAssumption, FS_Subset
  <2> HIDE DEF g
  <2>3. Total(c, S) = g[S]
    BY <2>1, <2>2, FoldAdds DEF Total
  <2> QED BY <2>3 DEF g
<1> QED BY <1>1, <1>2

\* Nothing costs nothing.
LEMMA TotalEmpty == ASSUME NEW c \in [Requests -> Nat] PROVE Total(c, {}) = 0
BY TotalAdds DEF Adds

\* One request more adds its cost.
LEMMA TotalStep ==
    ASSUME NEW c \in [Requests -> Nat], NEW S \in SUBSET Requests, NEW x \in Requests
    PROVE  /\ Total(c, S) \in Nat
           /\ x \notin S => Total(c, S \cup {x}) = c[x] + Total(c, S)
<1>1. PICK f : Adds(f, c, Requests) /\ \A T \in SUBSET Requests : Total(c, T) = f[T]
  BY TotalAdds
<1>2. f[S] \in Nat
  BY <1>1 DEF Adds
<1>3. ASSUME x \notin S PROVE f[S \cup {x}] = c[x] + f[S]
  <2>1. (S \cup {x}) \ {x} = S
    BY <1>3
  <2>2. f[S \cup {x}] = c[x] + f[(S \cup {x}) \ {x}]
    BY <1>1 DEF Adds
  <2> QED BY <2>1, <2>2
<1> QED BY <1>1, <1>2, <1>3

\* A sum of costs is never negative.
LEMMA TotalNat ==
    ASSUME NEW c \in [Requests -> Nat], NEW S \in SUBSET Requests
    PROVE  Total(c, S) \in Nat
BY TotalAdds DEF Adds

\* More requests at higher costs cost more.
LEMMA TotalGrows ==
    ASSUME NEW c \in [Requests -> Nat], NEW d \in [Requests -> Nat],
           NEW S \in SUBSET Requests, NEW T \in SUBSET Requests,
           S \subseteq T, \A r \in S : c[r] <= d[r]
    PROVE  Total(c, S) <= Total(d, T)
<1> DEFINE G == {U \in SUBSET T : Total(c, S \cap U) <= Total(d, U)}
<1>1. {} \in G
  BY TotalEmpty
<1>2. ASSUME NEW U \in G, NEW x \in T \ U PROVE U \cup {x} \in G
  <2>1. /\ x \in Requests /\ U \in SUBSET Requests /\ S \cap U \in SUBSET Requests
        /\ c[x] \in Nat /\ d[x] \in Nat
    BY <1>2
  <2>2. /\ Total(d, U) \in Nat /\ Total(c, S \cap U) \in Nat
        /\ Total(d, U \cup {x}) = d[x] + Total(d, U)
    BY <1>2, <2>1, TotalStep
  <2>3. Total(c, S \cap U) <= Total(d, U)
    BY <1>2
  <2>4. Total(c, S \cap (U \cup {x})) <= Total(d, U \cup {x})
    <3>1. CASE x \in S
      <4>1. S \cap (U \cup {x}) = (S \cap U) \cup {x} /\ x \notin S \cap U /\ c[x] <= d[x]
        BY <1>2, <3>1
      <4>2. Total(c, (S \cap U) \cup {x}) = c[x] + Total(c, S \cap U)
        BY <2>1, <4>1, TotalStep
      <4>3. Total(c, S \cap (U \cup {x})) = c[x] + Total(c, S \cap U) /\ c[x] <= d[x]
        BY <4>1, <4>2
      <4> QED BY <2>1, <2>2, <2>3, <4>3
    <3>2. CASE x \notin S
      <4>1. S \cap (U \cup {x}) = S \cap U
        BY <3>2
      <4> QED BY <2>1, <2>2, <2>3, <4>1
    <3> QED BY <3>1, <3>2
  <2> QED BY <1>2, <2>4
<1> HIDE DEF G
<1>3. IsFiniteSet(T) /\ G \in SUBSET SUBSET T
  BY RequestsAssumption, FS_Subset DEF G
<1>4. G = SUBSET T
  BY <1>1, <1>2, <1>3, Growing
<1>5. T \in G /\ S \cap T = S
  BY <1>4
<1> QED BY <1>5 DEF G

\* Two parts cost at least as much as the whole.
LEMMA TotalSplits ==
    ASSUME NEW c \in [Requests -> Nat],
           NEW S \in SUBSET Requests, NEW A \in SUBSET Requests, NEW B \in SUBSET Requests,
           S \subseteq A \cup B
    PROVE  Total(c, S) <= Total(c, A) + Total(c, B)
<1> DEFINE G == {U \in SUBSET B : Total(c, A \cup U) <= Total(c, A) + Total(c, U)}
<1>0. Total(c, A) \in Nat /\ Total(c, B) \in Nat /\ Total(c, S) \in Nat
      /\ Total(c, A \cup B) \in Nat /\ Total(c, S) <= Total(c, A \cup B)
  <2>1. A \cup B \in SUBSET Requests /\ \A r \in S : c[r] <= c[r]
    OBVIOUS
  <2>2. Total(c, S) <= Total(c, A \cup B)
    BY <2>1, TotalGrows
  <2>3. \A U \in SUBSET Requests : Total(c, U) \in Nat
    <3>1. PICK f : Adds(f, c, Requests) /\ \A T \in SUBSET Requests : Total(c, T) = f[T]
      BY TotalAdds
    <3> QED BY <3>1 DEF Adds
  <2> QED BY <2>1, <2>2, <2>3
<1>1. {} \in G
  <2>1. A \cup {} = A
    OBVIOUS
  <2> QED BY <1>0, <2>1, TotalEmpty
<1>2. ASSUME NEW U \in G, NEW x \in B \ U PROVE U \cup {x} \in G
  <2>1. /\ x \in Requests /\ U \in SUBSET Requests /\ A \cup U \in SUBSET Requests /\ c[x] \in Nat
    BY <1>2
  <2>2. /\ Total(c, U) \in Nat /\ Total(c, A \cup U) \in Nat
        /\ Total(c, U \cup {x}) = c[x] + Total(c, U)
    BY <1>2, <2>1, TotalStep
  <2>3. Total(c, A \cup U) <= Total(c, A) + Total(c, U)
    BY <1>2
  <2>4. Total(c, A \cup (U \cup {x})) <= Total(c, A) + Total(c, U \cup {x})
    <3>1. CASE x \in A
      <4>1. A \cup (U \cup {x}) = A \cup U
        BY <3>1
      <4> QED BY <1>0, <2>1, <2>2, <2>3, <4>1
    <3>2. CASE x \notin A
      <4>1. A \cup (U \cup {x}) = (A \cup U) \cup {x} /\ x \notin A \cup U
        BY <1>2, <3>2
      <4>2. Total(c, (A \cup U) \cup {x}) = c[x] + Total(c, A \cup U)
        BY <2>1, <4>1, TotalStep
      <4>3. Total(c, A \cup (U \cup {x})) = c[x] + Total(c, A \cup U)
        BY <4>1, <4>2
      <4> QED BY <1>0, <2>1, <2>2, <2>3, <4>3
    <3> QED BY <3>1, <3>2
  <2> QED BY <1>2, <2>4
<1> HIDE DEF G
<1>3. IsFiniteSet(B) /\ G \in SUBSET SUBSET B
  BY RequestsAssumption, FS_Subset DEF G
<1>4. G = SUBSET B
  BY <1>1, <1>2, <1>3, Growing
<1>5. Total(c, A \cup B) <= Total(c, A) + Total(c, B)
  BY <1>4 DEF G
<1> QED BY <1>0, <1>5

----------------------------------------------------------------------------
(* The calendar. *)

\* Windows begin by the day they are asked about, months before days, and never earlier
\* on a later day.
LEMMA Quotient ==
    ASSUME NEW n \in Nat \ {0}, NEW a \in Nat, NEW b \in Nat, a <= b
    PROVE  a - (a % n) <= b - (b % n)
<1> DEFINE p == a \div n
           q == b \div n
           i == a % n
           j == b % n
<1>1. /\ p \in Int /\ q \in Int /\ i \in 0..n - 1 /\ j \in 0..n - 1
      /\ a = n * p + i /\ b = n * q + j
  OBVIOUS
<1> HIDE DEF p, q, i, j
<1>2. CASE p <= q
  <2>1. n * p <= n * q
    BY <1>1, <1>2
  <2> QED BY <1>1, <2>1 DEF i, j
<1>3. CASE q + 1 <= p
  <2>1. n * q + n <= n * p
    <3>1. n * (q + 1) <= n * p /\ n * (q + 1) = n * q + n
      BY <1>1, <1>3
    <3> QED BY <3>1
  <2> QED BY <1>1, <2>1
<1> QED BY <1>1, <1>2, <1>3

LEMMA Windowed ==
    ASSUME NEW w \in Windows, NEW d \in Nat
    PROVE  /\ WindowStart(w, d) \in 0..d
           /\ \A e \in Nat : d <= e => WindowStart(w, d) <= WindowStart(w, e)
<1>1. DaysPerMonth \in Nat \ {0} /\ d % DaysPerMonth \in 0..d
  <2>1. \A n \in Nat \ {0} : d % n \in 0..d
    OBVIOUS
  <2> QED BY <2>1, CalendarAssumption
<1>2. \A e \in Nat : d <= e => d - (d % DaysPerMonth) <= e - (e % DaysPerMonth)
  BY <1>1, Quotient
<1> QED BY <1>1, <1>2 DEF WindowStart, Windows

----------------------------------------------------------------------------
(* The invariant. *)

\* The history has its types, and no day lies ahead.
HistoryOK ==
    /\ arrival \in [Requests -> 0..today] /\ stamp \in [Requests -> 0..today]
    /\ passed \in [Requests -> SUBSET (Owners \X Windows)]
    /\ last \in [Owners \X Windows -> [limit : Nat, open : SUBSET Requests]]

\* Only a request that is on the ledger has a cost, and it is there once.
OnLedger ==
    /\ \A r \in Requests :
          IF r \in pending \cup stored \cup gone THEN pc[r] = "recorded"
          ELSE pc[r] # "recorded" /\ cost[r] = 0 /\ stamp[r] = 0
    /\ pending \cap (stored \cup gone) = {} /\ stored \cap gone = {}

\* c asks for what the agent of r or everyone has spent, under a limit that was set for that
\* window, since no day before the window r came in and none after the one that runs now.
Proper(r, c) ==
    /\ \/ c.owner = AgentOf(r) /\ \E b \in Budgets : b[c.window] = c.limit
       \/ c.owner = Everyone /\ \E k \in Caps : k.limit = c.limit /\ k.window = c.window
    /\ WindowStart(c.window, arrival[r]) <= c.since
    /\ c.since <= WindowStart(c.window, today)

Asked == \A r \in Requests : \A i \in DOMAIN todo[r] : Proper(r, todo[r][i])

\* What refuses r.
Earned(r) ==
    LET spent(o, w) == Spend(Requests, o, WindowStart(w, arrival[r])) IN
    \/ \E b \in Budgets, w \in Windows : b[w] > 0 /\ spent(AgentOf(r), w) >= b[w]
    \/ \E c \in Caps : c.limit > 0 /\ spent(Everyone, c.window) >= c.limit

\* A check that has found a limit reached, on its way to refuse.
Refusing ==
    \A r \in Requests :
        /\ ~ allowed[r] => pc[r] \in {"sumBudget", "sumCap"}
        /\ ~ allowed[r] \/ pc[r] = "refused" => Earned(r)

\* Whoever was found below limit l and may still spend was open when it was last respected.
OpenCovers ==
    \A l \in Owners \X Windows : \A r \in Requests : l \in passed[r] =>
        /\ last[l].limit > 0
        /\ r \in Open(l) => r \in last[l].open

\* What limit l has let through and was not open when it was last respected.
Closed(l) == {r \in stored : l \in passed[r]} \ last[l].open

Below ==
    \A o \in Owners, w \in Windows :
        LET l == <<o, w>> IN
        last[l].limit > 0 => Spend(Closed(l), o, WindowStart(w, today)) < last[l].limit

Kept == BTypeOK /\ HistoryOK /\ OnLedger /\ Asked /\ Refusing /\ OpenCovers /\ Below

\* What S has cost o since a day, with its state as parameters.
Part(s, S, o, since) == {r \in S : (o = Everyone \/ AgentOf(r) = o) /\ s[r] >= since}
Spent(c, s, S, o, since) == Total(c, Part(s, S, o, since))

EarnedBy(c, s, r) ==
    LET spent(o, w) == Spent(c, s, Requests, o, WindowStart(w, arrival[r])) IN
    \/ \E b \in Budgets, w \in Windows : b[w] > 0 /\ spent(AgentOf(r), w) >= b[w]
    \/ \E k \in Caps : k.limit > 0 /\ spent(Everyone, k.window) >= k.limit

\* Spend and Earned, in this state and in the next, as sums of given costs and days.
LEMMA SpendIs ==
    /\ \A S, o, d : Spend(S, o, d) = Spent(cost, stamp, S, o, d)
    /\ \A r : Earned(r) <=> EarnedBy(cost, stamp, r)
    /\ \A r : arrival'[r] = arrival[r] => (Earned(r)' <=> EarnedBy(cost', stamp', r))
<1>1. \A S, o, d : Spend(S, o, d) = Spent(cost, stamp, S, o, d)
  BY DEF Spend, CostOf, Spent, Total, Part
<1>2. \A r : Earned(r) <=> EarnedBy(cost, stamp, r)
  BY <1>1 DEF Earned, EarnedBy
<1>3. ASSUME NEW r, arrival'[r] = arrival[r] PROVE Earned(r)' <=> EarnedBy(cost', stamp', r)
  <2>1. \A S, o, d : Spend(S, o, d)' = Spent(cost', stamp', S, o, d)
    BY DEF Spend, CostOf, Spent, Total, Part, MapThenSumSet, MapThenFoldSet
  <2> QED BY <1>3, <2>1 DEF Earned, EarnedBy
<1> QED BY <1>1, <1>2, <1>3

\* Below, in this state and in the next, likewise.
LEMMA BelowIs ==
    /\ Below <=> \A o \in Owners, w \in Windows : last[<<o, w>>].limit > 0 =>
          Spent(cost, stamp, Closed(<<o, w>>), o, WindowStart(w, today)) < last[<<o, w>>].limit
    /\ Below' <=> \A o \in Owners, w \in Windows : last'[<<o, w>>].limit > 0 =>
          Spent(cost', stamp', Closed(<<o, w>>)', o, WindowStart(w, today')) < last'[<<o, w>>].limit
BY DEF Below, Spend, CostOf, Spent, Total, Part, WindowStart, MapThenSumSet, MapThenFoldSet

\* More is spent by more requests, at higher costs, of later days, since an earlier day.
LEMMA SpentGrows ==
    ASSUME NEW c \in [Requests -> Nat], NEW d \in [Requests -> Nat],
           NEW s \in [Requests -> Nat], NEW t \in [Requests -> Nat],
           NEW S \in SUBSET Requests, NEW T \in SUBSET Requests, S \subseteq T,
           NEW i \in Int, NEW j \in Int, j <= i, NEW o,
           \A r \in S : s[r] >= i => c[r] <= d[r] /\ t[r] >= j
    PROVE  /\ Spent(c, s, S, o, i) \in Nat /\ Spent(d, t, T, o, j) \in Nat
           /\ Spent(c, s, S, o, i) <= Spent(d, t, T, o, j)
<1> DEFINE A == Part(s, S, o, i)
           B == Part(t, T, o, j)
<1>1. A \in SUBSET Requests /\ B \in SUBSET Requests /\ A \subseteq B
  BY DEF Part
<1>2. \A r \in A : c[r] <= d[r]
  BY DEF Part
<1> HIDE DEF A, B
<1>3. Total(c, A) <= Total(d, B) /\ Total(c, A) \in Nat /\ Total(d, B) \in Nat
  <2>1. Total(c, A) <= Total(d, B)
    BY <1>1, <1>2, TotalGrows
  <2>2. Total(c, A) \in Nat /\ Total(d, B) \in Nat
    BY <1>1, TotalNat
  <2> QED BY <2>1, <2>2
<1> QED BY <1>3 DEF A, B, Spent

\* The types that sums need.
LEMMA KeptTypes ==
    ASSUME BTypeOK, HistoryOK
    PROVE  /\ cost \in [Requests -> Nat] /\ stamp \in [Requests -> Nat] /\ today \in Nat
           /\ \A r \in Requests : arrival[r] \in Nat /\ arrival[r] <= today
           /\ \A r \in Requests : stamp[r] <= today
<1>1. today \in Nat
  BY CalendarAssumption DEF BTypeOK
<1>2. \A r \in Requests : cost[r] \in Nat /\ stamp[r] \in 0..today /\ arrival[r] \in 0..today
  <2> TAKE r \in Requests
  <2>1. cost[r] \in Costs \cup {0}
    BY DEF BTypeOK
  <2>2. stamp[r] \in 0..today /\ arrival[r] \in 0..today
    BY DEF HistoryOK
  <2>3. Costs \subseteq Nat /\ 0 \in Nat
    BY MoneyAssumption
  <2>4. cost[r] \in Nat
    BY <2>1, <2>3
  <2> QED BY <2>2, <2>4
<1>3. cost \in [Requests -> Nat] /\ stamp \in [Requests -> Nat]
  BY <1>1, <1>2 DEF BTypeOK
<1> QED BY <1>1, <1>2, <1>3

----------------------------------------------------------------------------
(* Lists of checks. *)

\* What is left when the first check of a list is done.
LEMMA TodoTail ==
    ASSUME NEW s \in Seq(Checks), s # <<>>
    PROVE  /\ Head(s) \in Checks /\ Head(s) = s[1] /\ 1 \in DOMAIN s
           /\ Tail(s) \in Seq(Checks)
           /\ Tail(s) = <<>> <=> Len(s) = 1
           /\ \A i \in DOMAIN Tail(s) : i + 1 \in DOMAIN s /\ Tail(s)[i] = s[i + 1]
<1>1. /\ Len(s) \in Nat \ {0} /\ DOMAIN s = 1..Len(s) /\ Head(s) = s[1]
      /\ Tail(s) \in Seq(Checks) /\ DOMAIN Tail(s) = 1..Len(s) - 1 /\ Len(Tail(s)) = Len(s) - 1
      /\ \A i \in 1..Len(s) - 1 : Tail(s)[i] = s[i + 1]
  BY HeadTailProperties, EmptySeq, LenProperties, ElementOfSeq
<1>2. s[1] \in Checks
  BY <1>1, ElementOfSeq
<1>3. Tail(s) = <<>> <=> Len(Tail(s)) = 0
  BY <1>1, EmptySeq
<1> QED BY <1>1, <1>2, <1>3

----------------------------------------------------------------------------
(* What the kinds of steps leave alone. *)

CheckStep(r) ==
    Begin(r) \/ ReadBudget(r) \/ ReadCap(r) \/ Unchecked(r) \/ Sum(r) \/ NotForwarded(r)

\* A check moves its request along, and reads the ledger only.
LEMMA CheckEffect ==
    ASSUME BTypeOK, NEW r \in Requests, CheckStep(r)
    PROVE  /\ UNCHANGED <<today, settings, recorded, ledger>>
           /\ pc[r] \notin {"recorded", "refused", "failed"} /\ pc'[r] \in PCs \ {"recorded"}
           /\ pc'[r] # "idle"
           /\ pc' = [pc EXCEPT ![r] = pc'[r]]
           /\ todo' = [todo EXCEPT ![r] = todo'[r]]
           /\ allowed' = [allowed EXCEPT ![r] = allowed'[r]]
           /\ passed' = [passed EXCEPT ![r] = passed'[r]] \/ passed' = passed
           /\ \A q \in Requests \ {r} : arrival'[q] = arrival[q]
           /\ arrival' = arrival \/ pc[r] = "idle"
<1>1. CASE Begin(r)
  BY <1>1 DEF Begin, Goto, BTypeOK, PCs, check
<1>2. CASE ReadBudget(r)
  BY <1>2 DEF ReadBudget, Goto, BTypeOK, PCs, history
<1>3. CASE ReadCap(r)
  BY <1>3 DEF ReadCap, Goto, BTypeOK, PCs, history
<1>4. CASE Unchecked(r)
  BY <1>4 DEF Unchecked, After, Goto, BTypeOK, PCs, history
<1>5. CASE Sum(r)
  <2> DEFINE ends == Len(todo[r]) = 1
             p == IF ~ends THEN pc[r]
                  ELSE IF Within(Spend(stored, Head(todo[r]).owner, Head(todo[r]).since),
                                 Head(todo[r]).limit) /\ allowed[r]
                       THEN After(pc[r]) ELSE "refused"
  <2>1. pc[r] \in {"sumBudget", "sumCap"} /\ pc' = [pc EXCEPT ![r] = p]
    BY <1>5 DEF Sum, Goto
  <2>2. p \in {pc[r], After(pc[r]), "refused"}
    OBVIOUS
  <2> HIDE DEF p
  <2>3. /\ pc[r] \notin {"recorded", "refused", "failed"}
        /\ pc'[r] \in PCs \ {"recorded"} /\ pc'[r] # "idle"
        /\ pc' = [pc EXCEPT ![r] = pc'[r]]
    BY <2>1, <2>2 DEF BTypeOK, After, PCs
  <2>4. UNCHANGED <<today, settings, recorded, ledger, arrival>>
    BY <1>5 DEF Sum
  <2>5. /\ \E t : todo' = [todo EXCEPT ![r] = t]
        /\ \E a : allowed' = [allowed EXCEPT ![r] = a]
    BY <1>5 DEF Sum
  <2>6. passed' = passed \/ \E m : passed' = [passed EXCEPT ![r] = m]
    BY <1>5 DEF Sum
  <2>7. /\ todo' = [todo EXCEPT ![r] = todo'[r]] /\ allowed' = [allowed EXCEPT ![r] = allowed'[r]]
    BY <2>5 DEF BTypeOK
  <2>8. passed' = [passed EXCEPT ![r] = passed'[r]] \/ passed' = passed
    BY <2>6
  <2> QED BY <2>3, <2>4, <2>7, <2>8
<1>6. CASE NotForwarded(r)
  BY <1>6 DEF NotForwarded, Goto, BTypeOK, PCs, check, history
<1> QED BY <1>1, <1>2, <1>3, <1>4, <1>5, <1>6 DEF CheckStep

\* What a sum finds: c is asked for, and either its limit is open or it is reached.
LEMMA SumEffect ==
    ASSUME BTypeOK, NEW r \in Requests, Sum(r), NEW c, c = Head(todo[r])
    PROVE  LET l == <<c.owner, c.window>>
               ok == Within(Spend(stored, c.owner, c.since), c.limit)
           IN  /\ pc[r] \in {"sumBudget", "sumCap"} /\ todo[r] # <<>> /\ todo[r] \in Seq(Checks)
               /\ c \in Checks /\ l \in Owners \X Windows
               /\ todo'[r] = Tail(todo[r])
               /\ (~ allowed'[r] \/ pc'[r] = "refused") => ~ ok \/ ~ allowed[r]
               /\ ~ allowed'[r] => pc'[r] = pc[r]
               /\ \/ ok /\ c.limit > 0
                     /\ passed' = [passed EXCEPT ![r] = @ \cup {l}]
                     /\ last' = [last EXCEPT ![l] = [limit |-> c.limit, open |-> Open(l) \cup {r}]]
                  \/ UNCHANGED <<passed, last>>
<1> DEFINE l == <<c.owner, c.window>>
           ok == Within(Spend(stored, c.owner, c.since), c.limit)
           ends == Len(todo[r]) = 1
<1>1. pc[r] \in {"sumBudget", "sumCap"} /\ todo[r] # <<>> /\ todo[r] \in Seq(Checks)
  BY DEF Sum, BTypeOK
<1>2. c \in Checks
  BY <1>1, TodoTail
<1>3. l \in Owners \X Windows
  BY <1>2 DEF Checks
<1>4. ok \in BOOLEAN
  BY DEF Within
<1>5. /\ todo' = [todo EXCEPT ![r] = Tail(@)]
      /\ allowed' = [allowed EXCEPT ![r] = ends \/ (@ /\ ok)]
      /\ pc' = [pc EXCEPT ![r] = IF ~ends THEN pc[r] ELSE IF ok /\ allowed[r] THEN After(pc[r])
                                 ELSE "refused"]
      /\ \/ ok /\ c.limit > 0
            /\ passed' = [passed EXCEPT ![r] = @ \cup {l}]
            /\ last' = [last EXCEPT ![l] = [limit |-> c.limit, open |-> Open(l) \cup {r}]]
         \/ UNCHANGED <<passed, last>>
  BY DEF Sum, Goto
<1> HIDE DEF ok
<1>6. /\ todo'[r] = Tail(todo[r])
      /\ allowed'[r] = (ends \/ (allowed[r] /\ ok))
      /\ pc'[r] = IF ~ends THEN pc[r] ELSE IF ok /\ allowed[r] THEN After(pc[r]) ELSE "refused"
  BY <1>5 DEF BTypeOK
<1>7. (~ allowed'[r] \/ pc'[r] = "refused") => ~ ok \/ ~ allowed[r]
  BY <1>1, <1>6 DEF After
<1>8. ~ allowed'[r] => pc'[r] = pc[r]
  BY <1>6
<1> QED BY <1>1, <1>2, <1>3, <1>5, <1>6, <1>7, <1>8 DEF ok

\* The ledger only ever moves on.
LEMMA LedgerMoves ==
    ASSUME BTypeOK, OnLedger,
           (\E B \in SUBSET Requests : Settle(B)) \/ (\E a \in Agents : DeleteAgent(a))
    PROVE  /\ UNCHANGED <<today, pc, check, recorded, history>>
           /\ pending' \cup stored' \cup gone' = pending \cup stored \cup gone
           /\ pending' \cap (stored' \cup gone') = {} /\ stored' \cap gone' = {}
           /\ stored' \subseteq stored \cup pending
           /\ stored \cup gone \subseteq stored' \cup gone'
           /\ agents' \subseteq Agents /\ budget' \in [Agents -> Budgets \cup {NoBudget}]
           /\ cap' = cap
<1>1. CASE \E B \in SUBSET Requests : Settle(B)
  BY <1>1 DEF Settle, Ledger!Commit, Ledger!GiveUp, OnLedger, settings, BTypeOK
<1>2. CASE \E a \in Agents : DeleteAgent(a)
  BY <1>2 DEF DeleteAgent, Ledger!Erase, OnLedger, ledger, BTypeOK
<1> QED BY <1>1, <1>2

\* Recording a request gives it, and no other, a cost and a day.
LEMMA RecordEffect ==
    ASSUME BTypeOK, HistoryOK, OnLedger, NEW r \in Requests, Record(r)
    PROVE  /\ UNCHANGED <<today, settings, check, history, stored, gone>>
           /\ pending' = pending \cup {r} /\ r \notin pending \cup stored \cup gone
           /\ pc[r] = "upstream" /\ pc' = [pc EXCEPT ![r] = "recorded"]
           /\ cost' \in [Requests -> Costs \cup {0}]
           /\ stamp' = [stamp EXCEPT ![r] = today]
           /\ \A q \in Requests \ {r} : cost'[q] = cost[q]
           /\ cost[r] = 0 /\ stamp[r] = 0
BY DEF Record, Ledger!Accept, Goto, OnLedger, BTypeOK

----------------------------------------------------------------------------
(* The steps. *)

\* Nothing has been asked, found or spent at first.
LEMMA BudgetsInit == BInit => Kept
<1> SUFFICES ASSUME BInit PROVE Kept
  OBVIOUS
<1>1. BTypeOK /\ OnLedger
  BY MoneyAssumption, CalendarAssumption DEF BInit, Ledger!Init, BTypeOK, OnLedger, PCs
<1>2. HistoryOK
  BY DEF BInit, HistoryOK
<1>3. Asked /\ Refusing /\ OpenCovers /\ Below
  BY DEF BInit, Asked, Refusing, OpenCovers, Below
<1> QED BY <1>1, <1>2, <1>3 DEF Kept

\* What is asked is a check.
LEMMA AskType ==
    ASSUME NEW o \in Owners, NEW w \in Windows, NEW n \in Nat, today \in Nat
    PROVE  Ask(o, w, n) \in Checks
BY Windowed DEF Ask, Checks

\* A window begins no later than the one that runs on a later day.
LEMMA AskProper ==
    ASSUME NEW r \in Requests, NEW o, NEW w \in Windows, NEW n,
           today \in Nat, arrival[r] \in Nat, arrival[r] <= today,
           \/ o = AgentOf(r) /\ \E b \in Budgets : b[w] = n
           \/ o = Everyone /\ \E k \in Caps : k.limit = n /\ k.window = w
    PROVE  Proper(r, Ask(o, w, n))
<1>1. /\ WindowStart(w, arrival[r]) <= WindowStart(w, today)
      /\ WindowStart(w, today) \in Int
  BY Windowed
<1> QED BY <1>1 DEF Ask, Proper

\* The lists that the two budget checks make.
LEMMA ReadEffect ==
    ASSUME BTypeOK, HistoryOK, NEW r \in Requests, ReadBudget(r) \/ ReadCap(r)
    PROVE  /\ todo'[r] \in Seq(Checks)
           /\ \A i \in DOMAIN todo'[r] : Proper(r, todo'[r][i])
           /\ todo'[r] # <<>> <=> pc'[r] \in {"sumBudget", "sumCap"}
<1> DEFINE a == AgentOf(r)
<1>1. /\ a \in Owners /\ Everyone \in Owners /\ "daily" \in Windows /\ "monthly" \in Windows
      /\ today \in Nat /\ arrival[r] \in Nat /\ arrival[r] <= today
  BY RequestsAssumption, KeptTypes DEF Owners, Windows
<1>2. CASE ReadBudget(r)
  <2>1. PICK b \in Budgets : b = budget[a]
    BY <1>2, RequestsAssumption DEF ReadBudget, BTypeOK
  <2>2. b.daily \in Nat /\ b.monthly \in Nat /\ b["daily"] = b.daily /\ b["monthly"] = b.monthly
    BY MoneyAssumption
  <2> DEFINE x == Ask(a, "daily", b.daily)
             y == Ask(a, "monthly", b.monthly)
  <2>3. x \in Checks /\ y \in Checks
    BY <1>1, <2>2, AskType
  <2>4. Proper(r, x) /\ Proper(r, y)
    BY <1>1, <2>1, <2>2, AskProper
  <2>5. todo'[r] = <<x, y>> /\ pc'[r] = "sumBudget"
    BY <1>2, <2>1 DEF ReadBudget, BTypeOK, Goto
  <2> HIDE DEF x, y
  <2> QED BY <2>3, <2>4, <2>5
<1>3. CASE ReadCap(r)
  <2>1. cap \in Caps /\ cap.limit \in Nat /\ cap.window \in Windows
    BY MoneyAssumption DEF BTypeOK
  <2> DEFINE x == Ask(Everyone, cap.window, cap.limit)
  <2>2. x \in Checks /\ Proper(r, x)
    BY <1>1, <2>1, AskType, AskProper
  <2>3. CASE cap.limit = 0
    <3>1. todo'[r] = <<>> /\ pc'[r] = "upstream"
      BY <1>3, <2>3 DEF ReadCap, BTypeOK, Goto
    <3> QED BY <3>1
  <2>4. CASE cap.limit # 0
    <3>1. todo'[r] = <<x>> /\ pc'[r] = "sumCap"
      BY <1>3, <2>4 DEF ReadCap, BTypeOK, Goto
    <3> HIDE DEF x
    <3> QED BY <2>2, <3>1
  <2> QED BY <2>3, <2>4
<1> QED BY <1>2, <1>3

\* What each check leaves on the list of its request.
LEMMA CheckList ==
    ASSUME Kept, NEW r \in Requests, CheckStep(r)
    PROVE  /\ todo'[r] \in Seq(Checks)
           /\ todo'[r] # <<>> <=> pc'[r] \in {"sumBudget", "sumCap"}
           /\ allowed'[r] \in BOOLEAN
           /\ \A i \in DOMAIN todo'[r] : Proper(r, todo'[r][i]) /\ arrival'[r] = arrival[r]
<1>0. BTypeOK /\ HistoryOK /\ Asked
  BY DEF Kept
<1>1. CASE ReadBudget(r) \/ ReadCap(r)
  <2>1. arrival' = arrival /\ allowed' = allowed
    BY <1>1 DEF ReadBudget, ReadCap, history
  <2> QED BY <1>0, <1>1, <2>1, ReadEffect DEF BTypeOK
<1>2. CASE Begin(r)
  <2>1. todo'[r] = <<>> /\ pc'[r] = "budget" /\ allowed' = allowed
    BY <1>0, <1>2 DEF Begin, Goto, BTypeOK, check
  <2> QED BY <1>0, <2>1 DEF BTypeOK
<1>3. CASE Unchecked(r)
  <2>1. todo'[r] = <<>> /\ pc'[r] \in {"cap", "upstream"} /\ allowed'[r] \in BOOLEAN
    BY <1>0, <1>3 DEF Unchecked, After, Goto, BTypeOK
  <2> QED BY <2>1
<1>4. CASE NotForwarded(r)
  <2>1. todo'[r] = <<>> /\ pc'[r] = "failed" /\ allowed' = allowed
    BY <1>0, <1>4 DEF NotForwarded, Goto, BTypeOK, check
  <2> QED BY <1>0, <2>1 DEF BTypeOK
<1>5. CASE Sum(r)
  <2>1. /\ pc[r] \in {"sumBudget", "sumCap"} /\ todo[r] # <<>> /\ todo[r] \in Seq(Checks)
        /\ todo'[r] = Tail(todo[r]) /\ arrival' = arrival
    BY <1>0, <1>5 DEF Sum, BTypeOK
  <2>2. /\ Tail(todo[r]) \in Seq(Checks)
        /\ Tail(todo[r]) = <<>> <=> Len(todo[r]) = 1
        /\ \A i \in DOMAIN Tail(todo[r]) :
              i + 1 \in DOMAIN todo[r] /\ Tail(todo[r])[i] = todo[r][i + 1]
    BY <2>1, TodoTail
  <2>3. pc'[r] \in {"sumBudget", "sumCap"} <=> Len(todo[r]) # 1
    <3> DEFINE ok == Within(Spend(stored, Head(todo[r]).owner, Head(todo[r]).since),
                            Head(todo[r]).limit)
    <3>1. pc'[r] = IF Len(todo[r]) # 1 THEN pc[r]
                   ELSE IF ok /\ allowed[r] THEN After(pc[r]) ELSE "refused"
      BY <1>0, <1>5 DEF Sum, Goto, BTypeOK
    <3> HIDE DEF ok
    <3> QED BY <2>1, <3>1 DEF After
  <2>4. allowed'[r] \in BOOLEAN
    BY <1>0, <1>5 DEF Sum, BTypeOK, Within
  <2>5. \A i \in DOMAIN Tail(todo[r]) : Proper(r, Tail(todo[r])[i])
    BY <1>0, <2>2 DEF Asked
  <2> QED BY <2>1, <2>2, <2>3, <2>4, <2>5
<1> QED BY <1>1, <1>2, <1>3, <1>4, <1>5 DEF CheckStep

\* Every step keeps the types.
LEMMA BudgetTypes ==
    ASSUME Kept, [BNext]_bvars
    PROVE  BTypeOK'
<1>0. BTypeOK /\ HistoryOK /\ OnLedger
  BY DEF Kept
<1>1. ASSUME NEW r \in Requests, CheckStep(r) PROVE BTypeOK'
  <2>1. /\ UNCHANGED <<today, settings, recorded, ledger>>
        /\ pc'[r] \in PCs /\ pc' = [pc EXCEPT ![r] = pc'[r]]
        /\ todo' = [todo EXCEPT ![r] = todo'[r]] /\ allowed' = [allowed EXCEPT ![r] = allowed'[r]]
    BY <1>0, <1>1, CheckEffect
  <2>2. /\ todo'[r] \in Seq(Checks) /\ allowed'[r] \in BOOLEAN
        /\ todo'[r] # <<>> <=> pc'[r] \in {"sumBudget", "sumCap"}
    BY <1>1, CheckList
  <2>3. pc' \in [Requests -> PCs]
    BY <1>0, <2>1 DEF BTypeOK
  <2>4. todo' \in [Requests -> Seq(Checks)]
    BY <1>0, <2>1, <2>2 DEF BTypeOK
  <2>5. \A q \in Requests : pc'[q] \in {"sumBudget", "sumCap"} <=> todo'[q] # <<>>
    BY <1>0, <2>1, <2>2 DEF BTypeOK
  <2>6. allowed' \in [Requests -> BOOLEAN]
    BY <1>0, <2>1, <2>2 DEF BTypeOK
  <2> QED BY <1>0, <2>1, <2>3, <2>4, <2>5, <2>6 DEF BTypeOK, settings, recorded, ledger
<1>2. ASSUME NEW r \in Requests, Record(r) PROVE BTypeOK'
  <2>1. stamp' \in [Requests -> 0..MaxDay]
    BY <1>0, <1>2, RecordEffect DEF BTypeOK
  <2>2. pc' \in [Requests -> PCs] /\ \A q \in Requests :
            pc'[q] \in {"sumBudget", "sumCap"} <=> pc[q] \in {"sumBudget", "sumCap"}
    BY <1>0, <1>2, RecordEffect DEF BTypeOK, PCs
  <2> QED BY <1>0, <1>2, <2>1, <2>2, RecordEffect DEF BTypeOK, settings, check
<1>3. CASE (\E B \in SUBSET Requests : Settle(B)) \/ (\E a \in Agents : DeleteAgent(a))
  BY <1>0, <1>3, LedgerMoves DEF BTypeOK, check, recorded
<1>4. CASE (\E a \in Agents, b \in Budgets : SetBudget(a, b)) \/ (\E c \in Caps : SetCap(c))
  BY <1>0, <1>4 DEF SetBudget, SetCap, BTypeOK, check, recorded, ledger
<1>5. CASE Midnight \/ UNCHANGED bvars
  BY <1>0, <1>5, CalendarAssumption DEF Midnight, bvars, BTypeOK, settings, check, recorded, ledger
<1> QED BY <1>1, <1>2, <1>3, <1>4, <1>5 DEF BNext, RequestStep, CheckStep

\* Every step keeps the types of the history, and a request on the ledger where it is.
LEMMA HistoryStep ==
    ASSUME Kept, [BNext]_bvars
    PROVE  HistoryOK' /\ OnLedger'
<1>0. BTypeOK /\ HistoryOK /\ OnLedger /\ today \in Nat
  BY KeptTypes DEF Kept
<1>1. ASSUME NEW r \in Requests, CheckStep(r) PROVE HistoryOK' /\ OnLedger'
  <2>1. /\ UNCHANGED <<today, settings, recorded, ledger>>
        /\ pc[r] # "recorded" /\ pc'[r] # "recorded" /\ pc' = [pc EXCEPT ![r] = pc'[r]]
    BY <1>0, <1>1, CheckEffect
  <2>2. OnLedger'
    BY <1>0, <2>1 DEF OnLedger, recorded, ledger, BTypeOK
  <2>3. arrival' \in [Requests -> 0..today]
    <3>1. CASE Begin(r)
      BY <1>0, <3>1 DEF Begin, HistoryOK
    <3>2. CASE ~ Begin(r)
      BY <1>0, <1>1, <3>2 DEF CheckStep, ReadBudget, ReadCap, Unchecked, Sum, NotForwarded,
                              history, HistoryOK
    <3> QED BY <3>1, <3>2
  <2>4. /\ passed' \in [Requests -> SUBSET (Owners \X Windows)]
        /\ last' \in [Owners \X Windows -> [limit : Nat, open : SUBSET Requests]]
    <3>1. CASE UNCHANGED <<passed, last>>
      BY <1>0, <3>1 DEF HistoryOK
    <3>2. CASE Sum(r) /\ ~ UNCHANGED <<passed, last>>
      <4>1. PICK c \in Checks : c = Head(todo[r])
        BY <1>0, <3>2, SumEffect
      <4> DEFINE l == <<c.owner, c.window>>
      <4>2. /\ l \in Owners \X Windows
            /\ passed' = [passed EXCEPT ![r] = @ \cup {l}]
            /\ last' = [last EXCEPT ![l] = [limit |-> c.limit, open |-> Open(l) \cup {r}]]
        BY <1>0, <3>2, <4>1, SumEffect
      <4> HIDE DEF l
      <4>3. c.limit \in Nat /\ Open(l) \cup {r} \in SUBSET Requests
        BY DEF Checks, Open
      <4>4. [limit |-> c.limit, open |-> Open(l) \cup {r}] \in [limit : Nat, open : SUBSET Requests]
        BY <4>3
      <4>5. passed' \in [Requests -> SUBSET (Owners \X Windows)]
        BY <1>0, <4>2 DEF HistoryOK
      <4>6. last' \in [Owners \X Windows -> [limit : Nat, open : SUBSET Requests]]
        BY <1>0, <4>2, <4>4 DEF HistoryOK
      <4> QED BY <4>5, <4>6
    <3>3. CASE ~ Sum(r)
      BY <1>0, <1>1, <3>3 DEF CheckStep, Begin, ReadBudget, ReadCap, Unchecked, NotForwarded,
                              history, HistoryOK
    <3> QED BY <3>1, <3>2, <3>3
  <2> QED BY <1>0, <2>1, <2>2, <2>3, <2>4 DEF HistoryOK, recorded
<1>2. ASSUME NEW r \in Requests, Record(r) PROVE HistoryOK' /\ OnLedger'
  <2>1. /\ UNCHANGED <<today, history, stored, gone>>
        /\ pending' = pending \cup {r} /\ r \notin pending \cup stored \cup gone
        /\ pc' = [pc EXCEPT ![r] = "recorded"]
        /\ stamp' = [stamp EXCEPT ![r] = today]
        /\ \A q \in Requests \ {r} : cost'[q] = cost[q]
    BY <1>0, <1>2, RecordEffect
  <2>2. stamp' \in [Requests -> 0..today]
    BY <1>0, <2>1 DEF HistoryOK
  <2>3. OnLedger'
    BY <1>0, <2>1 DEF OnLedger, BTypeOK
  <2> QED BY <1>0, <2>1, <2>2, <2>3 DEF HistoryOK, history
<1>3. CASE (\E B \in SUBSET Requests : Settle(B)) \/ (\E a \in Agents : DeleteAgent(a))
  BY <1>0, <1>3, LedgerMoves DEF HistoryOK, OnLedger, history, recorded
<1>4. CASE (\E a \in Agents, b \in Budgets : SetBudget(a, b)) \/ (\E c \in Caps : SetCap(c))
  BY <1>0, <1>4 DEF SetBudget, SetCap, HistoryOK, OnLedger, history, recorded, ledger
<1>5. CASE Midnight \/ UNCHANGED bvars
  <2>1. today' \in Nat /\ today <= today' /\ UNCHANGED <<pc, recorded, ledger, history>>
    BY <1>0, <1>5 DEF Midnight, bvars
  <2>2. 0..today \subseteq 0..today'
    BY <1>0, <2>1
  <2> QED BY <1>0, <2>1, <2>2 DEF HistoryOK, OnLedger, history, recorded, ledger
<1> QED BY <1>1, <1>2, <1>3, <1>4, <1>5 DEF BNext, RequestStep, CheckStep

\* A day that has come never makes an earlier question a later one.
LEMMA ProperLater ==
    ASSUME NEW r \in Requests, NEW c \in Checks, Proper(r, c), arrival'[r] = arrival[r],
           today \in Nat, today' \in Nat, today <= today'
    PROVE  Proper(r, c)'
<1>1. /\ WindowStart(c.window, today) <= WindowStart(c.window, today')
      /\ WindowStart(c.window, today) \in Int /\ WindowStart(c.window, today') \in Int
      /\ c.since \in Int
  BY Windowed DEF Checks
<1>2. c.since <= WindowStart(c.window, today')
  BY <1>1 DEF Proper
<1> QED BY <1>2 DEF Proper, WindowStart

\* Every step keeps what is still to be asked proper.
LEMMA AskedStep ==
    ASSUME Kept, [BNext]_bvars
    PROVE  Asked'
<1>0. BTypeOK /\ HistoryOK /\ Asked /\ today \in Nat
  BY KeptTypes DEF Kept
<1> SUFFICES ASSUME NEW q \in Requests, NEW i \in DOMAIN todo'[q], NEW c, c = todo'[q][i]
             PROVE  Proper(q, c)'
  BY DEF Asked, Proper, WindowStart
<1>1. ASSUME NEW r \in Requests, CheckStep(r) PROVE Proper(q, c)'
  <2>1. /\ today' = today
        /\ q # r => todo'[q] = todo[q] /\ arrival'[q] = arrival[q]
    BY <1>0, <1>1, CheckEffect DEF BTypeOK
  <2>2. Proper(q, c) /\ arrival'[q] = arrival[q]
    <3>1. CASE q = r
      BY <1>1, <3>1, CheckList
    <3>2. CASE q # r
      BY <1>0, <2>1, <3>2 DEF Asked
    <3> QED BY <3>1, <3>2
  <2> QED BY <2>1, <2>2 DEF Proper, WindowStart
<1>2. CASE ~ \E r \in Requests : CheckStep(r)
  <2>1. UNCHANGED <<todo, arrival>> /\ today' \in Nat /\ today <= today'
    <3>1. CASE \E r \in Requests : Record(r)
      BY <1>0, <3>1, RecordEffect DEF Kept, check, history
    <3>2. CASE (\E B \in SUBSET Requests : Settle(B)) \/ (\E a \in Agents : DeleteAgent(a))
      BY <1>0, <3>2, LedgerMoves DEF Kept, check, history
    <3>3. CASE (\E a \in Agents, b \in Budgets : SetBudget(a, b)) \/ (\E k \in Caps : SetCap(k))
      BY <1>0, <3>3 DEF SetBudget, SetCap, check, history
    <3>4. CASE Midnight \/ UNCHANGED bvars
      BY <1>0, <3>4 DEF Midnight, bvars, check, history
    <3> QED BY <1>2, <3>1, <3>2, <3>3, <3>4 DEF BNext, RequestStep, CheckStep
  <2>2. todo[q] \in Seq(Checks) /\ i \in DOMAIN todo[q] /\ c = todo[q][i]
    BY <1>0, <2>1 DEF BTypeOK
  <2>3. c \in Checks
    BY <2>2, ElementOfSeq
  <2>4. Proper(q, c)
    BY <1>0, <2>2 DEF Asked
  <2> QED BY <1>0, <2>1, <2>3, <2>4, ProperLater
<1> QED BY <1>1, <1>2

\* What every step does: days and sums only grow, what is stored was recorded as it is, a
\* refusal stands, and only a sum finds anything.
LEMMA BudgetMoves ==
    ASSUME Kept, [BNext]_bvars
    PROVE  /\ today' \in Nat /\ today <= today'
           /\ \A q \in Requests : cost[q] <= cost'[q] /\ stamp[q] <= stamp'[q]
           /\ stored' \subseteq stored \cup pending
           /\ stored \cup gone \subseteq stored' \cup gone'
           /\ \A q \in stored' : cost'[q] = cost[q] /\ stamp'[q] = stamp[q]
           /\ \A q \in Requests : pc[q] \in {"refused", "failed"} => pc'[q] = pc[q]
           /\ \A q \in Requests : pc[q] # "idle" => arrival'[q] = arrival[q]
           /\ UNCHANGED <<passed, last>> \/ \E r \in Requests : Sum(r)
           /\ \A q \in Requests :
                 \/ pc'[q] = pc[q] /\ allowed'[q] = allowed[q]
                 \/ pc'[q] # "refused" /\ allowed'[q]
                 \/ Sum(q)
<1>0. /\ BTypeOK /\ HistoryOK /\ OnLedger /\ Refusing /\ today \in Nat
      /\ cost \in [Requests -> Nat] /\ stamp \in [Requests -> Nat]
      /\ \A q \in Requests : stamp[q] <= today
  BY KeptTypes DEF Kept
<1>1. ASSUME NEW r \in Requests, CheckStep(r)
      PROVE  /\ UNCHANGED <<today, recorded, ledger>>
             /\ \A q \in Requests : pc[q] \in {"refused", "failed"} => pc'[q] = pc[q]
             /\ \A q \in Requests : pc[q] # "idle" => arrival'[q] = arrival[q]
             /\ UNCHANGED <<passed, last>> \/ Sum(r)
             /\ \A q \in Requests :
                   \/ pc'[q] = pc[q] /\ allowed'[q] = allowed[q]
                   \/ pc'[q] # "refused" /\ allowed'[q]
                   \/ Sum(q)
  <2>1. /\ UNCHANGED <<today, recorded, ledger>>
        /\ pc[r] \notin {"refused", "failed"}
        /\ pc' = [pc EXCEPT ![r] = pc'[r]] /\ allowed' = [allowed EXCEPT ![r] = allowed'[r]]
        /\ \A q \in Requests \ {r} : arrival'[q] = arrival[q]
        /\ arrival' = arrival \/ pc[r] = "idle"
    BY <1>0, <1>1, CheckEffect
  <2>2. /\ \A q \in Requests \ {r} : pc'[q] = pc[q] /\ allowed'[q] = allowed[q]
        /\ \A q \in Requests : pc[q] \in {"refused", "failed"} => pc'[q] = pc[q]
        /\ \A q \in Requests : pc[q] # "idle" => arrival'[q] = arrival[q]
    BY <1>0, <2>1 DEF BTypeOK
  <2>3. Sum(r) \/ (UNCHANGED <<passed, last>> /\ pc'[r] # "refused" /\ allowed'[r])
    <3>1. CASE Begin(r)
      BY <1>0, <3>1 DEF Begin, Goto, BTypeOK, Refusing, check
    <3>2. CASE ReadBudget(r)
      BY <1>0, <3>2 DEF ReadBudget, Goto, BTypeOK, Refusing, history
    <3>3. CASE ReadCap(r)
      BY <1>0, <3>3 DEF ReadCap, Goto, BTypeOK, Refusing, history
    <3>4. CASE Unchecked(r)
      BY <1>0, <3>4 DEF Unchecked, After, Goto, BTypeOK, history
    <3>5. CASE NotForwarded(r)
      BY <1>0, <3>5 DEF NotForwarded, Goto, BTypeOK, Refusing, check, history
    <3> QED BY <1>1, <3>1, <3>2, <3>3, <3>4, <3>5 DEF CheckStep
  <2> QED BY <2>1, <2>2, <2>3
<1>2. CASE \E r \in Requests : CheckStep(r)
  BY <1>0, <1>1, <1>2 DEF BTypeOK, recorded, ledger
<1>3. CASE \E r \in Requests : Record(r)
  <2>1. PICK r \in Requests : Record(r)
    BY <1>3
  <2>2. /\ UNCHANGED <<today, settings, check, history, stored, gone>>
        /\ r \notin pending \cup stored \cup gone
        /\ pc[r] = "upstream" /\ pc' = [pc EXCEPT ![r] = "recorded"]
        /\ cost' \in [Requests -> Costs \cup {0}]
        /\ stamp' = [stamp EXCEPT ![r] = today]
        /\ \A q \in Requests \ {r} : cost'[q] = cost[q]
        /\ cost[r] = 0 /\ stamp[r] = 0
    BY <1>0, <2>1, RecordEffect
  <2>3. /\ \A q \in Requests \ {r} : cost'[q] = cost[q] /\ stamp'[q] = stamp[q] /\ pc'[q] = pc[q]
        /\ pc'[r] = "recorded" /\ stamp'[r] = today
    BY <1>0, <2>2 DEF BTypeOK
  <2>4. cost'[r] \in Nat
    <3>1. cost'[r] \in Costs \cup {0}
      BY <2>2
    <3>2. Costs \cup {0} \subseteq Nat
      BY MoneyAssumption
    <3> QED BY <3>1, <3>2
  <2>5. allowed'[r] /\ \A q \in Requests : allowed'[q] = allowed[q] /\ arrival'[q] = arrival[q]
    BY <1>0, <2>2 DEF Refusing, check, history
  <2>6. \A q \in Requests : cost[q] <= cost'[q] /\ stamp[q] <= stamp'[q]
    BY <1>0, <2>2, <2>3, <2>4
  <2>7. \A q \in stored' : q \in Requests \ {r}
    BY <1>0, <2>2 DEF BTypeOK
  <2> QED BY <1>0, <2>2, <2>3, <2>5, <2>6, <2>7 DEF history
<1>4. CASE (\E B \in SUBSET Requests : Settle(B)) \/ (\E a \in Agents : DeleteAgent(a))
  BY <1>0, <1>4, LedgerMoves DEF history, recorded, check
<1>5. CASE (\E a \in Agents, b \in Budgets : SetBudget(a, b)) \/ (\E c \in Caps : SetCap(c))
  BY <1>0, <1>5 DEF SetBudget, SetCap, history, recorded, check, ledger
<1>6. CASE Midnight \/ UNCHANGED bvars
  BY <1>0, <1>6 DEF Midnight, bvars, history, recorded, check, ledger
<1> QED BY <1>2, <1>3, <1>4, <1>5, <1>6 DEF BNext, RequestStep, CheckStep

\* What has once refused a request keeps refusing it.
LEMMA EarnedLater ==
    ASSUME Kept, BTypeOK', HistoryOK', [BNext]_bvars, NEW q \in Requests, Earned(q), pc[q] # "idle"
    PROVE  Earned(q)'
<1>1. /\ cost \in [Requests -> Nat] /\ stamp \in [Requests -> Nat] /\ arrival[q] \in Nat
  BY KeptTypes DEF Kept
<1>2. cost' \in [Requests -> Nat] /\ stamp' \in [Requests -> Nat]
  <2>1. Costs \cup {0} \subseteq Nat
    BY MoneyAssumption
  <2>2. \A n \in 0..MaxDay : n \in Nat
    BY CalendarAssumption
  <2> QED BY <2>1, <2>2 DEF BTypeOK
<1>3. /\ \A r \in Requests : cost[r] <= cost'[r] /\ stamp[r] <= stamp'[r]
      /\ arrival'[q] = arrival[q]
  BY BudgetMoves
<1> DEFINE m(w) == WindowStart(w, arrival[q])
<1>5. ASSUME NEW o, NEW w \in Windows
      PROVE  /\ Spent(cost, stamp, Requests, o, m(w)) \in Nat
             /\ Spent(cost', stamp', Requests, o, m(w)) \in Nat
             /\ Spent(cost, stamp, Requests, o, m(w)) <= Spent(cost', stamp', Requests, o, m(w))
  <2>0. PICK d \in Int : d = m(w)
    BY <1>1, Windowed
  <2>1. \A r \in Requests : stamp[r] >= d => cost[r] <= cost'[r] /\ stamp'[r] >= d
    BY <1>1, <1>2, <1>3
  <2>2. /\ Spent(cost, stamp, Requests, o, d) \in Nat
        /\ Spent(cost', stamp', Requests, o, d) \in Nat
        /\ Spent(cost, stamp, Requests, o, d) <= Spent(cost', stamp', Requests, o, d)
    BY <1>1, <1>2, <2>1, SpentGrows
  <2> QED BY <2>0, <2>2
<1>6. EarnedBy(cost, stamp, q)
  BY SpendIs
<1>7. EarnedBy(cost', stamp', q)
  <2>3. ASSUME NEW b \in Budgets, NEW w \in Windows, b[w] > 0,
               Spent(cost, stamp, Requests, AgentOf(q), m(w)) >= b[w]
        PROVE  EarnedBy(cost', stamp', q)
    <3>1. b[w] \in Nat
      BY MoneyAssumption DEF Windows
    <3>2. Spent(cost', stamp', Requests, AgentOf(q), m(w)) >= b[w]
      BY <1>5, <2>3, <3>1
    <3> QED BY <1>3, <2>3, <3>2 DEF EarnedBy
  <2>4. ASSUME NEW k \in Caps, k.limit > 0,
               Spent(cost, stamp, Requests, Everyone, m(k.window)) >= k.limit
        PROVE  EarnedBy(cost', stamp', q)
    <3>1. k.limit \in Nat /\ k.window \in Windows
      BY MoneyAssumption
    <3>2. Spent(cost', stamp', Requests, Everyone, m(k.window)) >= k.limit
      BY <1>5, <2>4, <3>1
    <3> QED BY <1>3, <2>4, <3>2 DEF EarnedBy
  <2> QED BY <1>6, <2>3, <2>4 DEF EarnedBy
<1> QED BY <1>3, <1>7, SpendIs

\* A sum that refuses, or that goes on to, has found enough spent.
LEMMA SumRefuses ==
    ASSUME Kept, NEW r \in Requests, Sum(r), ~ allowed'[r] \/ pc'[r] = "refused"
    PROVE  Earned(r)
<1>0. /\ BTypeOK /\ HistoryOK /\ Asked /\ Refusing
      /\ cost \in [Requests -> Nat] /\ stamp \in [Requests -> Nat] /\ arrival[r] \in Nat
  BY KeptTypes DEF Kept
<1>1. PICK c \in Checks : c = Head(todo[r])
  BY <1>0, SumEffect
<1>2. CASE ~ allowed[r]
  BY <1>0, <1>2 DEF Refusing
<1>3. CASE ~ Within(Spend(stored, c.owner, c.since), c.limit)
  <2>1. Proper(r, c)
    BY <1>0, <1>1, SumEffect, TodoTail DEF Asked
  <2> DEFINE m == WindowStart(c.window, arrival[r])
             x == Spent(cost, stamp, stored, c.owner, c.since)
             y == Spent(cost, stamp, Requests, c.owner, m)
  <2>2. m \in Int /\ c.since \in Int /\ m <= c.since /\ c.limit \in Nat /\ c.window \in Windows
    BY <1>0, <2>1, Windowed DEF Checks, Proper, Windows
  <2>3. stored \in SUBSET Requests
    BY <1>0 DEF BTypeOK
  <2> HIDE DEF m
  <2>4. \A q \in stored : stamp[q] >= c.since => cost[q] <= cost[q] /\ stamp[q] >= m
    BY <1>0, <2>2, <2>3
  <2>5. x \in Nat /\ y \in Nat /\ x <= y
    BY <1>0, <2>2, <2>3, <2>4, SpentGrows
  <2>6. c.limit > 0 /\ ~ (x < c.limit)
    BY <1>3, SpendIs DEF Within
  <2> HIDE DEF x, y
  <2>7. c.limit > 0 /\ y >= c.limit
    BY <2>2, <2>5, <2>6
  <2>8. EarnedBy(cost, stamp, r)
    <3>1. CASE c.owner = AgentOf(r) /\ \E b \in Budgets : b[c.window] = c.limit
      BY <2>2, <2>7, <3>1 DEF EarnedBy, m, y
    <3>2. CASE c.owner = Everyone /\ \E k \in Caps : k.limit = c.limit /\ k.window = c.window
      BY <2>2, <2>7, <3>2 DEF EarnedBy, m, y
    <3> QED BY <2>1, <3>1, <3>2 DEF Proper
  <2> QED BY <2>8, SpendIs
<1> QED BY <1>0, <1>1, <1>2, <1>3, SumEffect

\* Every step keeps refusals earned.
LEMMA RefusingStep ==
    ASSUME Kept, BTypeOK', HistoryOK', [BNext]_bvars
    PROVE  Refusing'
<1>0. BTypeOK /\ Refusing
  BY DEF Kept
<1> SUFFICES ASSUME NEW q \in Requests
             PROVE  /\ ~ allowed'[q] => pc'[q] \in {"sumBudget", "sumCap"}
                    /\ ~ allowed'[q] \/ pc'[q] = "refused" => Earned(q)'
  BY DEF Refusing
<1>1. CASE pc'[q] = pc[q] /\ allowed'[q] = allowed[q]
  <2>1. ~ allowed[q] \/ pc[q] = "refused" => pc[q] # "idle" /\ Earned(q)
    BY <1>0 DEF Refusing
  <2>2. ~ allowed[q] \/ pc[q] = "refused" => Earned(q)'
    BY <2>1, EarnedLater
  <2> QED BY <1>0, <1>1, <2>2 DEF Refusing
<1>2. CASE pc'[q] # "refused" /\ allowed'[q]
  BY <1>2
<1>3. CASE Sum(q)
  <2>1. ~ allowed'[q] => pc'[q] \in {"sumBudget", "sumCap"}
    BY <1>0, <1>3, SumEffect
  <2>2. ~ allowed'[q] \/ pc'[q] = "refused" => Earned(q)
    BY <1>3, SumRefuses
  <2>3. pc[q] # "idle"
    BY <1>3 DEF Sum
  <2> QED BY <2>1, <2>2, <2>3, EarnedLater
<1> QED BY <1>1, <1>2, <1>3, BudgetMoves

\* What is found below a limit is open at that moment, and nobody becomes open later.
LEMMA OpenCoversStep ==
    ASSUME Kept, [BNext]_bvars
    PROVE  OpenCovers'
<1>0. BTypeOK /\ HistoryOK /\ OpenCovers
  BY DEF Kept
<1> SUFFICES ASSUME NEW l \in Owners \X Windows, NEW q \in Requests, l \in passed'[q]
             PROVE  last'[l].limit > 0 /\ (q \in Open(l)' => q \in last'[l].open)
  BY DEF OpenCovers
<1>1. /\ \A r \in Requests : pc[r] \in {"refused", "failed"} => pc'[r] = pc[r]
      /\ stored \cup gone \subseteq stored' \cup gone'
      /\ UNCHANGED <<passed, last>> \/ \E r \in Requests : Sum(r)
  BY BudgetMoves
<1>2. q \in Open(l)' /\ l \in passed[q] => q \in Open(l)
  BY <1>1 DEF Open
<1>3. CASE UNCHANGED <<passed, last>>
  BY <1>0, <1>2, <1>3 DEF OpenCovers
<1>4. ASSUME NEW r \in Requests, Sum(r), ~ UNCHANGED <<passed, last>>
      PROVE  last'[l].limit > 0 /\ (q \in Open(l)' => q \in last'[l].open)
  <2>1. PICK c \in Checks : c = Head(todo[r])
    BY <1>0, <1>4, SumEffect
  <2> DEFINE k == <<c.owner, c.window>>
  <2>2. /\ k \in Owners \X Windows /\ c.limit > 0
        /\ passed' = [passed EXCEPT ![r] = @ \cup {k}]
        /\ last' = [last EXCEPT ![k] = [limit |-> c.limit, open |-> Open(k) \cup {r}]]
    BY <1>0, <1>4, <2>1, SumEffect
  <2> HIDE DEF k
  <2>3. CASE l = k
    <3>1. last'[l].limit = c.limit /\ last'[l].open = Open(l) \cup {r}
      BY <1>0, <2>2, <2>3 DEF HistoryOK
    <3>2. q = r \/ l \in passed[q]
      BY <1>0, <2>2 DEF HistoryOK
    <3> QED BY <1>2, <2>2, <3>1, <3>2
  <2>4. CASE l # k
    <3>1. last'[l] = last[l] /\ l \in passed[q]
      BY <1>0, <2>2, <2>4 DEF HistoryOK
    <3> QED BY <1>0, <1>2, <3>1 DEF OpenCovers
  <2> QED BY <2>3, <2>4
<1> QED BY <1>1, <1>3, <1>4

\* While nobody is found below limit l again, what it has let through and was not open then
\* only leaves: a request that is stored was open until it was.
LEMMA ClosedShrinks ==
    ASSUME Kept, [BNext]_bvars, NEW l \in Owners \X Windows, last'[l] = last[l],
           \A q \in Requests : l \in passed'[q] => l \in passed[q]
    PROVE  Closed(l)' \subseteq Closed(l)
<1>0. BTypeOK /\ OnLedger /\ OpenCovers /\ stored' \subseteq stored \cup pending
  BY BudgetMoves DEF Kept
<1> SUFFICES ASSUME NEW q \in Closed(l)' PROVE q \in Closed(l)
  OBVIOUS
<1>1. /\ q \in stored' /\ l \in passed'[q] /\ q \notin last[l].open
      /\ q \in Requests /\ l \in passed[q]
  <2>1. q \in stored' /\ l \in passed'[q] /\ q \notin last[l].open
    BY DEF Closed
  <2>2. q \in Requests
    BY <1>0, <2>1 DEF BTypeOK
  <2> QED BY <2>1, <2>2
<1>2. CASE q \in stored
  BY <1>1, <1>2 DEF Closed
<1>3. CASE q \in pending
  <2>1. pc[q] = "recorded" /\ q \notin stored \cup gone
    BY <1>0, <1>1, <1>3 DEF OnLedger
  <2>2. q \in Open(l)
    BY <1>1, <2>1 DEF Open
  <2> QED BY <1>0, <1>1, <2>2 DEF OpenCovers
<1> QED BY <1>0, <1>1, <1>2, <1>3

\* Every step keeps what is closed below the limit.
LEMMA BelowStep ==
    ASSUME Kept, BTypeOK', HistoryOK', [BNext]_bvars
    PROVE  Below'
<1>0. /\ BTypeOK /\ HistoryOK /\ Asked /\ Below
      /\ cost \in [Requests -> Nat] /\ stamp \in [Requests -> Nat] /\ today \in Nat
  BY KeptTypes DEF Kept
<1>1. cost' \in [Requests -> Nat] /\ stamp' \in [Requests -> Nat]
  <2>1. Costs \cup {0} \subseteq Nat
    BY MoneyAssumption
  <2>2. \A n \in 0..MaxDay : n \in Nat
    BY CalendarAssumption
  <2> QED BY <2>1, <2>2 DEF BTypeOK
<1>2. /\ today' \in Nat /\ today <= today'
      /\ \A q \in stored' : cost'[q] = cost[q] /\ stamp'[q] = stamp[q]
      /\ UNCHANGED <<passed, last>> \/ \E r \in Requests : Sum(r)
  BY BudgetMoves
<1> SUFFICES ASSUME NEW o \in Owners, NEW w \in Windows, last'[<<o, w>>].limit > 0
             PROVE  Spent(cost', stamp', Closed(<<o, w>>)', o, WindowStart(w, today'))
                       < last'[<<o, w>>].limit
  BY BelowIs
<1> DEFINE l == <<o, w>>
           u == WindowStart(w, today)
           v == WindowStart(w, today')
<1>3. u \in Int /\ v \in Int /\ u <= v
  BY <1>0, <1>2, Windowed
<1>4. l \in Owners \X Windows /\ last[l].limit \in Nat /\ last'[l].limit \in Nat
  BY <1>0 DEF HistoryOK
<1>5. Closed(l)' \subseteq stored' /\ stored' \in SUBSET Requests /\ stored \in SUBSET Requests
      /\ Closed(l)' \in SUBSET Requests /\ Closed(l) \in SUBSET Requests
  BY <1>0 DEF Closed, BTypeOK
<1> HIDE DEF l, u, v
<1>6. ASSUME last'[l] = last[l], \A q \in Requests : l \in passed'[q] => l \in passed[q]
      PROVE  Spent(cost', stamp', Closed(l)', o, v) < last'[l].limit
  <2>1. Closed(l)' \subseteq Closed(l)
    BY <1>4, <1>6, ClosedShrinks
  <2>2. PICK C \in SUBSET Requests : C = Closed(l)'
    BY <1>5
  <2>3. \A q \in C : stamp'[q] >= v => cost'[q] <= cost[q] /\ stamp[q] >= u
    BY <1>0, <1>1, <1>2, <1>3, <1>5, <2>2
  <2>4. /\ Spent(cost', stamp', C, o, v) \in Nat /\ Spent(cost, stamp, Closed(l), o, u) \in Nat
        /\ Spent(cost', stamp', C, o, v) <= Spent(cost, stamp, Closed(l), o, u)
    BY <1>0, <1>1, <1>3, <1>5, <2>1, <2>2, <2>3, SpentGrows
  <2>5. Spent(cost, stamp, Closed(l), o, u) < last[l].limit
    BY <1>0, <1>6, BelowIs DEF l, u
  <2> QED BY <1>4, <1>6, <2>2, <2>4, <2>5
<1>7. CASE UNCHANGED <<passed, last>>
  BY <1>6, <1>7 DEF l, v
<1>8. ASSUME NEW r \in Requests, Sum(r), ~ UNCHANGED <<passed, last>>
      PROVE  Spent(cost', stamp', Closed(l)', o, v) < last'[l].limit
  <2>1. PICK c \in Checks : c = Head(todo[r])
    BY <1>0, <1>8, SumEffect
  <2> DEFINE k == <<c.owner, c.window>>
  <2>2. /\ Within(Spend(stored, c.owner, c.since), c.limit) /\ c.limit > 0
        /\ passed' = [passed EXCEPT ![r] = @ \cup {k}]
        /\ last' = [last EXCEPT ![k] = [limit |-> c.limit, open |-> Open(k) \cup {r}]]
    BY <1>0, <1>8, <2>1, SumEffect
  <2>3. CASE l = k
    <3>1. c.owner = o /\ c.window = w /\ c.since \in Int
      BY <2>3 DEF l, Checks
    <3>2. last'[l].limit = c.limit
      BY <1>0, <1>4, <2>2, <2>3 DEF HistoryOK
    <3>3. Proper(r, c) /\ UNCHANGED <<today, recorded, ledger>>
      <4>1. Proper(r, c)
        <5>1. todo[r] \in Seq(Checks) /\ todo[r] # <<>>
          BY <1>0, <1>8, SumEffect
        <5>2. 1 \in DOMAIN todo[r] /\ c = todo[r][1]
          BY <2>1, <5>1, TodoTail
        <5> QED BY <1>0, <5>2 DEF Asked
      <4>2. UNCHANGED <<today, recorded, ledger>>
        BY <1>8 DEF Sum
      <4> QED BY <4>1, <4>2
    <3>4. c.since <= u /\ u = v
      BY <3>1, <3>3 DEF Proper, u, v
    <3>5. PICK C \in SUBSET Requests : C = Closed(l)'
      BY <1>5
    <3>6. C \subseteq stored /\ cost' = cost /\ stamp' = stamp
      BY <1>5, <3>3, <3>5 DEF recorded, ledger
    <3>7. \A q \in C : stamp[q] >= v => cost[q] <= cost[q] /\ stamp[q] >= c.since
      BY <1>0, <1>3, <3>1, <3>4
    <3>8. /\ Spent(cost, stamp, C, o, v) \in Nat /\ Spent(cost, stamp, stored, o, c.since) \in Nat
          /\ Spent(cost, stamp, C, o, v) <= Spent(cost, stamp, stored, o, c.since)
      BY <1>0, <1>3, <1>5, <3>1, <3>4, <3>6, <3>7, SpentGrows
    <3>9. Spent(cost, stamp, stored, o, c.since) < c.limit
      BY <2>2, <3>1, SpendIs DEF Within
    <3> QED BY <1>4, <3>2, <3>5, <3>6, <3>8, <3>9
  <2>4. CASE l # k
    <3>1. last'[l] = last[l]
      BY <1>0, <1>4, <2>2, <2>4 DEF HistoryOK
    <3>2. \A q \in Requests : l \in passed'[q] => l \in passed[q]
      BY <1>0, <2>2, <2>4 DEF HistoryOK
    <3> QED BY <1>6, <3>1, <3>2
  <2> QED BY <2>3, <2>4
<1> QED BY <1>2, <1>7, <1>8 DEF l, v

\* The invariant.
THEOREM Enforcement == BSpec => []Kept
<1>1. ASSUME Kept, [BNext]_bvars PROVE Kept'
  <2>1. BTypeOK' /\ HistoryOK' /\ OnLedger'
    BY <1>1, BudgetTypes, HistoryStep
  <2>2. Asked' /\ Refusing' /\ OpenCovers' /\ Below'
    BY <1>1, <2>1, AskedStep, RefusingStep, OpenCoversStep, BelowStep
  <2> QED BY <2>1, <2>2 DEF Kept
<1> QED BY BudgetsInit, <1>1, PTL DEF BSpec

\* Every variable of the budget checks has its type.
THEOREM EnforcementTypes == BSpec => []BTypeOK
<1>1. Kept => BTypeOK
  BY DEF Kept
<1> QED BY <1>1, Enforcement, PTL

\* However requests race through the checks and however late their costs are settled, what
\* is stored stays below the limit last respected plus what was open when it was.
THEOREM OverspendBoundHolds == BSpec => []OverspendBound
<1>1. ASSUME Kept PROVE OverspendBound
  <2>0. /\ BTypeOK /\ HistoryOK /\ OpenCovers /\ Below
        /\ cost \in [Requests -> Nat] /\ stamp \in [Requests -> Nat] /\ today \in Nat
    BY <1>1, KeptTypes DEF Kept
  <2> SUFFICES ASSUME NEW o \in Owners, NEW w \in Windows, NEW S, NEW l, l = <<o, w>>,
                      S = {r \in stored : l \in passed[r]}, S # {}
               PROVE  Spend(S, o, WindowStart(w, today)) < last[l].limit + CostOf(last[l].open)
    BY DEF OverspendBound
  <2>1. l \in Owners \X Windows /\ S \in SUBSET Requests /\ Closed(l) \in SUBSET Requests
    BY <2>0 DEF BTypeOK, Closed
  <2>2. last[l].limit \in Nat /\ last[l].open \in SUBSET Requests
    BY <2>0, <2>1 DEF HistoryOK
  <2>3. last[l].limit > 0
    BY <2>0, <2>1 DEF OpenCovers
  <2> DEFINE v == WindowStart(w, today)
             A == Part(stamp, S, o, v)
             B == Part(stamp, Closed(l), o, v)
  <2>4. /\ A \in SUBSET Requests /\ B \in SUBSET Requests
        /\ A \subseteq B \cup last[l].open
    BY <2>1 DEF Part, Closed
  <2> HIDE DEF A, B
  <2>5. Total(cost, A) <= Total(cost, B) + Total(cost, last[l].open)
    BY <2>0, <2>2, <2>4, TotalSplits
  <2>6. /\ Total(cost, A) \in Nat /\ Total(cost, B) \in Nat
        /\ Total(cost, last[l].open) \in Nat
    BY <2>0, <2>2, <2>4, TotalNat
  <2>7. Total(cost, B) < last[l].limit
    BY <2>0, <2>3, BelowIs DEF B, Spent
  <2>8. Spend(S, o, v) = Total(cost, A) /\ CostOf(last[l].open) = Total(cost, last[l].open)
    BY SpendIs DEF A, Spent, CostOf, Total
  <2> QED BY <2>2, <2>5, <2>6, <2>7, <2>8
<1> QED BY <1>1, Enforcement, PTL

\* A request is refused only when what was recorded since the day, or the month, it came in
\* had begun has reached a limit that its agent or the tool could have for that window.
THEOREM RefusalsEarnedHolds == BSpec => []RefusalsEarned
<1>1. Kept => RefusalsEarned
  BY DEF Kept, Refusing, Earned, RefusalsEarned
<1> QED BY <1>1, Enforcement, PTL
============================================================================
