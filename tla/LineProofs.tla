----------------------------- MODULE LineProofs -----------------------------
(***************************************************************************)
(* Proofs about the stages of a run: the line from setup to pull request,  *)
(* the build stage and its fork waves, the accounting of its model calls, and *)
(* the tasks of the mapped job that carries the run and tells its Cell.  The *)
(* components share no state; each has its section.                        *)
(***************************************************************************)
EXTENDS BuildStage, ForkWave, CallLedger, Delivery, MappedJob, SumTheorems

------------------------------------------------------------------------------
\* The line from setup to pull request.

\* What the records of a run are made of.
Decisions == {"none", "approve", "reject"}
Suites    == {"none", "green", "red", "broken", "lossy", "touch"}
Places    == {"free", "admitting", "ready", "measure", "log", "raise", "ask", "fix", "fence", "scope", "test", "reset",
              "refence", "retest", "conclude", "chain", "publish"}
Answers   == [decision : Decisions, doc : Nat, inputs : Nat, late : BOOLEAN]
Approvals == [decision : Decisions, doc : Nat, inputs : Nat, dated : BOOLEAN, by : Answers]
CodesOr   == Codes \cup {-1}
OpFields  == {"task", "record", "at", "round", "before", "blocker", "found", "saw", "banner"}

\* The shape of the operation that holds the run.
OpShape ==
  /\ DOMAIN op = OpFields
  /\ op.task \in {"none", "setup"} \cup LineSet /\ op.record \in BOOLEAN /\ op.at \in Places
  /\ op.before \in Codes /\ op.saw \in CodesOr /\ op.banner \in {"none", "plain", "BLOCKED", "REJECTED"}

\* The shape of what the run keeps on disk.
RunShape ==
  /\ world \in Nat \ {0} /\ pin \in Nat /\ stamp \in {"none", "own", "old"}
  /\ log \in [LineSet -> {"none", "ok", "blocked", "failed"}]
  /\ doc \in [DocStages \cap LineSet -> Nat]
  /\ base \in {"none", "measured", "unmeasured"} /\ junit \in CodesOr

\* The types of the answers and of the recorded approvals.
GateShape == answer \in [GateStages -> Answers] /\ approvals \in [GateStages -> Approvals]

\* The types of the candidate, its suites, the verdict of the review and the publication.
CodeShape ==
  /\ DOMAIN head = {"code", "chain"} /\ head.code \in Codes
  /\ suite \in [Codes -> Suites]
  /\ verdict \in [blocked : BOOLEAN, code : CodesOr]
  /\ DOMAIN pub = {"banner", "code"} /\ pub.code \in CodesOr

\* The places of a review and of a delivery.
ReviewPlaces  == {"ask", "fix", "fence", "scope", "test", "reset", "refence", "retest", "conclude"}
DeliverPlaces == {"chain", "publish"}

\* Codes are numbers, and 0 is the code of the base.
LEMMA CodesAreNats == Codes \subseteq Nat /\ 0 \in Codes /\ MaxCodes \in Nat
  BY DeliveryAssumption DEF Codes

\* A gated stage is a stage of the line that writes a document.
LEMMA GatesHaveDocs == GateStages \subseteq DocStages \cap LineSet
  BY LineAssumption

\* Every step keeps the fields of the task in their types.
LEMMA OpShapeStep ==
  ASSUME OpShape, CodeShape,
         [DeliveryNext]_runVars
  PROVE  OpShape'
<1>1. ASSUME NEW t \in {"setup"} \cup LineSet, NEW r \in BOOLEAN, AdmitFirst(t, r) PROVE OpShape'
  BY <1>1, CodesAreNats DEF AdmitFirst, OpShape, OpFields, Places, At, Ends, Free, CodesOr
<1>2. ASSUME NEW t \in {"setup"} \cup LineSet, NEW r \in BOOLEAN, AdmitAgain(t, r) PROVE OpShape'
  BY <1>2, CodesAreNats DEF AdmitAgain, OpShape, OpFields, Places, At, Ends, Free, CodesOr, CodeShape
<1>3. CASE AdmitStamp
  BY <1>3, CodesAreNats DEF AdmitStamp, OpShape, OpFields, Places, At, Ends, Free, CodesOr, CodeShape
<1>4. CASE EditInputs
  BY <1>4, CodesAreNats DEF EditInputs, OpShape, OpFields, Places, At, Ends, Free, CodesOr, CodeShape
<1>5. CASE Reaccept
  BY <1>5, CodesAreNats DEF Reaccept, OpShape, OpFields, Places, At, Ends, Free, CodesOr, CodeShape
<1>6. CASE KillDelivery
  BY <1>6, CodesAreNats DEF KillDelivery, OpShape, OpFields, Places, At, Ends, Free, CodesOr, CodeShape
<1>7. CASE SetupBase
  BY <1>7, CodesAreNats DEF SetupBase, OpShape, OpFields, Places, At, Ends, Free, CodesOr, CodeShape
<1>8. CASE MeasureBase
  <2>1. op' = Free BY <1>8 DEF MeasureBase, Ends
  <2>. QED BY <2>1, CodesAreNats DEF OpShape, OpFields, Places, At, Ends, Free, CodesOr
<1>9. CASE Skip
  BY <1>9, CodesAreNats DEF Skip, OpShape, OpFields, Places, At, Ends, Free, CodesOr, CodeShape
<1>10. CASE WriteDoc
  BY <1>10, CodesAreNats DEF WriteDoc, OpShape, OpFields, Places, At, Ends, Free, CodesOr, CodeShape
<1>11. CASE LogStage
  BY <1>11, CodesAreNats DEF LogStage, OpShape, OpFields, Places, At, Ends, Free, CodesOr, CodeShape
<1>12. CASE StageRaises
  BY <1>12, CodesAreNats DEF StageRaises, OpShape, OpFields, Places, At, Ends, Free, CodesOr, CodeShape
<1>13. ASSUME NEW g \in GateStages, RecordApproval(g) PROVE OpShape'
  BY <1>13, CodesAreNats DEF RecordApproval, OpShape, OpFields, Places, At, Ends, Free, CodesOr, CodeShape
<1>14. ASSUME NEW g \in GateStages, NEW d \in {"approve", "reject"}, Respond(g, d) PROVE OpShape'
  BY <1>14, CodesAreNats DEF Respond, OpShape, OpFields, Places, At, Ends, Free, CodesOr, CodeShape
<1>15. ASSUME NEW s \in {"green", "lossy", "touch"}, Build(s) PROVE OpShape'
  BY <1>15, CodesAreNats DEF Build, OpShape, OpFields, Places, At, Ends, Free, CodesOr, CodeShape
<1>16. CASE ReviewBegin
  BY <1>16, CodesAreNats DEF ReviewBegin, OpShape, OpFields, Places, At, Ends, Free, CodesOr, CodeShape
<1>17. CASE ReviewCallRaises
  BY <1>17, CodesAreNats DEF ReviewCallRaises, OpShape, OpFields, Places, At, Ends, Free, CodesOr, CodeShape
<1>18. ASSUME NEW f \in {"none", "fixable", "unfixable"}, ReviewRound(f) PROVE OpShape'
  BY <1>18, CodesAreNats DEF ReviewRound, OpShape, OpFields, Places, At, Ends, Free, CodesOr, CodeShape
<1>19. ASSUME NEW s \in {"green", "red", "broken", "lossy"}, FixCommit(s) PROVE OpShape'
  BY <1>19, CodesAreNats DEF FixCommit, OpShape, OpFields, Places, At, Ends, Free, CodesOr, CodeShape
<1>20. CASE FixFence
  BY <1>20, CodesAreNats DEF FixFence, OpShape, OpFields, Places, At, Ends, Free, CodesOr, CodeShape
<1>21. CASE FixScope
  BY <1>21, CodesAreNats DEF FixScope, OpShape, OpFields, Places, At, Ends, Free, CodesOr, CodeShape
<1>22. CASE FixTest
  BY <1>22, CodesAreNats DEF FixTest, OpShape, OpFields, Places, At, Ends, Free, CodesOr, CodeShape
<1>23. CASE FixReset
  BY <1>23, CodesAreNats DEF FixReset, OpShape, OpFields, Places, At, Ends, Free, CodesOr, CodeShape
<1>24. CASE FixRefence
  BY <1>24, CodesAreNats DEF FixRefence, OpShape, OpFields, Places, At, Ends, Free, CodesOr, CodeShape
<1>25. CASE FixRetest
  BY <1>25, CodesAreNats DEF FixRetest, OpShape, OpFields, Places, At, Ends, Free, CodesOr, CodeShape
<1>26. CASE Conclude
  BY <1>26, CodesAreNats DEF Conclude, OpShape, OpFields, Places, At, Ends, Free, CodesOr, CodeShape
<1>27. CASE DeliverCheck
  BY <1>27 DEF DeliverCheck, OpShape, OpFields, Places, At, Ends, Free, CodesOr
<1>28. CASE ChainFence
  BY <1>28, CodesAreNats DEF ChainFence, OpShape, OpFields, Places, At, Ends, Free, CodesOr, CodeShape
<1>29. CASE Publish
  BY <1>29, CodesAreNats DEF Publish, OpShape, OpFields, Places, At, Ends, Free, CodesOr, CodeShape
<1>30. CASE PublishFails
  BY <1>30, CodesAreNats DEF PublishFails, OpShape, OpFields, Places, At, Ends, Free, CodesOr, CodeShape
<1>31. CASE UNCHANGED runVars
  BY <1>31 DEF runVars, OpShape, OpFields, Places, At, Ends, Free, CodesOr, CodeShape
<1>. QED BY <1>1, <1>2, <1>3, <1>4, <1>5, <1>6, <1>7, <1>8, <1>9, <1>10, <1>11, <1>12, <1>13, <1>14, <1>15, <1>16, <1>17, <1>18, <1>19, <1>20, <1>21, <1>22, <1>23, <1>24, <1>25, <1>26, <1>27, <1>28, <1>29, <1>30, <1>31 DEF DeliveryNext

\* Every step keeps the records of the run in their types.
LEMMA RunShapeStep ==
  ASSUME OpShape, CodeShape, RunShape,
         [DeliveryNext]_runVars
  PROVE  RunShape'
<1>1. ASSUME NEW t \in {"setup"} \cup LineSet, NEW r \in BOOLEAN, AdmitFirst(t, r) PROVE RunShape'
  BY <1>1, CodesAreNats DEF AdmitFirst, RunShape, CodeShape, OpShape, At, CodesOr
<1>2. ASSUME NEW t \in {"setup"} \cup LineSet, NEW r \in BOOLEAN, AdmitAgain(t, r) PROVE RunShape'
  BY <1>2, CodesAreNats DEF AdmitAgain, RunShape, CodeShape, OpShape, At, CodesOr
<1>3. CASE AdmitStamp
  BY <1>3, CodesAreNats DEF AdmitStamp, RunShape, CodeShape, OpShape, At, CodesOr
<1>4. CASE EditInputs
  BY <1>4, CodesAreNats DEF EditInputs, RunShape, CodeShape, OpShape, At, CodesOr
<1>5. CASE Reaccept
  BY <1>5 DEF Reaccept, RunShape, NoInputs, CodesOr
<1>6. CASE KillDelivery
  BY <1>6, CodesAreNats DEF KillDelivery, RunShape, CodeShape, OpShape, At, CodesOr
<1>7. CASE SetupBase
  BY <1>7, CodesAreNats DEF SetupBase, RunShape, CodeShape, OpShape, At, CodesOr
<1>8. CASE MeasureBase
  BY <1>8, CodesAreNats DEF MeasureBase, RunShape, CodeShape, OpShape, At, CodesOr
<1>9. CASE Skip
  BY <1>9, CodesAreNats DEF Skip, RunShape, CodeShape, OpShape, At, CodesOr
<1>10. CASE WriteDoc
  <2>1. op.task \in DocStages \cap LineSet BY <1>10 DEF WriteDoc, OpShape, DocStages
  <2>. QED BY <1>10, <2>1 DEF WriteDoc, RunShape
<1>11. CASE LogStage
  BY <1>11, CodesAreNats DEF LogStage, RunShape, CodeShape, OpShape, At, CodesOr
<1>12. CASE StageRaises
  BY <1>12, CodesAreNats DEF StageRaises, RunShape, CodeShape, OpShape, At, CodesOr
<1>13. ASSUME NEW g \in GateStages, RecordApproval(g) PROVE RunShape'
  BY <1>13, CodesAreNats DEF RecordApproval, RunShape, CodeShape, OpShape, At, CodesOr
<1>14. ASSUME NEW g \in GateStages, NEW d \in {"approve", "reject"}, Respond(g, d) PROVE RunShape'
  BY <1>14, CodesAreNats DEF Respond, RunShape, CodeShape, OpShape, At, CodesOr
<1>15. ASSUME NEW s \in {"green", "lossy", "touch"}, Build(s) PROVE RunShape'
  BY <1>15, CodesAreNats DEF Build, RunShape, CodeShape, OpShape, At, CodesOr
<1>16. CASE ReviewBegin
  BY <1>16, CodesAreNats DEF ReviewBegin, RunShape, CodeShape, OpShape, At, CodesOr
<1>17. CASE ReviewCallRaises
  BY <1>17, CodesAreNats DEF ReviewCallRaises, RunShape, CodeShape, OpShape, At, CodesOr
<1>18. ASSUME NEW f \in {"none", "fixable", "unfixable"}, ReviewRound(f) PROVE RunShape'
  BY <1>18, CodesAreNats DEF ReviewRound, RunShape, CodeShape, OpShape, At, CodesOr
<1>19. ASSUME NEW s \in {"green", "red", "broken", "lossy"}, FixCommit(s) PROVE RunShape'
  BY <1>19, CodesAreNats DEF FixCommit, RunShape, CodeShape, OpShape, At, CodesOr
<1>20. CASE FixFence
  BY <1>20, CodesAreNats DEF FixFence, RunShape, CodeShape, OpShape, At, CodesOr
<1>21. CASE FixScope
  BY <1>21, CodesAreNats DEF FixScope, RunShape, CodeShape, OpShape, At, CodesOr
<1>22. CASE FixTest
  BY <1>22, CodesAreNats DEF FixTest, RunShape, CodeShape, OpShape, At, CodesOr
<1>23. CASE FixReset
  BY <1>23, CodesAreNats DEF FixReset, RunShape, CodeShape, OpShape, At, CodesOr
<1>24. CASE FixRefence
  BY <1>24, CodesAreNats DEF FixRefence, RunShape, CodeShape, OpShape, At, CodesOr
<1>25. CASE FixRetest
  BY <1>25, CodesAreNats DEF FixRetest, RunShape, CodeShape, OpShape, At, CodesOr
<1>26. CASE Conclude
  BY <1>26, CodesAreNats DEF Conclude, RunShape, CodeShape, OpShape, At, CodesOr
<1>27. CASE DeliverCheck
  BY <1>27, CodesAreNats DEF DeliverCheck, RunShape, CodeShape, OpShape, At, CodesOr
<1>28. CASE ChainFence
  BY <1>28, CodesAreNats DEF ChainFence, RunShape, CodeShape, OpShape, At, CodesOr
<1>29. CASE Publish
  BY <1>29, CodesAreNats DEF Publish, RunShape, CodeShape, OpShape, At, CodesOr
<1>30. CASE PublishFails
  BY <1>30, CodesAreNats DEF PublishFails, RunShape, CodeShape, OpShape, At, CodesOr
<1>31. CASE UNCHANGED runVars
  BY <1>31 DEF runVars, RunShape, CodeShape, OpShape, At, CodesOr
<1>. QED BY <1>1, <1>2, <1>3, <1>4, <1>5, <1>6, <1>7, <1>8, <1>9, <1>10, <1>11, <1>12, <1>13, <1>14, <1>15, <1>16, <1>17, <1>18, <1>19, <1>20, <1>21, <1>22, <1>23, <1>24, <1>25, <1>26, <1>27, <1>28, <1>29, <1>30, <1>31 DEF DeliveryNext

\* Every step keeps the answers and the approvals in their types.
LEMMA GateShapeStep ==
  ASSUME OpShape, RunShape, GateShape,
         [DeliveryNext]_runVars
  PROVE  GateShape'
<1>1. ASSUME NEW t \in {"setup"} \cup LineSet, NEW r \in BOOLEAN, AdmitFirst(t, r) PROVE GateShape'
  BY <1>1 DEF AdmitFirst, GateShape
<1>2. ASSUME NEW t \in {"setup"} \cup LineSet, NEW r \in BOOLEAN, AdmitAgain(t, r) PROVE GateShape'
  BY <1>2 DEF AdmitAgain, GateShape
<1>3. CASE AdmitStamp
  BY <1>3 DEF AdmitStamp, GateShape, Answers
<1>4. CASE EditInputs
  BY <1>4 DEF EditInputs, GateShape
<1>5. CASE Reaccept
  BY <1>5 DEF Reaccept, GateShape
<1>6. CASE KillDelivery
  BY <1>6 DEF KillDelivery, GateShape
<1>7. CASE SetupBase
  BY <1>7 DEF SetupBase, GateShape
<1>8. CASE MeasureBase
  BY <1>8 DEF MeasureBase, GateShape
<1>9. CASE Skip
  BY <1>9 DEF Skip, GateShape
<1>10. CASE WriteDoc
  BY <1>10 DEF WriteDoc, GateShape
<1>11. CASE LogStage
  BY <1>11 DEF LogStage, GateShape
<1>12. CASE StageRaises
  BY <1>12 DEF StageRaises, GateShape
<1>13. ASSUME NEW g \in GateStages, RecordApproval(g) PROVE GateShape'
  BY <1>13, GatesHaveDocs DEF RecordApproval, GateShape, RunShape, Answers, Approvals, Decisions
<1>14. ASSUME NEW g \in GateStages, NEW d \in {"approve", "reject"}, Respond(g, d) PROVE GateShape'
  BY <1>14, GatesHaveDocs DEF Respond, NewAnswer, GateShape, RunShape, Answers, Decisions
<1>15. ASSUME NEW s \in {"green", "lossy", "touch"}, Build(s) PROVE GateShape'
  BY <1>15 DEF Build, GateShape
<1>16. CASE ReviewBegin
  BY <1>16 DEF ReviewBegin, GateShape
<1>17. CASE ReviewCallRaises
  BY <1>17 DEF ReviewCallRaises, GateShape
<1>18. ASSUME NEW f \in {"none", "fixable", "unfixable"}, ReviewRound(f) PROVE GateShape'
  BY <1>18 DEF ReviewRound, GateShape
<1>19. ASSUME NEW s \in {"green", "red", "broken", "lossy"}, FixCommit(s) PROVE GateShape'
  BY <1>19 DEF FixCommit, GateShape
<1>20. CASE FixFence
  BY <1>20 DEF FixFence, GateShape
<1>21. CASE FixScope
  BY <1>21 DEF FixScope, GateShape
<1>22. CASE FixTest
  BY <1>22 DEF FixTest, GateShape
<1>23. CASE FixReset
  BY <1>23 DEF FixReset, GateShape
<1>24. CASE FixRefence
  BY <1>24 DEF FixRefence, GateShape
<1>25. CASE FixRetest
  BY <1>25 DEF FixRetest, GateShape
<1>26. CASE Conclude
  BY <1>26 DEF Conclude, GateShape
<1>27. CASE DeliverCheck
  BY <1>27 DEF DeliverCheck, GateShape
<1>28. CASE ChainFence
  BY <1>28 DEF ChainFence, GateShape
<1>29. CASE Publish
  BY <1>29 DEF Publish, GateShape
<1>30. CASE PublishFails
  BY <1>30 DEF PublishFails, GateShape
<1>31. CASE UNCHANGED runVars
  BY <1>31 DEF runVars, GateShape
<1>. QED BY <1>1, <1>2, <1>3, <1>4, <1>5, <1>6, <1>7, <1>8, <1>9, <1>10, <1>11, <1>12, <1>13, <1>14, <1>15, <1>16, <1>17, <1>18, <1>19, <1>20, <1>21, <1>22, <1>23, <1>24, <1>25, <1>26, <1>27, <1>28, <1>29, <1>30, <1>31 DEF DeliveryNext

\* Every step keeps the candidate and its evidence in their types.
LEMMA CodeShapeStep ==
  ASSUME OpShape, CodeShape,
         [DeliveryNext]_runVars
  PROVE  CodeShape'
<1>1. ASSUME NEW t \in {"setup"} \cup LineSet, NEW r \in BOOLEAN, AdmitFirst(t, r) PROVE CodeShape'
  BY <1>1, CodesAreNats DEF AdmitFirst, CodeShape, OpShape, OpFields, At, CodesOr, Suites
<1>2. ASSUME NEW t \in {"setup"} \cup LineSet, NEW r \in BOOLEAN, AdmitAgain(t, r) PROVE CodeShape'
  BY <1>2, CodesAreNats DEF AdmitAgain, CodeShape, OpShape, OpFields, At, CodesOr, Suites
<1>3. CASE AdmitStamp
  BY <1>3, CodesAreNats DEF AdmitStamp, CodeShape, OpShape, OpFields, At, CodesOr, Suites
<1>4. CASE EditInputs
  BY <1>4, CodesAreNats DEF EditInputs, CodeShape, OpShape, OpFields, At, CodesOr, Suites
<1>5. CASE Reaccept
  BY <1>5, CodesAreNats DEF Reaccept, CodeShape, OpShape, OpFields, At, CodesOr, Suites
<1>6. CASE KillDelivery
  BY <1>6, CodesAreNats DEF KillDelivery, CodeShape, OpShape, OpFields, At, CodesOr, Suites
<1>7. CASE SetupBase
  BY <1>7, CodesAreNats DEF SetupBase, CodeShape, OpShape, OpFields, At, CodesOr, Suites
<1>8. CASE MeasureBase
  BY <1>8, CodesAreNats DEF MeasureBase, CodeShape, OpShape, OpFields, At, CodesOr, Suites
<1>9. CASE Skip
  BY <1>9, CodesAreNats DEF Skip, CodeShape, OpShape, OpFields, At, CodesOr, Suites
<1>10. CASE WriteDoc
  BY <1>10, CodesAreNats DEF WriteDoc, CodeShape, OpShape, OpFields, At, CodesOr, Suites
<1>11. CASE LogStage
  BY <1>11, CodesAreNats DEF LogStage, CodeShape, OpShape, OpFields, At, CodesOr, Suites
<1>12. CASE StageRaises
  BY <1>12, CodesAreNats DEF StageRaises, CodeShape, OpShape, OpFields, At, CodesOr, Suites
<1>13. ASSUME NEW g \in GateStages, RecordApproval(g) PROVE CodeShape'
  BY <1>13, CodesAreNats DEF RecordApproval, CodeShape, OpShape, OpFields, At, CodesOr, Suites
<1>14. ASSUME NEW g \in GateStages, NEW d \in {"approve", "reject"}, Respond(g, d) PROVE CodeShape'
  BY <1>14, CodesAreNats DEF Respond, CodeShape, OpShape, OpFields, At, CodesOr, Suites
<1>15. ASSUME NEW s \in {"green", "lossy", "touch"}, Build(s) PROVE CodeShape'
  BY <1>15, CodesAreNats DEF Build, CodeShape, OpShape, OpFields, At, CodesOr, Suites
<1>16. CASE ReviewBegin
  BY <1>16, CodesAreNats DEF ReviewBegin, CodeShape, OpShape, OpFields, At, CodesOr, Suites
<1>17. CASE ReviewCallRaises
  BY <1>17, CodesAreNats DEF ReviewCallRaises, CodeShape, OpShape, OpFields, At, CodesOr, Suites
<1>18. ASSUME NEW f \in {"none", "fixable", "unfixable"}, ReviewRound(f) PROVE CodeShape'
  BY <1>18, CodesAreNats DEF ReviewRound, CodeShape, OpShape, OpFields, At, CodesOr, Suites
<1>19. ASSUME NEW s \in {"green", "red", "broken", "lossy"}, FixCommit(s) PROVE CodeShape'
  BY <1>19, CodesAreNats DEF FixCommit, CodeShape, OpShape, OpFields, At, CodesOr, Suites
<1>20. CASE FixFence
  BY <1>20, CodesAreNats DEF FixFence, CodeShape, OpShape, OpFields, At, CodesOr, Suites
<1>21. CASE FixScope
  BY <1>21, CodesAreNats DEF FixScope, CodeShape, OpShape, OpFields, At, CodesOr, Suites
<1>22. CASE FixTest
  BY <1>22, CodesAreNats DEF FixTest, CodeShape, OpShape, OpFields, At, CodesOr, Suites
<1>23. CASE FixReset
  BY <1>23, CodesAreNats DEF FixReset, CodeShape, OpShape, OpFields, At, CodesOr, Suites
<1>24. CASE FixRefence
  BY <1>24, CodesAreNats DEF FixRefence, CodeShape, OpShape, OpFields, At, CodesOr, Suites
<1>25. CASE FixRetest
  BY <1>25, CodesAreNats DEF FixRetest, CodeShape, OpShape, OpFields, At, CodesOr, Suites
<1>26. CASE Conclude
  BY <1>26, CodesAreNats DEF Conclude, CodeShape, OpShape, OpFields, At, CodesOr, Suites
<1>27. CASE DeliverCheck
  BY <1>27, CodesAreNats DEF DeliverCheck, CodeShape, OpShape, OpFields, At, CodesOr, Suites
<1>28. CASE ChainFence
  BY <1>28, CodesAreNats DEF ChainFence, CodeShape, OpShape, OpFields, At, CodesOr, Suites
<1>29. CASE Publish
  BY <1>29, CodesAreNats DEF Publish, CodeShape, OpShape, OpFields, At, CodesOr, Suites
<1>30. CASE PublishFails
  BY <1>30, CodesAreNats DEF PublishFails, CodeShape, OpShape, OpFields, At, CodesOr, Suites
<1>31. CASE UNCHANGED runVars
  BY <1>31 DEF runVars, CodeShape, OpShape, OpFields, At, CodesOr, Suites
<1>. QED BY <1>1, <1>2, <1>3, <1>4, <1>5, <1>6, <1>7, <1>8, <1>9, <1>10, <1>11, <1>12, <1>13, <1>14, <1>15, <1>16, <1>17, <1>18, <1>19, <1>20, <1>21, <1>22, <1>23, <1>24, <1>25, <1>26, <1>27, <1>28, <1>29, <1>30, <1>31 DEF DeliveryNext

\* A stage of the line has a place on it.
LEMMA PlaceIs ==
  ASSUME NEW s \in LineSet
  PROVE  Place(s) \in DOMAIN Line /\ Line[Place(s)] = s
  BY DEF Place, LineSet

\* A review whose upstream is done comes after a completed build.
LEMMA BuildPrecedesReview ==
  ASSUME Upstream("review")
  PROVE  StageCompleted("build_and_test")
<1>1. "build_and_test" \in LineSet /\ "review" \in LineSet /\ Place("build_and_test") < Place("review")
  BY LineAssumption
<1>2. Place("build_and_test") \in 1 .. Len(Line) /\ Place("review") \in 1 .. Len(Line) /\ Len(Line) \in Nat
  BY <1>1, PlaceIs, LineAssumption
<1>3. Place("build_and_test") \in 1 .. Place("review") - 1
  BY <1>1, <1>2
<1>4. StageCompleted(Line[Place("build_and_test")])
  BY <1>3 DEF Upstream
<1>. QED BY <1>1, <1>4, PlaceIs

\* What the task does where it is: a record of a gate, a review, a delivery or another stage, and never a stage
\* that is completed already.
OpRole ==
  /\ op.at # "free" => pin # NoInputs
  /\ op.record => op.task \in GateStages /\ op.at \in {"admitting", "ready"} /\ answer[op.task].decision # "none"
  /\ op.at \in ReviewPlaces => op.task = "review"
  /\ op.at \in DeliverPlaces => op.task = "deliver"
  /\ op.at = "log" => op.task \in LineSet
  /\ op.at \notin {"free", "admitting", "ready"} /\ op.task \in LineSet \ {"deliver"} => ~StageCompleted(op.task)
  /\ op.task = "review" => StageCompleted("build_and_test")

\* The stages the proofs name are on the line, and gates are on stages with a document.
LEMMA StageNames ==
  /\ {"build_and_test", "review", "deliver"} \subseteq LineSet /\ LineSet \subseteq DocStages \cup {"build_and_test", "review", "deliver"}
  /\ GateStages \subseteq DocStages \cap LineSet
  BY LineAssumption

\* A completed stage other than deliver stays completed.
LEMMA CompletedStays ==
  ASSUME OpShape, RunShape, OpRole, [DeliveryNext]_runVars, NEW s \in LineSet \ {"deliver"}, StageCompleted(s)
  PROVE  StageCompleted(s)'
<1>1. CASE LogStage
  BY <1>1 DEF LogStage, StageCompleted, RunShape
<1>2. CASE StageRaises
  <2>1. op.task \in LineSet => op.task # s
    BY <1>2 DEF StageRaises, OpRole
  <2>. QED BY <1>2, <2>1 DEF StageRaises, StageCompleted, RunShape
<1>3. CASE ~LogStage /\ ~StageRaises
  <2>1. log' = log
    BY <1>3 DEF DeliveryNext, runVars, AdmitFirst, AdmitAgain, AdmitStamp, EditInputs, Reaccept, KillDelivery, SetupBase,
         MeasureBase, Skip, WriteDoc, RecordApproval, Respond, Build, ReviewBegin, ReviewCallRaises, ReviewRound, FixCommit,
         FixFence, FixScope, FixTest, FixReset, FixRefence, FixRetest, Conclude, DeliverCheck, ChainFence, Publish, PublishFails
  <2>. QED BY <2>1 DEF StageCompleted
<1>. QED BY <1>1, <1>2, <1>3

\* Every step keeps the role of the task.
LEMMA OpRoleStep ==
  ASSUME OpShape, RunShape, GateShape, OpRole,
         [DeliveryNext]_runVars
  PROVE  OpRole'
<1>1. ASSUME NEW t \in {"setup"} \cup LineSet, NEW r \in BOOLEAN, AdmitFirst(t, r) PROVE OpRole'
  <2>1. op' = [Free EXCEPT !.task = t, !.record = r, !.at = "admitting"] /\ pin' # NoInputs /\ log' = log /\ answer' = answer
    BY <1>1 DEF AdmitFirst, RunShape, NoInputs
  <2>2. op'.task = t /\ op'.record = r /\ op'.at = "admitting" BY <2>1 DEF Free
  <2>3. r => t \in GateStages /\ answer[t].decision # "none" BY <1>1 DEF AdmitFirst, Startable
  <2>4. t = "review" => StageCompleted("build_and_test")
    BY <1>1, <2>3, StageNames, BuildPrecedesReview DEF AdmitFirst, Startable, DocStages
  <2>. QED BY <2>1, <2>2, <2>3, <2>4 DEF OpRole, ReviewPlaces, DeliverPlaces, StageCompleted
<1>2. ASSUME NEW t \in {"setup"} \cup LineSet, NEW r \in BOOLEAN, AdmitAgain(t, r) PROVE OpRole'
  <2>1. op' = [Free EXCEPT !.task = t, !.record = r, !.at = "ready"] /\ pin' # NoInputs /\ log' = log /\ answer' = answer
    BY <1>2 DEF AdmitAgain, RunShape, NoInputs
  <2>2. op'.task = t /\ op'.record = r /\ op'.at = "ready" BY <2>1 DEF Free
  <2>3. r => t \in GateStages /\ answer[t].decision # "none" BY <1>2 DEF AdmitAgain, Startable
  <2>4. t = "review" => StageCompleted("build_and_test")
    BY <1>2, <2>3, StageNames, BuildPrecedesReview DEF AdmitAgain, Startable, DocStages
  <2>. QED BY <2>1, <2>2, <2>3, <2>4 DEF OpRole, ReviewPlaces, DeliverPlaces, StageCompleted
<1>3. CASE AdmitStamp
  <2>1. op'.task = op.task /\ op'.record = op.record /\ op'.at = "ready" /\ pin' = pin /\ log' = log
    BY <1>3 DEF AdmitStamp, OpShape, OpFields
  <2>2. \A g \in GateStages : answer'[g].decision = answer[g].decision
    BY <1>3 DEF AdmitStamp, GateShape, Answers
  <2>. QED BY <1>3, <2>1, <2>2 DEF AdmitStamp, OpRole, ReviewPlaces, DeliverPlaces, StageCompleted
<1>4. CASE EditInputs
  BY <1>4, StageNames DEF EditInputs, OpRole, OpShape, OpFields, StageCompleted, At, Ends, Free, ReviewPlaces, DeliverPlaces, Skippable, Done
<1>5. CASE Reaccept
  <2>1. op' = op /\ op = Free BY <1>5 DEF Reaccept
  <2>2. op.at = "free" /\ op.record = FALSE /\ op.task = "none" BY <2>1 DEF Free
  <2>. QED BY <2>1, <2>2, StageNames DEF OpRole, ReviewPlaces, DeliverPlaces, DocStages
<1>6. CASE KillDelivery
  <2>1. op' = Free BY <1>6 DEF KillDelivery, Ends
  <2>2. op'.at = "free" /\ op'.record = FALSE /\ op'.task = "none" BY <2>1 DEF Free
  <2>. QED BY <2>2, StageNames DEF OpRole, ReviewPlaces, DeliverPlaces, DocStages
<1>7. CASE SetupBase
  <2>1. op.task = "setup" /\ ~op.record /\ pin # NoInputs /\ pin' = pin BY <1>7 DEF SetupBase, At, OpRole
  <2>2. op.task \notin LineSet /\ op.task # "review" BY <2>1, StageNames DEF DocStages
  <2>3. CASE op' = [op EXCEPT !.at = "measure"]
    <3>1. op'.task = op.task /\ op'.record = op.record /\ op'.at = "measure" BY <2>3 DEF OpShape, OpFields
    <3>. QED BY <2>1, <2>2, <3>1 DEF OpRole, ReviewPlaces, DeliverPlaces
  <2>4. CASE op' = Free
    BY <2>4, StageNames DEF Free, OpRole, ReviewPlaces, DeliverPlaces, DocStages
  <2>. QED BY <1>7, <2>3, <2>4 DEF SetupBase, Ends
<1>8. CASE MeasureBase
  <2>1. op' = Free BY <1>8 DEF MeasureBase, Ends
  <2>2. op'.at = "free" /\ op'.record = FALSE /\ op'.task = "none" BY <2>1 DEF Free
  <2>. QED BY <2>2, StageNames DEF OpRole, ReviewPlaces, DeliverPlaces, DocStages
<1>9. CASE Skip
  <2>1. op' = Free BY <1>9 DEF Skip, Ends
  <2>2. op'.at = "free" /\ op'.record = FALSE /\ op'.task = "none" BY <2>1 DEF Free
  <2>. QED BY <2>2, StageNames DEF OpRole, ReviewPlaces, DeliverPlaces, DocStages
<1>10. CASE WriteDoc
  <2>1. op'.task = op.task /\ op'.record = op.record /\ op'.at = "log" /\ pin' = pin /\ log' = log
    BY <1>10 DEF WriteDoc, OpShape, OpFields
  <2>2. op.task \in LineSet /\ op.task # "review" /\ op.task # "deliver" /\ ~op.record /\ ~StageCompleted(op.task)
    BY <1>10, StageNames DEF WriteDoc, OpShape, DocStages, Skippable, Done
  <2>3. pin # NoInputs BY <1>10 DEF WriteDoc, OpRole
  <2>. QED BY <2>1, <2>2, <2>3 DEF OpRole, ReviewPlaces, DeliverPlaces, StageCompleted
<1>11. CASE LogStage
  <2>1. op' = Free /\ pin' = pin BY <1>11 DEF LogStage, Ends
  <2>2. op'.at = "free" /\ op'.record = FALSE /\ op'.task = "none" BY <2>1 DEF Free
  <2>. QED BY <2>2, StageNames DEF OpRole, ReviewPlaces, DeliverPlaces, DocStages
<1>12. CASE StageRaises
  <2>1. op' = Free BY <1>12 DEF StageRaises, Ends
  <2>2. op'.at = "free" /\ op'.record = FALSE /\ op'.task = "none" BY <2>1 DEF Free
  <2>. QED BY <2>2, StageNames DEF OpRole, ReviewPlaces, DeliverPlaces, DocStages
<1>13. ASSUME NEW g \in GateStages, RecordApproval(g) PROVE OpRole'
  <2>1. op' = Free BY <1>13 DEF RecordApproval, Ends
  <2>2. op'.at = "free" /\ op'.record = FALSE /\ op'.task = "none" BY <2>1 DEF Free
  <2>. QED BY <2>2, StageNames DEF OpRole, ReviewPlaces, DeliverPlaces, DocStages
<1>14. ASSUME NEW g \in GateStages, NEW d \in {"approve", "reject"}, Respond(g, d) PROVE OpRole'
  <2>1. op' = op /\ op = Free /\ pin' = pin BY <1>14 DEF Respond
  <2>2. op.at = "free" /\ op.record = FALSE /\ op.task = "none" BY <2>1 DEF Free
  <2>. QED BY <2>1, <2>2, StageNames DEF OpRole, ReviewPlaces, DeliverPlaces, DocStages
<1>15. ASSUME NEW s \in {"green", "lossy", "touch"}, Build(s) PROVE OpRole'
  BY <1>15, StageNames DEF Build, OpRole, OpShape, OpFields, StageCompleted, At, Ends, Free, ReviewPlaces, DeliverPlaces, Skippable, Done
<1>16. CASE ReviewBegin
  BY <1>16, StageNames DEF ReviewBegin, OpRole, OpShape, OpFields, StageCompleted, At, Ends, Free, ReviewPlaces, DeliverPlaces, Skippable, Done
<1>17. CASE ReviewCallRaises
  BY <1>17, StageNames DEF ReviewCallRaises, OpRole, OpShape, OpFields, StageCompleted, At, Ends, Free, ReviewPlaces, DeliverPlaces, Skippable, Done
<1>18. ASSUME NEW f \in {"none", "fixable", "unfixable"}, ReviewRound(f) PROVE OpRole'
  BY <1>18, StageNames DEF ReviewRound, OpRole, OpShape, OpFields, StageCompleted, At, Ends, Free, ReviewPlaces, DeliverPlaces, Skippable, Done
<1>19. ASSUME NEW s \in {"green", "red", "broken", "lossy"}, FixCommit(s) PROVE OpRole'
  BY <1>19, StageNames DEF FixCommit, OpRole, OpShape, OpFields, StageCompleted, At, Ends, Free, ReviewPlaces, DeliverPlaces, Skippable, Done
<1>20. CASE FixFence
  BY <1>20, StageNames DEF FixFence, OpRole, OpShape, OpFields, StageCompleted, At, Ends, Free, ReviewPlaces, DeliverPlaces, Skippable, Done
<1>21. CASE FixScope
  BY <1>21, StageNames DEF FixScope, OpRole, OpShape, OpFields, StageCompleted, At, Ends, Free, ReviewPlaces, DeliverPlaces, Skippable, Done
<1>22. CASE FixTest
  BY <1>22, StageNames DEF FixTest, OpRole, OpShape, OpFields, StageCompleted, At, Ends, Free, ReviewPlaces, DeliverPlaces, Skippable, Done
<1>23. CASE FixReset
  BY <1>23, StageNames DEF FixReset, OpRole, OpShape, OpFields, StageCompleted, At, Ends, Free, ReviewPlaces, DeliverPlaces, Skippable, Done
<1>24. CASE FixRefence
  BY <1>24, StageNames DEF FixRefence, OpRole, OpShape, OpFields, StageCompleted, At, Ends, Free, ReviewPlaces, DeliverPlaces, Skippable, Done
<1>25. CASE FixRetest
  BY <1>25, StageNames DEF FixRetest, OpRole, OpShape, OpFields, StageCompleted, At, Ends, Free, ReviewPlaces, DeliverPlaces, Skippable, Done
<1>26. CASE Conclude
  BY <1>26, StageNames DEF Conclude, OpRole, OpShape, OpFields, StageCompleted, At, Ends, Free, ReviewPlaces, DeliverPlaces, Skippable, Done
<1>27. CASE DeliverCheck
  BY <1>27, StageNames DEF DeliverCheck, OpRole, OpShape, OpFields, StageCompleted, At, Ends, Free, ReviewPlaces, DeliverPlaces, Skippable, Done
<1>28. CASE ChainFence
  BY <1>28, StageNames DEF ChainFence, OpRole, OpShape, OpFields, StageCompleted, At, Ends, Free, ReviewPlaces, DeliverPlaces, Skippable, Done
<1>29. CASE Publish
  BY <1>29, StageNames DEF Publish, OpRole, OpShape, OpFields, StageCompleted, At, Ends, Free, ReviewPlaces, DeliverPlaces, Skippable, Done
<1>30. CASE PublishFails
  BY <1>30, StageNames DEF PublishFails, OpRole, OpShape, OpFields, StageCompleted, At, Ends, Free, ReviewPlaces, DeliverPlaces, Skippable, Done
<1>31. CASE UNCHANGED runVars
  BY <1>31 DEF runVars, OpRole, OpShape, OpFields, StageCompleted, At, Ends, Free, ReviewPlaces, DeliverPlaces, Skippable, Done
<1>. QED BY <1>1, <1>2, <1>3, <1>4, <1>5, <1>6, <1>7, <1>8, <1>9, <1>10, <1>11, <1>12, <1>13, <1>14, <1>15, <1>16, <1>17, <1>18, <1>19, <1>20, <1>21, <1>22, <1>23, <1>24, <1>25, <1>26, <1>27, <1>28, <1>29, <1>30, <1>31 DEF DeliveryNext

\* The codes that exist.
Used == {c \in Codes \ {0} : suite[c] # "none"}

\* Codes are given out in order.
UsedIsPrefix == \E n \in Nat : Used = 1 .. n

\* The candidate, the one before it and the published one exist.
CodesInUse ==
  /\ head.code > 0 => suite[head.code] # "none"
  /\ op.before > 0 => suite[op.before] # "none"
  /\ pub.code > 0 => suite[pub.code] \notin {"none", "touch"}

\* The next code is not in use.
LEMMA NextCodeIsFresh ==
  ASSUME CodeShape, UsedIsPrefix, NextCode \in Codes
  PROVE  /\ NextCode \in Codes \ {0} /\ suite[NextCode] = "none"
         /\ Used = 1 .. NextCode - 1
<1>1. PICK n \in Nat : Used = 1 .. n
  BY DEF UsedIsPrefix
<1>2. Cardinality(1 .. n) = n
  BY <1>1, FS_Interval
<1>3. NextCode = n + 1
  <2>1. NextCode = 1 + Cardinality(Used)
    BY Zenon DEF NextCode, Used
  <2>. QED BY <1>1, <1>2, <2>1
<1>4. NextCode \in Codes \ {0}
  BY <1>3, <1>1
<1>5. NextCode \notin Used
  BY <1>1, <1>3
<1>. QED BY <1>1, <1>3, <1>4, <1>5 DEF Used

\* A commit names a fresh code and leaves the suites of the others alone.
LEMMA FreshCode ==
  ASSUME CodeShape, UsedIsPrefix, NextCode \in Codes, NEW s \in Suites \ {"none"},
         suite' = [suite EXCEPT ![NextCode] = s]
  PROVE  /\ UsedIsPrefix' /\ suite'[NextCode] = s
         /\ \A c \in Codes : suite[c] # "none" => suite'[c] = suite[c]
<1>1. NextCode \in Codes \ {0} /\ suite[NextCode] = "none" /\ Used = 1 .. NextCode - 1 /\ NextCode \in Nat
  BY NextCodeIsFresh, CodesAreNats
<1>2. suite'[NextCode] = s /\ \A c \in Codes : c # NextCode => suite'[c] = suite[c]
  BY <1>1 DEF CodeShape
<1>3. Used' = Used \cup {NextCode}
  BY <1>1, <1>2 DEF Used
<1>4. Used' = 1 .. NextCode
  BY <1>1, <1>3
<1>. QED BY <1>1, <1>2, <1>4 DEF UsedIsPrefix

\* Only a build and a fix add a code.
LEMMA SuiteKept ==
  ASSUME [DeliveryNext]_runVars,
         ~(\E s \in {"green", "lossy", "touch"} : Build(s)), ~(\E s \in {"green", "red", "broken", "lossy"} : FixCommit(s))
  PROVE  suite' = suite
  BY DEF DeliveryNext, runVars, AdmitFirst, AdmitAgain, AdmitStamp, EditInputs, Reaccept, KillDelivery, SetupBase, MeasureBase, Skip, WriteDoc, LogStage, StageRaises, RecordApproval, Respond, ReviewBegin, ReviewCallRaises, ReviewRound, FixFence, FixScope, FixTest, FixReset, FixRefence, FixRetest, Conclude, DeliverCheck, ChainFence, Publish, PublishFails

\* Every step gives codes out in order and keeps the suites of the old ones.
LEMMA UsedStep ==
  ASSUME CodeShape, UsedIsPrefix, [DeliveryNext]_runVars
  PROVE  UsedIsPrefix' /\ (\A c \in Codes : suite[c] # "none" => suite'[c] = suite[c])
<1>1. CASE suite' = suite
  BY <1>1 DEF UsedIsPrefix, Used
<1>2. ASSUME NEW s \in {"green", "lossy", "touch"}, Build(s), suite' # suite
      PROVE  UsedIsPrefix' /\ (\A c \in Codes : suite[c] # "none" => suite'[c] = suite[c])
  <2>1. NextCode \in Codes /\ suite' = [suite EXCEPT ![NextCode] = s] /\ s \in Suites \ {"none"}
    BY <1>2 DEF Build, Suites
  <2>. QED BY <2>1, FreshCode
<1>3. ASSUME NEW s \in {"green", "red", "broken", "lossy"}, FixCommit(s), suite' # suite
      PROVE  UsedIsPrefix' /\ (\A c \in Codes : suite[c] # "none" => suite'[c] = suite[c])
  <2>1. NextCode \in Codes /\ suite' = [suite EXCEPT ![NextCode] = s] /\ s \in Suites \ {"none"}
    BY <1>3 DEF FixCommit, Suites
  <2>. QED BY <2>1, FreshCode
<1>. QED BY <1>1, <1>2, <1>3, SuiteKept

\* The code a delivery under way is about to publish touches no protected path.
Delivering == op.at \in DeliverPlaces /\ head.code > 0 => suite[head.code] # "touch"

\* The code to return to is the candidate or the one noted before.
LEMMA BeforeStep ==
  ASSUME OpShape,
         [DeliveryNext]_runVars
  PROVE  op'.before \in {op.before, 0, head.code}
<1>1. ASSUME NEW t \in {"setup"} \cup LineSet, NEW r \in BOOLEAN, AdmitFirst(t, r) PROVE op'.before \in {op.before, 0, head.code}
  BY <1>1 DEF AdmitFirst, OpShape, OpFields, Free, Ends
<1>2. ASSUME NEW t \in {"setup"} \cup LineSet, NEW r \in BOOLEAN, AdmitAgain(t, r) PROVE op'.before \in {op.before, 0, head.code}
  BY <1>2 DEF AdmitAgain, OpShape, OpFields, Free, Ends
<1>3. CASE AdmitStamp
  BY <1>3 DEF AdmitStamp, OpShape, OpFields, Free, Ends
<1>4. CASE EditInputs
  BY <1>4 DEF EditInputs, OpShape, OpFields, Free, Ends
<1>5. CASE Reaccept
  BY <1>5 DEF Reaccept, OpShape, OpFields, Free, Ends
<1>6. CASE KillDelivery
  BY <1>6 DEF KillDelivery, OpShape, OpFields, Free, Ends
<1>7. CASE SetupBase
  BY <1>7 DEF SetupBase, OpShape, OpFields, Free, Ends
<1>8. CASE MeasureBase
  BY <1>8 DEF MeasureBase, OpShape, OpFields, Free, Ends
<1>9. CASE Skip
  BY <1>9 DEF Skip, OpShape, OpFields, Free, Ends
<1>10. CASE WriteDoc
  BY <1>10 DEF WriteDoc, OpShape, OpFields, Free, Ends
<1>11. CASE LogStage
  BY <1>11 DEF LogStage, OpShape, OpFields, Free, Ends
<1>12. CASE StageRaises
  BY <1>12 DEF StageRaises, OpShape, OpFields, Free, Ends
<1>13. ASSUME NEW g \in GateStages, RecordApproval(g) PROVE op'.before \in {op.before, 0, head.code}
  BY <1>13 DEF RecordApproval, OpShape, OpFields, Free, Ends
<1>14. ASSUME NEW g \in GateStages, NEW d \in {"approve", "reject"}, Respond(g, d) PROVE op'.before \in {op.before, 0, head.code}
  BY <1>14 DEF Respond, OpShape, OpFields, Free, Ends
<1>15. ASSUME NEW s \in {"green", "lossy", "touch"}, Build(s) PROVE op'.before \in {op.before, 0, head.code}
  BY <1>15 DEF Build, OpShape, OpFields, Free, Ends
<1>16. CASE ReviewBegin
  BY <1>16 DEF ReviewBegin, OpShape, OpFields, Free, Ends
<1>17. CASE ReviewCallRaises
  BY <1>17 DEF ReviewCallRaises, OpShape, OpFields, Free, Ends
<1>18. ASSUME NEW f \in {"none", "fixable", "unfixable"}, ReviewRound(f) PROVE op'.before \in {op.before, 0, head.code}
  BY <1>18 DEF ReviewRound, OpShape, OpFields, Free, Ends
<1>19. ASSUME NEW s \in {"green", "red", "broken", "lossy"}, FixCommit(s) PROVE op'.before \in {op.before, 0, head.code}
  BY <1>19 DEF FixCommit, OpShape, OpFields, Free, Ends
<1>20. CASE FixFence
  BY <1>20 DEF FixFence, OpShape, OpFields, Free, Ends
<1>21. CASE FixScope
  BY <1>21 DEF FixScope, OpShape, OpFields, Free, Ends
<1>22. CASE FixTest
  BY <1>22 DEF FixTest, OpShape, OpFields, Free, Ends
<1>23. CASE FixReset
  BY <1>23 DEF FixReset, OpShape, OpFields, Free, Ends
<1>24. CASE FixRefence
  BY <1>24 DEF FixRefence, OpShape, OpFields, Free, Ends
<1>25. CASE FixRetest
  BY <1>25 DEF FixRetest, OpShape, OpFields, Free, Ends
<1>26. CASE Conclude
  BY <1>26 DEF Conclude, OpShape, OpFields, Free, Ends
<1>27. CASE DeliverCheck
  BY <1>27 DEF DeliverCheck, OpShape, OpFields, Free, Ends
<1>28. CASE ChainFence
  BY <1>28 DEF ChainFence, OpShape, OpFields, Free, Ends
<1>29. CASE Publish
  BY <1>29 DEF Publish, OpShape, OpFields, Free, Ends
<1>30. CASE PublishFails
  BY <1>30 DEF PublishFails, OpShape, OpFields, Free, Ends
<1>31. CASE UNCHANGED runVars
  BY <1>31 DEF runVars, OpShape, OpFields, Free, Ends
<1>. QED BY <1>1, <1>2, <1>3, <1>4, <1>5, <1>6, <1>7, <1>8, <1>9, <1>10, <1>11, <1>12, <1>13, <1>14, <1>15, <1>16, <1>17, <1>18, <1>19, <1>20, <1>21, <1>22, <1>23, <1>24, <1>25, <1>26, <1>27, <1>28, <1>29, <1>30, <1>31 DEF DeliveryNext

\* Every step keeps the codes that are referred to in use.
LEMMA CodesInUseStep ==
  ASSUME OpShape, CodeShape, UsedIsPrefix, CodesInUse, Delivering, [DeliveryNext]_runVars
  PROVE  CodesInUse'
<1>1. \A c \in Codes : suite[c] # "none" => suite'[c] = suite[c]
  BY UsedStep
<1>2. suite \in [Codes -> Suites] /\ head.code \in Codes /\ op.before \in Codes /\ pub.code \in CodesOr /\ Codes \subseteq Nat
  BY CodesAreNats DEF CodeShape, OpShape
<1>3. ASSUME NEW s \in {"green", "lossy", "touch"}, Build(s) PROVE CodesInUse'
  <2>1. op'.before = op.before /\ pub' = pub
    BY <1>3 DEF Build, OpShape, OpFields
  <2>2. head'.code > 0 => suite'[head'.code] # "none"
    <3>1. CASE ~OnFence
      BY <3>1, <1>1, <1>2, <1>3 DEF Build, CodesInUse
    <3>2. CASE OnFence
      <4>1. NextCode \in Codes /\ suite' = [suite EXCEPT ![NextCode] = s] /\ head'.code = NextCode
        BY <3>2, <1>3 DEF Build
      <4>. QED BY <4>1, <1>2
    <3>. QED BY <3>1, <3>2
  <2>3. op'.before > 0 => suite'[op'.before] # "none"
    BY <1>1, <1>2, <2>1 DEF CodesInUse
  <2>4. pub'.code > 0 => suite'[pub'.code] \notin {"none", "touch"}
    <3>1. pub.code > 0 => pub.code \in Codes
      BY <1>2 DEF CodesOr
    <3>. QED BY <1>1, <2>1, <3>1 DEF CodesInUse
  <2>. QED BY <2>2, <2>3, <2>4 DEF CodesInUse
<1>4. ASSUME NEW s \in {"green", "red", "broken", "lossy"}, FixCommit(s) PROVE CodesInUse'
  <2>1. op'.before = head.code /\ pub' = pub
    BY <1>4 DEF FixCommit, OpShape, OpFields
  <2>2. head'.code > 0 => suite'[head'.code] # "none"
    <3>1. CASE head' = head
      BY <3>1, <1>1, <1>2 DEF CodesInUse
    <3>2. CASE head' # head
      <4>1. NextCode \in Codes /\ suite' = [suite EXCEPT ![NextCode] = s] /\ head'.code = NextCode
        BY <3>2, <1>4 DEF FixCommit
      <4>. QED BY <4>1, <1>2
    <3>. QED BY <3>1, <3>2
  <2>3. op'.before > 0 => suite'[op'.before] # "none"
    BY <1>1, <1>2, <2>1 DEF CodesInUse
  <2>4. pub'.code > 0 => suite'[pub'.code] \notin {"none", "touch"}
    <3>1. pub.code > 0 => pub.code \in Codes
      BY <1>2 DEF CodesOr
    <3>. QED BY <1>1, <2>1, <3>1 DEF CodesInUse
  <2>. QED BY <2>2, <2>3, <2>4 DEF CodesInUse
<1>5. CASE ~(\E s \in {"green", "lossy", "touch"} : Build(s)) /\ ~(\E s \in {"green", "red", "broken", "lossy"} : FixCommit(s))
  <2>1. suite' = suite
    BY <1>5, SuiteKept
  <2>2. head'.code \in {head.code, op.before}
    <3>1. CASE FixReset
      BY <3>1 DEF FixReset
    <3>2. CASE DeliverCheck
      BY <3>2 DEF DeliverCheck, CodeShape
    <3>3. CASE ~FixReset /\ ~DeliverCheck
      BY <1>5, <3>3 DEF DeliveryNext, runVars, AdmitFirst, AdmitAgain, AdmitStamp, EditInputs, Reaccept, KillDelivery, SetupBase, MeasureBase, Skip, WriteDoc, LogStage, StageRaises, RecordApproval, Respond, ReviewBegin, ReviewCallRaises, ReviewRound, FixFence, FixScope, FixTest, FixRefence, FixRetest, Conclude, ChainFence, Publish, PublishFails
    <3>. QED BY <3>1, <3>2, <3>3
  <2>3. op'.before \in {op.before, 0, head.code}
    BY BeforeStep
  <2>4. CASE Publish
    <3>1. pub'.code = head.code /\ (head.code > 0 => suite[head.code] # "touch")
      BY <2>4 DEF Publish, At, Delivering, DeliverPlaces
    <3>. QED BY <1>2, <2>1, <2>2, <2>3, <3>1 DEF CodesInUse
  <2>5. CASE ~Publish
    <3>1. pub' = pub
      BY <1>5, <2>5 DEF DeliveryNext, runVars, AdmitFirst, AdmitAgain, AdmitStamp, EditInputs, Reaccept, KillDelivery, SetupBase, MeasureBase, Skip, WriteDoc, LogStage, StageRaises, RecordApproval, Respond, ReviewBegin, ReviewCallRaises, ReviewRound, FixFence, FixScope, FixTest, FixReset, FixRefence, FixRetest, Conclude, DeliverCheck, ChainFence, PublishFails
    <3>. QED BY <1>2, <2>1, <2>2, <2>3, <3>1 DEF CodesInUse
  <2>. QED BY <2>4, <2>5
<1>. QED BY <1>3, <1>4, <1>5

\* Code c is the candidate, built, measured against the base without a loss, and reviewed without a blocker.
Vouched(c) ==
  /\ c = head.code /\ StageCompleted("build_and_test") /\ StageCompleted("review")
  /\ junit = c /\ base # "none" /\ (base = "measured" => suite[c] \notin {"broken", "lossy"})
  /\ verdict.code = c /\ ~verdict.blocked

\* Every gate approved the document in the chain, for the pinned inputs.
GatesApprove ==
  \A g \in GateStages : approvals[g].decision = "approve" /\ approvals[g].doc = doc[g] /\ approvals[g].inputs = pin

\* A completed review was of the candidate.
ReviewedHead ==
  /\ StageCompleted("review") => verdict.code = head.code /\ StageCompleted("build_and_test")
  /\ op.at = "conclude" => op.saw = head.code
  /\ op.at = "log" /\ op.task = "review" => verdict.code = head.code

\* A delivery without a banner goes on only with code that is vouched for and gates that approve.
PlainDelivery == op.at \in DeliverPlaces /\ op.banner = "plain" => Vouched(head.code) /\ GatesApprove

\* What is published without a banner is vouched for.
PlainPublished == pub.banner = "plain" => Vouched(pub.code)

\* Once build and review are completed, the candidate and the evidence for it stay.
LEMMA SettledAfterReview ==
  ASSUME OpShape, RunShape, CodeShape, OpRole, [DeliveryNext]_runVars,
         StageCompleted("build_and_test"), StageCompleted("review")
  PROVE  /\ suite' = suite /\ verdict' = verdict /\ head'.code = head.code
         /\ StageCompleted("build_and_test")' /\ StageCompleted("review")'
         /\ base # "none" => junit' = junit /\ base' = base
<1>1. StageCompleted("build_and_test")' /\ StageCompleted("review")'
  BY CompletedStays, StageNames
<1>2. ~(op.task = "review" /\ op.at \notin {"free", "admitting", "ready"})
  BY StageNames DEF OpRole
<1>3. ~(\E s \in {"green", "lossy", "touch"} : Build(s)) /\ ~ReviewBegin
  BY StageNames DEF Build, ReviewBegin, At, Skippable, Done
<1>4. /\ ~(\E s \in {"green", "red", "broken", "lossy"} : FixCommit(s)) /\ ~FixReset /\ ~Conclude
      /\ ~FixTest /\ ~FixRetest
  BY <1>2 DEF FixCommit, FixReset, FixTest, FixRetest, Conclude, At
<1>5. suite' = suite
  BY <1>3, <1>4, SuiteKept
<1>6. verdict' = verdict
  BY <1>4 DEF DeliveryNext, runVars, AdmitFirst, AdmitAgain, AdmitStamp, EditInputs, Reaccept, KillDelivery, SetupBase, MeasureBase, Skip, WriteDoc, LogStage, StageRaises, RecordApproval, Respond, Build, ReviewBegin, ReviewCallRaises, ReviewRound, FixCommit, FixFence, FixScope, FixTest, FixReset, FixRefence, FixRetest, DeliverCheck, ChainFence, Publish, PublishFails
<1>7. head'.code = head.code
  <2>1. CASE DeliverCheck
    BY <2>1 DEF DeliverCheck, CodeShape
  <2>2. CASE ~DeliverCheck
    BY <2>2, <1>3, <1>4 DEF DeliveryNext, runVars, AdmitFirst, AdmitAgain, AdmitStamp, EditInputs, Reaccept, KillDelivery, SetupBase, MeasureBase, Skip, WriteDoc, LogStage, StageRaises, RecordApproval, Respond, ReviewBegin, ReviewCallRaises, ReviewRound, FixFence, FixScope, FixTest, FixRefence, FixRetest, Conclude, ChainFence, Publish, PublishFails
  <2>. QED BY <2>1, <2>2
<1>8. ASSUME base # "none" PROVE junit' = junit /\ base' = base
  <2>1. CASE MeasureBase
    BY <1>8, <2>1 DEF MeasureBase
  <2>2. CASE ~MeasureBase
    BY <2>2, <1>3, <1>4 DEF DeliveryNext, runVars, AdmitFirst, AdmitAgain, AdmitStamp, EditInputs, Reaccept, KillDelivery, SetupBase, Skip, WriteDoc, LogStage, StageRaises, RecordApproval, Respond, ReviewCallRaises, ReviewRound, FixCommit, FixFence, FixScope, FixReset, FixRefence, Conclude, DeliverCheck, ChainFence, Publish, PublishFails
  <2>. QED BY <2>1, <2>2
<1>. QED BY <1>1, <1>5, <1>6, <1>7, <1>8

\* Code that is vouched for stays vouched for.
LEMMA VouchedStays ==
  ASSUME OpShape, RunShape, CodeShape, OpRole, [DeliveryNext]_runVars, NEW c, Vouched(c)
  PROVE  Vouched(c)'
  BY SettledAfterReview DEF Vouched

\* Every step keeps completed reviews on the candidate.
LEMMA ReviewedHeadStep ==
  ASSUME OpShape, RunShape, CodeShape, OpRole, ReviewedHead,
         [DeliveryNext]_runVars
  PROVE  ReviewedHead'
<1>1. ASSUME NEW t \in {"setup"} \cup LineSet, NEW r \in BOOLEAN, AdmitFirst(t, r) PROVE ReviewedHead'
  <2>1. verdict' = verdict /\ head' = head /\ log' = log BY <1>1 DEF AdmitFirst
  <2>2. op'.at \notin {"conclude", "log"} BY <1>1 DEF AdmitFirst, OpShape, OpFields, Free, Ends, At
  <2>. QED BY <2>1, <2>2 DEF ReviewedHead, StageCompleted
<1>2. ASSUME NEW t \in {"setup"} \cup LineSet, NEW r \in BOOLEAN, AdmitAgain(t, r) PROVE ReviewedHead'
  <2>1. verdict' = verdict /\ head' = head /\ log' = log BY <1>2 DEF AdmitAgain
  <2>2. op'.at \notin {"conclude", "log"} BY <1>2 DEF AdmitAgain, OpShape, OpFields, Free, Ends, At
  <2>. QED BY <2>1, <2>2 DEF ReviewedHead, StageCompleted
<1>3. CASE AdmitStamp
  <2>1. verdict' = verdict /\ head' = head /\ log' = log BY <1>3 DEF AdmitStamp
  <2>2. op'.at \notin {"conclude", "log"} BY <1>3 DEF AdmitStamp, OpShape, OpFields, Free, Ends, At
  <2>. QED BY <2>1, <2>2 DEF ReviewedHead, StageCompleted
<1>4. CASE EditInputs
  BY <1>4 DEF EditInputs, ReviewedHead, OpShape, OpFields, CodeShape, At, Ends, Free, StageCompleted
<1>5. CASE Reaccept
  BY <1>5 DEF Reaccept, ReviewedHead, OpShape, OpFields, CodeShape, At, Ends, Free, StageCompleted
<1>6. CASE KillDelivery
  <2>1. verdict' = verdict /\ head' = head /\ log' = log BY <1>6 DEF KillDelivery
  <2>2. op'.at \notin {"conclude", "log"} BY <1>6 DEF KillDelivery, OpShape, OpFields, Free, Ends, At
  <2>. QED BY <2>1, <2>2 DEF ReviewedHead, StageCompleted
<1>7. CASE SetupBase
  <2>1. verdict' = verdict /\ head' = head /\ log' = log BY <1>7 DEF SetupBase
  <2>2. op'.at \notin {"conclude", "log"} BY <1>7 DEF SetupBase, OpShape, OpFields, Free, Ends, At
  <2>. QED BY <2>1, <2>2 DEF ReviewedHead, StageCompleted
<1>8. CASE MeasureBase
  <2>1. verdict' = verdict /\ head' = head /\ log' = log BY <1>8 DEF MeasureBase
  <2>2. op'.at \notin {"conclude", "log"} BY <1>8 DEF MeasureBase, OpShape, OpFields, Free, Ends, At
  <2>. QED BY <2>1, <2>2 DEF ReviewedHead, StageCompleted
<1>9. CASE Skip
  <2>1. verdict' = verdict /\ head' = head /\ log' = log BY <1>9 DEF Skip
  <2>2. op'.at \notin {"conclude", "log"} BY <1>9 DEF Skip, OpShape, OpFields, Free, Ends, At
  <2>. QED BY <2>1, <2>2 DEF ReviewedHead, StageCompleted
<1>10. CASE WriteDoc
  <2>1. op'.task = op.task /\ op'.at = "log" /\ head' = head /\ log' = log /\ verdict' = verdict
    BY <1>10 DEF WriteDoc, OpShape, OpFields
  <2>2. op.task # "review" BY <1>10 DEF WriteDoc, DocStages
  <2>. QED BY <2>1, <2>2 DEF ReviewedHead, StageCompleted
<1>11. CASE LogStage
  <2>1. op'.at = "free" /\ head' = head /\ verdict' = verdict BY <1>11 DEF LogStage, Ends, Free
  <2>2. CASE op.task = "review"
    <3>1. verdict.code = head.code /\ StageCompleted("build_and_test") BY <1>11, <2>2 DEF LogStage, ReviewedHead, OpRole
    <3>2. StageCompleted("build_and_test")' BY <3>1, CompletedStays, StageNames
    <3>. QED BY <2>1, <3>1, <3>2 DEF ReviewedHead
  <2>3. CASE op.task # "review"
    <3>1. StageCompleted("review")' => StageCompleted("review") BY <1>11, <2>3 DEF LogStage, StageCompleted, RunShape
    <3>2. StageCompleted("build_and_test") => StageCompleted("build_and_test")' BY CompletedStays, StageNames
    <3>. QED BY <2>1, <3>1, <3>2 DEF ReviewedHead
  <2>. QED BY <2>2, <2>3
<1>12. CASE StageRaises
  <2>1. op'.at = "free" /\ head' = head /\ verdict' = verdict BY <1>12 DEF StageRaises, Ends, Free
  <2>2. StageCompleted("review")' => StageCompleted("review") BY <1>12 DEF StageRaises, StageCompleted, RunShape
  <2>3. StageCompleted("build_and_test") => StageCompleted("build_and_test")' BY CompletedStays, StageNames
  <2>. QED BY <2>1, <2>2, <2>3 DEF ReviewedHead
<1>13. ASSUME NEW g \in GateStages, RecordApproval(g) PROVE ReviewedHead'
  <2>1. verdict' = verdict /\ head' = head /\ log' = log BY <1>13 DEF RecordApproval
  <2>2. op'.at \notin {"conclude", "log"} BY <1>13 DEF RecordApproval, OpShape, OpFields, Free, Ends, At
  <2>. QED BY <2>1, <2>2 DEF ReviewedHead, StageCompleted
<1>14. ASSUME NEW g \in GateStages, NEW d \in {"approve", "reject"}, Respond(g, d) PROVE ReviewedHead'
  BY <1>14 DEF Respond, ReviewedHead, OpShape, OpFields, CodeShape, At, Ends, Free, StageCompleted
<1>15. ASSUME NEW s \in {"green", "lossy", "touch"}, Build(s) PROVE ReviewedHead'
  <2>1. op.task = "build_and_test" /\ ~StageCompleted("build_and_test") BY <1>15, StageNames DEF Build, At, Skippable, Done
  <2>2. ~StageCompleted("review") BY <2>1 DEF ReviewedHead
  <2>3. op'.task = op.task /\ op'.at \in {"raise", "log"} /\ log' = log BY <1>15 DEF Build, OpShape, OpFields
  <2>. QED BY <2>1, <2>2, <2>3 DEF ReviewedHead, StageCompleted
<1>16. CASE ReviewBegin
  <2>1. verdict' = verdict /\ head' = head /\ log' = log BY <1>16 DEF ReviewBegin
  <2>2. op'.at \notin {"conclude", "log"} BY <1>16 DEF ReviewBegin, OpShape, OpFields, Free, Ends, At
  <2>. QED BY <2>1, <2>2 DEF ReviewedHead, StageCompleted
<1>17. CASE ReviewCallRaises
  <2>1. verdict' = verdict /\ head' = head /\ log' = log BY <1>17 DEF ReviewCallRaises
  <2>2. op'.at \notin {"conclude", "log"} BY <1>17 DEF ReviewCallRaises, OpShape, OpFields, Free, Ends, At
  <2>. QED BY <2>1, <2>2 DEF ReviewedHead, StageCompleted
<1>18. ASSUME NEW f \in {"none", "fixable", "unfixable"}, ReviewRound(f) PROVE ReviewedHead'
  <2>1. op'.saw = head.code /\ op'.at \in {"fix", "conclude"} /\ head' = head /\ log' = log /\ verdict' = verdict
    BY <1>18 DEF ReviewRound, OpShape, OpFields
  <2>. QED BY <2>1 DEF ReviewedHead, StageCompleted
<1>19. ASSUME NEW s \in {"green", "red", "broken", "lossy"}, FixCommit(s) PROVE ReviewedHead'
  <2>1. op.task = "review" /\ ~StageCompleted("review") BY <1>19, StageNames DEF FixCommit, At, OpRole
  <2>2. op'.at = "fence" /\ log' = log BY <1>19 DEF FixCommit, OpShape, OpFields
  <2>. QED BY <2>1, <2>2 DEF ReviewedHead, StageCompleted
<1>20. CASE FixFence
  <2>1. verdict' = verdict /\ head' = head /\ log' = log BY <1>20 DEF FixFence
  <2>2. op'.at \notin {"conclude", "log"} BY <1>20 DEF FixFence, OpShape, OpFields, Free, Ends, At
  <2>. QED BY <2>1, <2>2 DEF ReviewedHead, StageCompleted
<1>21. CASE FixScope
  <2>1. verdict' = verdict /\ head' = head /\ log' = log BY <1>21 DEF FixScope
  <2>2. op'.at \notin {"conclude", "log"} BY <1>21 DEF FixScope, OpShape, OpFields, Free, Ends, At
  <2>. QED BY <2>1, <2>2 DEF ReviewedHead, StageCompleted
<1>22. CASE FixTest
  <2>1. verdict' = verdict /\ head' = head /\ log' = log BY <1>22 DEF FixTest
  <2>2. op'.at \notin {"conclude", "log"} BY <1>22 DEF FixTest, OpShape, OpFields, Free, Ends, At
  <2>. QED BY <2>1, <2>2 DEF ReviewedHead, StageCompleted
<1>23. CASE FixReset
  <2>1. op.task = "review" /\ ~StageCompleted("review") BY <1>23, StageNames DEF FixReset, At, OpRole
  <2>2. op'.at = "refence" /\ log' = log BY <1>23 DEF FixReset, OpShape, OpFields
  <2>. QED BY <2>1, <2>2 DEF ReviewedHead, StageCompleted
<1>24. CASE FixRefence
  <2>1. verdict' = verdict /\ head' = head /\ log' = log BY <1>24 DEF FixRefence
  <2>2. op'.at \notin {"conclude", "log"} BY <1>24 DEF FixRefence, OpShape, OpFields, Free, Ends, At
  <2>. QED BY <2>1, <2>2 DEF ReviewedHead, StageCompleted
<1>25. CASE FixRetest
  <2>1. verdict' = verdict /\ head' = head /\ log' = log BY <1>25 DEF FixRetest
  <2>2. op'.at \notin {"conclude", "log"} BY <1>25 DEF FixRetest, OpShape, OpFields, Free, Ends, At
  <2>. QED BY <2>1, <2>2 DEF ReviewedHead, StageCompleted
<1>26. CASE Conclude
  <2>1. op.task = "review" /\ ~StageCompleted("review") /\ op.saw = head.code BY <1>26, StageNames DEF Conclude, At, OpRole, ReviewedHead
  <2>2. op'.at = "log" /\ log' = log /\ head' = head /\ verdict'.code = op.saw BY <1>26 DEF Conclude, OpShape, OpFields
  <2>. QED BY <2>1, <2>2 DEF ReviewedHead, StageCompleted
<1>27. CASE DeliverCheck
  <2>1. op'.at \in {"raise", "chain"} BY <1>27 DEF DeliverCheck, OpShape, OpFields
  <2>2. head'.code = head.code /\ log' = log /\ verdict' = verdict BY <1>27 DEF DeliverCheck, CodeShape
  <2>. QED BY <2>1, <2>2 DEF ReviewedHead, StageCompleted
<1>28. CASE ChainFence
  <2>1. verdict' = verdict /\ head' = head /\ log' = log BY <1>28 DEF ChainFence
  <2>2. op'.at \notin {"conclude", "log"} BY <1>28 DEF ChainFence, OpShape, OpFields, Free, Ends, At
  <2>. QED BY <2>1, <2>2 DEF ReviewedHead, StageCompleted
<1>29. CASE Publish
  <2>1. op'.task = op.task /\ op.task # "review" /\ op'.at \in {"raise", "log"} BY <1>29 DEF Publish, At, OpShape, OpFields
  <2>2. head' = head /\ log' = log /\ verdict' = verdict BY <1>29 DEF Publish
  <2>. QED BY <2>1, <2>2 DEF ReviewedHead, StageCompleted
<1>30. CASE PublishFails
  <2>1. verdict' = verdict /\ head' = head /\ log' = log BY <1>30 DEF PublishFails
  <2>2. op'.at \notin {"conclude", "log"} BY <1>30 DEF PublishFails, OpShape, OpFields, Free, Ends, At
  <2>. QED BY <2>1, <2>2 DEF ReviewedHead, StageCompleted
<1>31. CASE UNCHANGED runVars
  BY <1>31 DEF runVars, ReviewedHead, OpShape, OpFields, CodeShape, At, Ends, Free, StageCompleted
<1>. QED BY <1>1, <1>2, <1>3, <1>4, <1>5, <1>6, <1>7, <1>8, <1>9, <1>10, <1>11, <1>12, <1>13, <1>14, <1>15, <1>16, <1>17, <1>18, <1>19, <1>20, <1>21, <1>22, <1>23, <1>24, <1>25, <1>26, <1>27, <1>28, <1>29, <1>30, <1>31 DEF DeliveryNext

\* The task is delivering only after the checks of deliver, or it was already.
LEMMA DeliverPlacesStep ==
  ASSUME OpShape, op'.at \in DeliverPlaces,
         [DeliveryNext]_runVars
  PROVE  (DeliverCheck /\ ~Refusal) \/ ChainFence \/ UNCHANGED runVars
<1>1. ASSUME NEW t \in {"setup"} \cup LineSet, NEW r \in BOOLEAN, AdmitFirst(t, r) PROVE (DeliverCheck /\ ~Refusal) \/ ChainFence \/ UNCHANGED runVars
  BY <1>1 DEF AdmitFirst, DeliverPlaces, OpShape, OpFields, Free, Ends, At
<1>2. ASSUME NEW t \in {"setup"} \cup LineSet, NEW r \in BOOLEAN, AdmitAgain(t, r) PROVE (DeliverCheck /\ ~Refusal) \/ ChainFence \/ UNCHANGED runVars
  BY <1>2 DEF AdmitAgain, DeliverPlaces, OpShape, OpFields, Free, Ends, At
<1>3. CASE AdmitStamp
  BY <1>3 DEF AdmitStamp, DeliverPlaces, OpShape, OpFields, Free, Ends, At
<1>4. CASE EditInputs
  BY <1>4 DEF EditInputs, DeliverPlaces, OpShape, OpFields, Free, Ends, At
<1>5. CASE Reaccept
  BY <1>5 DEF Reaccept, DeliverPlaces, OpShape, OpFields, Free, Ends, At
<1>6. CASE KillDelivery
  BY <1>6 DEF KillDelivery, DeliverPlaces, OpShape, OpFields, Free, Ends, At
<1>7. CASE SetupBase
  BY <1>7 DEF SetupBase, DeliverPlaces, OpShape, OpFields, Free, Ends, At
<1>8. CASE MeasureBase
  BY <1>8 DEF MeasureBase, DeliverPlaces, OpShape, OpFields, Free, Ends, At
<1>9. CASE Skip
  BY <1>9 DEF Skip, DeliverPlaces, OpShape, OpFields, Free, Ends, At
<1>10. CASE WriteDoc
  BY <1>10 DEF WriteDoc, DeliverPlaces, OpShape, OpFields, Free, Ends, At
<1>11. CASE LogStage
  BY <1>11 DEF LogStage, DeliverPlaces, OpShape, OpFields, Free, Ends, At
<1>12. CASE StageRaises
  BY <1>12 DEF StageRaises, DeliverPlaces, OpShape, OpFields, Free, Ends, At
<1>13. ASSUME NEW g \in GateStages, RecordApproval(g) PROVE (DeliverCheck /\ ~Refusal) \/ ChainFence \/ UNCHANGED runVars
  BY <1>13 DEF RecordApproval, DeliverPlaces, OpShape, OpFields, Free, Ends, At
<1>14. ASSUME NEW g \in GateStages, NEW d \in {"approve", "reject"}, Respond(g, d) PROVE (DeliverCheck /\ ~Refusal) \/ ChainFence \/ UNCHANGED runVars
  BY <1>14 DEF Respond, DeliverPlaces, OpShape, OpFields, Free, Ends, At
<1>15. ASSUME NEW s \in {"green", "lossy", "touch"}, Build(s) PROVE (DeliverCheck /\ ~Refusal) \/ ChainFence \/ UNCHANGED runVars
  BY <1>15 DEF Build, DeliverPlaces, OpShape, OpFields, Free, Ends, At
<1>16. CASE ReviewBegin
  BY <1>16 DEF ReviewBegin, DeliverPlaces, OpShape, OpFields, Free, Ends, At
<1>17. CASE ReviewCallRaises
  BY <1>17 DEF ReviewCallRaises, DeliverPlaces, OpShape, OpFields, Free, Ends, At
<1>18. ASSUME NEW f \in {"none", "fixable", "unfixable"}, ReviewRound(f) PROVE (DeliverCheck /\ ~Refusal) \/ ChainFence \/ UNCHANGED runVars
  BY <1>18 DEF ReviewRound, DeliverPlaces, OpShape, OpFields, Free, Ends, At
<1>19. ASSUME NEW s \in {"green", "red", "broken", "lossy"}, FixCommit(s) PROVE (DeliverCheck /\ ~Refusal) \/ ChainFence \/ UNCHANGED runVars
  BY <1>19 DEF FixCommit, DeliverPlaces, OpShape, OpFields, Free, Ends, At
<1>20. CASE FixFence
  BY <1>20 DEF FixFence, DeliverPlaces, OpShape, OpFields, Free, Ends, At
<1>21. CASE FixScope
  BY <1>21 DEF FixScope, DeliverPlaces, OpShape, OpFields, Free, Ends, At
<1>22. CASE FixTest
  BY <1>22 DEF FixTest, DeliverPlaces, OpShape, OpFields, Free, Ends, At
<1>23. CASE FixReset
  BY <1>23 DEF FixReset, DeliverPlaces, OpShape, OpFields, Free, Ends, At
<1>24. CASE FixRefence
  BY <1>24 DEF FixRefence, DeliverPlaces, OpShape, OpFields, Free, Ends, At
<1>25. CASE FixRetest
  BY <1>25 DEF FixRetest, DeliverPlaces, OpShape, OpFields, Free, Ends, At
<1>26. CASE Conclude
  BY <1>26 DEF Conclude, DeliverPlaces, OpShape, OpFields, Free, Ends, At
<1>27. CASE DeliverCheck
  BY <1>27 DEF DeliverCheck, DeliverPlaces, OpShape, OpFields, Free, Ends, At
<1>28. CASE ChainFence
  BY <1>28
<1>29. CASE Publish
  BY <1>29 DEF Publish, DeliverPlaces, OpShape, OpFields, Free, Ends, At
<1>30. CASE PublishFails
  BY <1>30 DEF PublishFails, DeliverPlaces, OpShape, OpFields, Free, Ends, At
<1>31. CASE UNCHANGED runVars
  BY <1>31 DEF runVars, DeliverPlaces, OpShape, OpFields, Free, Ends, At
<1>. QED BY <1>1, <1>2, <1>3, <1>4, <1>5, <1>6, <1>7, <1>8, <1>9, <1>10, <1>11, <1>12, <1>13, <1>14, <1>15, <1>16, <1>17, <1>18, <1>19, <1>20, <1>21, <1>22, <1>23, <1>24, <1>25, <1>26, <1>27, <1>28, <1>29, <1>30, <1>31 DEF DeliveryNext

\* The checks of deliver leave the banner off only for code that is vouched for, with gates that approve.
LEMMA CheckedDelivery ==
  ASSUME OpShape, RunShape, GateShape, CodeShape, OpRole, ReviewedHead, DeliverCheck, ~Refusal, op'.banner = "plain"
  PROVE  Vouched(head.code) /\ GatesApprove
<1>1. RejectedAt = {} /\ ~ReviewBlocked /\ ~Regressed
  BY DEF DeliverCheck, OpShape, OpFields
<1>2. \A s : Required(s)
  BY <1>1 DEF Required
<1>3. DecisionsValid /\ StagesComplete /\ GuardEvidence
  BY DEF Refusal
<1>4. GatesApprove
  <2>. SUFFICES ASSUME NEW g \in GateStages
                PROVE  approvals[g].decision = "approve" /\ approvals[g].doc = doc[g] /\ approvals[g].inputs = pin
    BY DEF GatesApprove
  <2>1. approvals[g].decision # "none" /\ approvals[g].doc = doc[g] /\ approvals[g].inputs = pin
    BY <1>2, <1>3 DEF DecisionsValid
  <2>2. approvals[g].decision \in Decisions
    BY DEF GateShape, Approvals
  <2>3. approvals[g].decision # "reject"
    BY <1>1 DEF RejectedAt
  <2>. QED BY <2>1, <2>2, <2>3 DEF Decisions
<1>5. StageCompleted("build_and_test") /\ StageCompleted("review")
  BY <1>2, <1>3, StageNames DEF StagesComplete
<1>6. base # "none" /\ junit = head.code
  BY <1>2, <1>3 DEF GuardEvidence, Guarded
<1>7. base = "measured" => suite[head.code] \notin {"broken", "lossy"}
  BY <1>1, <1>2 DEF Regressed, Guarded
<1>8. ~verdict.blocked
  BY <1>1, <1>2 DEF ReviewBlocked
<1>9. verdict.code = head.code
  BY <1>5 DEF ReviewedHead
<1>. QED BY <1>4, <1>5, <1>6, <1>7, <1>8, <1>9 DEF Vouched

\* Every step keeps what is known of a delivery under way.
LEMMA DeliveringStep ==
  ASSUME OpShape, CodeShape, Delivering, [DeliveryNext]_runVars
  PROVE  Delivering'
<1>. SUFFICES ASSUME op'.at \in DeliverPlaces, head'.code > 0
              PROVE  suite'[head'.code] # "touch"
  BY DEF Delivering
<1>1. CASE DeliverCheck /\ ~Refusal
  <2>1. head'.code = head.code /\ suite' = suite
    BY <1>1 DEF DeliverCheck, CodeShape
  <2>. QED BY <1>1, <2>1 DEF Refusal, Protected, CodeChanged
<1>2. CASE ChainFence
  BY <1>2 DEF ChainFence, At, Delivering, DeliverPlaces
<1>3. CASE UNCHANGED runVars
  BY <1>3 DEF runVars, Delivering
<1>. QED BY <1>1, <1>2, <1>3, DeliverPlacesStep

\* Every step keeps a delivery without a banner vouched for.
LEMMA PlainDeliveryStep ==
  ASSUME OpShape, RunShape, GateShape, CodeShape, OpRole, ReviewedHead, PlainDelivery, [DeliveryNext]_runVars
  PROVE  PlainDelivery'
<1>. SUFFICES ASSUME op'.at \in DeliverPlaces, op'.banner = "plain"
              PROVE  Vouched(head.code)' /\ GatesApprove'
  BY DEF PlainDelivery
<1>1. CASE DeliverCheck /\ ~Refusal
  <2>1. Vouched(head.code) /\ GatesApprove
    BY <1>1, CheckedDelivery
  <2>2. head'.code = head.code /\ UNCHANGED <<suite, log, junit, base, verdict, approvals, doc, pin>>
    BY <1>1 DEF DeliverCheck, CodeShape
  <2>. QED BY <2>1, <2>2 DEF Vouched, GatesApprove, StageCompleted
<1>2. CASE ChainFence
  <2>1. op.at \in DeliverPlaces /\ op.banner = "plain"
    BY <1>2 DEF ChainFence, At, DeliverPlaces, OpShape, OpFields
  <2>2. UNCHANGED <<head, suite, log, junit, base, verdict, approvals, doc, pin>>
    BY <1>2 DEF ChainFence
  <2>. QED BY <2>1, <2>2 DEF PlainDelivery, Vouched, GatesApprove, StageCompleted
<1>3. CASE UNCHANGED runVars
  BY <1>3 DEF runVars, PlainDelivery, Vouched, GatesApprove, StageCompleted
<1>. QED BY <1>1, <1>2, <1>3, DeliverPlacesStep

\* Every step keeps a publication without a banner vouched for.
LEMMA PlainPublishedStep ==
  ASSUME OpShape, RunShape, CodeShape, OpRole, PlainDelivery, PlainPublished, [DeliveryNext]_runVars
  PROVE  PlainPublished'
<1>1. CASE Publish
  <2>. SUFFICES ASSUME pub'.banner = "plain" PROVE Vouched(pub.code)'
    BY DEF PlainPublished
  <2>1. op.at \in DeliverPlaces /\ op.banner = "plain" /\ pub'.code = head.code
    BY <1>1 DEF Publish, At, DeliverPlaces
  <2>2. Vouched(head.code)
    BY <2>1 DEF PlainDelivery
  <2>3. UNCHANGED <<head, suite, log, junit, base, verdict>>
    BY <1>1 DEF Publish
  <2>. QED BY <2>1, <2>2, <2>3 DEF Vouched, StageCompleted
<1>2. CASE ~Publish
  <2>1. pub' = pub
    BY <1>2 DEF DeliveryNext, runVars, AdmitFirst, AdmitAgain, AdmitStamp, EditInputs, Reaccept, KillDelivery, SetupBase, MeasureBase, Skip, WriteDoc, LogStage, StageRaises, RecordApproval, Respond, Build, ReviewBegin, ReviewCallRaises, ReviewRound, FixCommit, FixFence, FixScope, FixTest, FixReset, FixRefence, FixRetest, Conclude, DeliverCheck, ChainFence, PublishFails
  <2>. SUFFICES ASSUME pub.banner = "plain" PROVE Vouched(pub.code)'
    BY <2>1 DEF PlainPublished
  <2>2. PICK c : c = pub.code
    OBVIOUS
  <2>3. Vouched(c)'
    BY <2>2, VouchedStays DEF PlainPublished
  <2>. QED BY <2>1, <2>2, <2>3 DEF Vouched
<1>. QED BY <1>1, <1>2

\* An answer is of the document its stage completed with, and of the pinned inputs if it came after admission.
AnswerKept(g) ==
  answer[g].decision # "none" =>
    /\ StageCompleted(g) /\ answer[g].doc = doc[g]
    /\ stamp = "own" /\ pin # NoInputs /\ answer[g].late => answer[g].inputs = pin

\* A recorded approval is of an answer to that document, and of its inputs if it is dated.
ApprovalKept(g) ==
  approvals[g].decision # "none" =>
    /\ StageCompleted(g) /\ approvals[g].by.doc = doc[g]
    /\ approvals[g].dated => approvals[g].by.inputs = approvals[g].inputs

\* Every gate keeps its answer and its approval.
GatesKept == \A g \in GateStages : AnswerKept(g) /\ ApprovalKept(g)

\* The document of a completed gated stage stays.
LEMMA DocumentsStay ==
  ASSUME OpShape, RunShape, OpRole, [DeliveryNext]_runVars, NEW g \in GateStages, StageCompleted(g)
  PROVE  StageCompleted(g)' /\ doc'[g] = doc[g]
<1>1. g \in LineSet \ {"deliver"} /\ g \in DocStages \cap LineSet
  BY StageNames DEF DocStages
<1>2. StageCompleted(g)'
  BY <1>1, CompletedStays
<1>3. CASE WriteDoc
  <2>1. op.task # g
    BY <1>1, <1>3 DEF WriteDoc, Skippable, Done
  <2>. QED BY <1>1, <1>2, <1>3, <2>1 DEF WriteDoc, RunShape
<1>4. CASE ~WriteDoc
  <2>1. doc' = doc
    BY <1>4 DEF DeliveryNext, runVars, AdmitFirst, AdmitAgain, AdmitStamp, EditInputs, Reaccept, KillDelivery, SetupBase, MeasureBase, Skip, LogStage, StageRaises, RecordApproval, Respond, Build, ReviewBegin, ReviewCallRaises, ReviewRound, FixCommit, FixFence, FixScope, FixTest, FixReset, FixRefence, FixRetest, Conclude, DeliverCheck, ChainFence, Publish, PublishFails
  <2>. QED BY <1>2, <2>1
<1>. QED BY <1>3, <1>4

\* Every step keeps answers on their documents.
LEMMA AnswerStep ==
  ASSUME OpShape, RunShape, GateShape, OpRole, [DeliveryNext]_runVars, NEW g \in GateStages, AnswerKept(g)
  PROVE  AnswerKept(g)'
<1>1. CASE AdmitStamp
  <2>1. answer'[g].late = FALSE /\ answer'[g].decision = answer[g].decision /\ answer'[g].doc = answer[g].doc
    BY <1>1 DEF AdmitStamp, GateShape, Answers
  <2>. QED BY <2>1, DocumentsStay DEF AnswerKept
<1>2. ASSUME NEW h \in GateStages, NEW d \in {"approve", "reject"}, Respond(h, d) PROVE AnswerKept(g)'
  <2>1. UNCHANGED <<log, doc, pin, stamp>>
    BY <1>2 DEF Respond
  <2>2. CASE g = h
    <3>1. StageCompleted(g) /\ answer'[g].doc = doc[g] /\ answer'[g].inputs = pin
      BY <1>2, <2>2 DEF Respond, NewAnswer, GateShape
    <3>. QED BY <2>1, <3>1 DEF AnswerKept, StageCompleted
  <2>3. CASE g # h
    <3>1. answer'[g] = answer[g]
      BY <1>2, <2>3 DEF Respond, GateShape
    <3>. QED BY <2>1, <3>1 DEF AnswerKept, StageCompleted
  <2>. QED BY <2>2, <2>3
<1>3. ASSUME NEW t \in {"setup"} \cup LineSet, NEW r \in BOOLEAN, AdmitFirst(t, r) PROVE AnswerKept(g)'
  <2>1. UNCHANGED <<log, doc, answer>> /\ stamp' # "own"
    BY <1>3 DEF AdmitFirst
  <2>. QED BY <2>1 DEF AnswerKept, StageCompleted
<1>4. CASE Reaccept
  <2>1. UNCHANGED <<log, doc, answer>> /\ pin' = NoInputs
    BY <1>4 DEF Reaccept
  <2>. QED BY <2>1 DEF AnswerKept, StageCompleted, NoInputs
<1>5. CASE /\ ~AdmitStamp /\ ~Reaccept
           /\ ~\E h \in GateStages, d \in {"approve", "reject"} : Respond(h, d)
           /\ ~\E t \in {"setup"} \cup LineSet, r \in BOOLEAN : AdmitFirst(t, r)
  <2>1. UNCHANGED <<answer, pin, stamp>>
    BY <1>5 DEF DeliveryNext, runVars, AdmitAgain, EditInputs, KillDelivery, SetupBase, MeasureBase, Skip, WriteDoc, LogStage, StageRaises, RecordApproval, Build, ReviewBegin, ReviewCallRaises, ReviewRound, FixCommit, FixFence, FixScope, FixTest, FixReset, FixRefence, FixRetest, Conclude, DeliverCheck, ChainFence, Publish, PublishFails
  <2>. QED BY <2>1, DocumentsStay DEF AnswerKept
<1>. QED BY <1>1, <1>2, <1>3, <1>4, <1>5

\* Every step keeps approvals on their answers.
LEMMA ApprovalStep ==
  ASSUME OpShape, RunShape, GateShape, OpRole, [DeliveryNext]_runVars, NEW g \in GateStages, AnswerKept(g), ApprovalKept(g)
  PROVE  ApprovalKept(g)'
<1>1. CASE approvals'[g] = approvals[g]
  BY <1>1, DocumentsStay DEF ApprovalKept
<1>2. CASE RecordApproval(g) /\ approvals'[g] # approvals[g]
  <2>1. /\ ~AnsweredBeforeAdmission(g) /\ UNCHANGED <<log, doc>>
        /\ approvals'[g] = [decision |-> answer[g].decision, doc |-> doc[g], inputs |-> pin,
                            dated |-> stamp = "own", by |-> answer[g]]
    BY <1>2 DEF RecordApproval, GateShape
  <2>2. pin # NoInputs /\ answer[g].decision # "none"
    BY <1>2 DEF RecordApproval, OpRole
  <2>3. approvals'[g].by = answer[g] /\ approvals'[g].inputs = pin
    BY <2>1
  <2>6. ASSUME stamp # "own" PROVE ~approvals'[g].dated
    <3>1. (stamp = "own") = FALSE
      BY <2>6, Zenon
    <3>2. approvals'[g] = [decision |-> answer[g].decision, doc |-> doc[g], inputs |-> pin, dated |-> FALSE, by |-> answer[g]]
      BY <2>1, <3>1, Zenon
    <3>. QED BY <3>2
  <2>4. stamp = "own" => answer[g].late
    BY <2>1 DEF AnsweredBeforeAdmission
  <2>5. StageCompleted(g) /\ answer[g].doc = doc[g] /\ (stamp = "own" => answer[g].inputs = pin)
    BY <2>2, <2>4 DEF AnswerKept
  <2>. QED BY <2>1, <2>3, <2>5, <2>6 DEF ApprovalKept, StageCompleted
<1>3. ASSUME NEW h \in GateStages \ {g}, RecordApproval(h) PROVE approvals'[g] = approvals[g]
  BY <1>3 DEF RecordApproval, GateShape
<1>4. ASSUME ~\E h \in GateStages : RecordApproval(h) PROVE approvals' = approvals
  BY <1>4 DEF DeliveryNext, runVars, AdmitFirst, AdmitAgain, AdmitStamp, EditInputs, Reaccept, KillDelivery, SetupBase, MeasureBase, Skip, WriteDoc, LogStage, StageRaises, Respond, Build, ReviewBegin, ReviewCallRaises, ReviewRound, FixCommit, FixFence, FixScope, FixTest, FixReset, FixRefence, FixRetest, Conclude, DeliverCheck, ChainFence, Publish, PublishFails
<1>. QED BY <1>1, <1>2, <1>3, <1>4

\* The inductive invariant of the line.
DeliveryInv ==
  /\ OpShape /\ RunShape /\ GateShape /\ CodeShape
  /\ OpRole /\ UsedIsPrefix /\ CodesInUse
  /\ Delivering /\ ReviewedHead /\ PlainDelivery /\ PlainPublished
  /\ GatesKept

\* A run starts with no document, no approval and nothing published.
LEMMA DeliveryInitially == DeliveryInit => DeliveryInv
<1>. SUFFICES ASSUME DeliveryInit PROVE DeliveryInv
  OBVIOUS
<1>1. OpShape
  BY CodesAreNats DEF DeliveryInit, OpShape, OpFields, Places, Free, CodesOr
<1>2. RunShape
  BY DEF DeliveryInit, RunShape, NoInputs, CodesOr
<1>3. GateShape
  BY DEF DeliveryInit, GateShape, NoAnswer, NoApproval, Answers, Approvals, Decisions, NoInputs
<1>4. CodeShape
  BY CodesAreNats DEF DeliveryInit, CodeShape, NoReview, NoPub, CodesOr, Suites
<1>5. \A s \in LineSet : ~StageCompleted(s)
  BY DEF DeliveryInit, StageCompleted
<1>6. OpRole
  BY StageNames DEF DeliveryInit, OpRole, Free, ReviewPlaces, DeliverPlaces, DocStages
<1>7. UsedIsPrefix
  <2>1. Used = {}
    BY DEF DeliveryInit, Used
  <2>2. {} = 1 .. 0 /\ 0 \in Nat
    OBVIOUS
  <2>. QED BY <2>1, <2>2 DEF UsedIsPrefix
<1>8. CodesInUse
  BY DEF DeliveryInit, CodesInUse, Free, NoPub
<1>9. Delivering /\ PlainDelivery /\ PlainPublished
  BY DEF DeliveryInit, Delivering, PlainDelivery, PlainPublished, Free, NoPub, DeliverPlaces
<1>10. ReviewedHead
  BY <1>5, StageNames DEF DeliveryInit, ReviewedHead, Free
<1>11. GatesKept
  BY DEF DeliveryInit, GatesKept, AnswerKept, ApprovalKept, NoAnswer, NoApproval
<1>. QED BY <1>1, <1>2, <1>3, <1>4, <1>6, <1>7, <1>8, <1>9, <1>10, <1>11 DEF DeliveryInv

\* The invariant holds for every line, every set of gates and every bound.
THEOREM DeliveryInvariant == DeliverySpec => []DeliveryInv
<1>1. ASSUME DeliveryInv, [DeliveryNext]_runVars PROVE DeliveryInv'
  <2>1. /\ OpShape /\ RunShape /\ GateShape /\ CodeShape
        /\ OpRole /\ UsedIsPrefix /\ CodesInUse
        /\ Delivering /\ ReviewedHead /\ PlainDelivery /\ PlainPublished
        /\ GatesKept
    BY <1>1 DEF DeliveryInv
  <2>2. OpShape' /\ RunShape' /\ GateShape' /\ CodeShape'
    BY <1>1, <2>1, OpShapeStep, RunShapeStep, GateShapeStep, CodeShapeStep
  <2>3. OpRole' /\ UsedIsPrefix' /\ CodesInUse' /\ Delivering'
    BY <1>1, <2>1, OpRoleStep, UsedStep, CodesInUseStep, DeliveringStep
  <2>4. ReviewedHead' /\ PlainDelivery' /\ PlainPublished'
    BY <1>1, <2>1, ReviewedHeadStep, PlainDeliveryStep, PlainPublishedStep
  <2>5. GatesKept'
    BY <1>1, <2>1, AnswerStep, ApprovalStep DEF GatesKept
  <2>. QED BY <2>2, <2>3, <2>4, <2>5 DEF DeliveryInv
<1>. QED BY <1>1, DeliveryInitially, PTL DEF DeliverySpec

\* PublishedCodeVouchedFor for every line and every bound: code published without a banner is measured against the
\* base and reviewed.
THEOREM PublishedVouched == DeliverySpec => []PublishedCodeVouchedFor
<1>1. ASSUME DeliveryInv PROVE PublishedCodeVouchedFor
  <2>1. PlainPublished /\ CodesInUse
    BY <1>1 DEF DeliveryInv
  <2>. QED BY <2>1 DEF PlainPublished, CodesInUse, Vouched, PublishedCodeVouchedFor, PublishedCodeKeepsBase,
         PublishedCodeWasReviewed, Plain
<1>. QED BY <1>1, DeliveryInvariant, PTL

\* PublishedOnItsApprovals for every line and every bound: a publication without a banner stands on decisions
\* given on the documents in the chain.
THEOREM PublishedApproved == DeliverySpec => PublishedOnItsApprovals
<1>1. ASSUME DeliveryInv, [DeliveryNext]_runVars, pub' # pub, pub'.banner = "plain"
      PROVE  \A g \in GateStages : /\ approvals[g].decision = "approve" /\ approvals[g].by.doc = doc[g]
                                   /\ approvals[g].dated => approvals[g].by.inputs = pin
  <2>1. Publish
    BY <1>1 DEF DeliveryNext, runVars, AdmitFirst, AdmitAgain, AdmitStamp, EditInputs, Reaccept, KillDelivery, SetupBase, MeasureBase, Skip, WriteDoc, LogStage, StageRaises, RecordApproval, Respond, Build, ReviewBegin, ReviewCallRaises, ReviewRound, FixCommit, FixFence, FixScope, FixTest, FixReset, FixRefence, FixRetest, Conclude, DeliverCheck, ChainFence, PublishFails
  <2>2. PlainDelivery /\ GatesKept
    BY <1>1 DEF DeliveryInv
  <2>3. op.at \in DeliverPlaces /\ op.banner = "plain"
    BY <1>1, <2>1 DEF Publish, At, DeliverPlaces
  <2>4. GatesApprove
    BY <2>2, <2>3 DEF PlainDelivery
  <2>. QED BY <2>2, <2>4 DEF GatesApprove, GatesKept, ApprovalKept
<1>. QED BY <1>1, DeliveryInvariant, PTL DEF DeliverySpec, PublishedOnItsApprovals

------------------------------------------------------------------------------
\* The build stage.

\* What the records of the stage are made of.
JournalFields == {"open", "head", "calls", "attempt", "nodes", "repairs", "verified", "best", "revert"}
BuildFields   == {"at", "next", "target", "tests", "best", "round"}
RepairRows    == [call : Nat, head : Nat, verdict : {Nothing, "kept", "reverted"}]

\* The fields of the journal and of the task, and the types of the checkout and of the calls.
BuildShape ==
  /\ DOMAIN journal = JournalFields /\ DOMAIN build = BuildFields /\ build.round \in Nat
  /\ repo \in [head : Nat, dirty : BOOLEAN]
  /\ asked \in Seq(Nat)

\* A commit that exists: it is older than the next one to be made, and contains itself.
KnownCommit(c) ==
  /\ c \in Commits /\ c <= Len(asked)
  /\ build.at = "commit" => c < Len(asked)
  /\ c # 0 => c \in tree[c]

\* The heads the stage works with exist, and no tree holds a commit that is still to be made.
CommitsKnown ==
  /\ KnownCommit(repo.head) /\ KnownCommit(journal.head) /\ KnownCommit(journal.best.head)
  /\ tree \in [Commits -> SUBSET Nat] /\ tree[0] = {}
  /\ \A c \in Commits : \A d \in tree[c] : d # 0 /\ d <= Len(asked) /\ (build.at = "commit" => d < Len(asked))

\* The attempt in flight starts from the checkpoint, and made at most one commit on it.
InFlight ==
  /\ ~journal.open => journal.head = 0 /\ repo.head = 0 /\ journal.repairs = <<>> /\ ~journal.revert.on
  /\ journal.attempt = NoAttempt => ~repo.dirty
  /\ journal.attempt # NoAttempt =>
       /\ journal.open /\ ~journal.revert.on
       /\ journal.attempt.input = journal.head /\ journal.attempt.kind \in {"node", "repair"}
       /\ journal.attempt.call \in Nat
       /\ repo.head # journal.head =>
            /\ ~repo.dirty /\ repo.head # 0
            /\ tree[repo.head] = tree[journal.head] \cup {repo.head}
  /\ journal.revert.on => journal.revert.to = journal.best.head /\ journal.best # NoBest

\* Every repair but the last has its verdict, and repairs start after all nodes are done and measured.
RepairsJudged ==
  /\ journal.repairs \in Seq(RepairRows)
  /\ \A i \in 1 .. Len(journal.repairs) : i < Len(journal.repairs) => journal.repairs[i].verdict # Nothing
  /\ journal.repairs # <<>> \/ journal.attempt.kind = "repair" => journal.best # NoBest
  /\ journal.best # NoBest => Pending = {} /\ journal.attempt.kind # "node"
  /\ journal.attempt # NoAttempt \/ journal.revert.on => ~JudgePending

\* The commits of the nodes, of the repairs that are not reverted, and of those that won.
NodeHeads == {r.head : r \in journal.nodes}
KeptOf(rs) == {rs[i].head : i \in {j \in DOMAIN rs : rs[j].verdict # "reverted"}}
WonOf(rs)  == {rs[i].head : i \in {j \in DOMAIN rs : rs[j].verdict = "kept"}}

\* A head that holds the work of every node, accepted repairs and nothing that left its scope.
Accepted(h, repairs) ==
  /\ NodeHeads \ {0} \subseteq tree[h]
  /\ tree[h] \subseteq NodeHeads \cup repairs
  /\ tree[h] \cap escaped = {}

\* The checkpoint holds accepted work, and so does the best candidate, with repairs that won only.
AcceptedWork ==
  /\ ~journal.revert.on => Accepted(journal.head, KeptOf(journal.repairs))
  /\ journal.best # NoBest => Accepted(journal.best.head, WonOf(journal.repairs))

\* The agent is asked under numbers that only grow.
CallsCounted ==
  /\ journal.calls \in Nat /\ Len(asked) <= journal.calls /\ journal.calls <= MaxCalls
  /\ \A i \in 1 .. Len(asked) : asked[i] <= journal.calls
  /\ \A i, j \in 1 .. Len(asked) : asked[i] = asked[j] => i = j
  /\ build.at = "agent" => /\ journal.attempt.call = journal.calls /\ Len(asked) < journal.calls
                           /\ \A i \in 1 .. Len(asked) : asked[i] < journal.calls

\* What holds at each step of the task.
Measuring == {"test", "judge", "repair", "done"}
\* The places of the task when the plan has work.
WorkPlaces == {"idle", "refused", "nodes", "agent", "commit", "fence", "settle", "reset", "refence", "reverted",
               "strike", "struck"} \cup Measuring

\* What the task may rely on where it is, when the plan has work.
AtPlace ==
  /\ build.round = 0 /\ build.at \in WorkPlaces
  /\ build.at \in Measuring \cup {"nodes"} =>
       fence = repo.head /\ repo.head = journal.head /\ journal.attempt = NoAttempt /\ ~journal.revert.on
  /\ build.at \in Measuring => Pending = {}
  /\ build.at \in {"judge", "done"} => journal.verified = [head |-> journal.head, tests |-> build.tests]
  /\ build.at = "repair" => journal.best # NoBest /\ ~JudgePending
  /\ build.at = "done" => journal.best.head = journal.head /\ Green(build.tests)
  /\ build.at \in {"agent", "commit", "fence", "settle", "strike", "struck"} => journal.attempt # NoAttempt
  /\ build.at \in {"agent", "commit", "strike", "struck"} => fence = repo.head /\ repo.head = journal.head
  /\ build.at \in {"fence", "settle", "strike", "struck", "reverted", "refence"} => ~repo.dirty
  /\ build.at = "settle" => /\ fence = repo.head /\ build.next \in {"nodes", "test"}
                            /\ build.next = "test" => journal.attempt.kind = "repair"
  /\ build.at \in {"reset", "refence"} =>
       \/ build.next = "reverted" /\ journal.revert.on /\ build.target = journal.revert.to
       \/ build.next \in {"strike", "struck"} /\ journal.attempt # NoAttempt /\ build.target = journal.head
  /\ build.at = "refence" => repo.head = build.target
  /\ build.at = "reverted" => journal.revert.on /\ repo.head = journal.revert.to /\ fence = repo.head

\* The inductive invariant of a plan with work.
WorkInv == CommitsKnown /\ InFlight /\ RepairsJudged /\ AcceptedWork /\ CallsCounted /\ AtPlace

\* What holds at each step of the legacy loop.
LegacyPlace ==
  /\ build.at \in {"idle", "refused", "legacy", "agent", "commit", "fence", "scope", "legacytest", "reset", "refence", "done"}
  /\ build.at \in {"agent", "commit", "fence"} => build.round # 0
  /\ build.at \in {"fence", "scope", "legacytest", "done"} => ~repo.dirty
  /\ build.at \in {"scope", "legacytest", "done"} => fence = repo.head
  /\ build.at \in {"reset", "refence"} => build.next \in {"idle", "legacy"}
  /\ build.at = "done" => repo.head = build.best.head /\ Green(build.tests)
  /\ build.best.head \in Nat
  /\ build.at = "reset" => build.target \in Nat

\* The inductive invariant of the build stage.
BuildInv == BuildShape /\ (plan # {} => WorkInv) /\ (plan = {} => LegacyPlace)

\* q is rs with verdict v written in the last row.
VerdictGiven(rs, q, v) ==
  /\ q \in Seq(RepairRows) /\ Len(q) = Len(rs) /\ q # <<>>
  /\ q[Len(rs)].verdict = v
  /\ \A i \in 1 .. Len(rs) : q[i].head = rs[i].head /\ (i < Len(rs) => q[i].verdict = rs[i].verdict)

\* Writing the verdict of the last repair leaves the others and the heads alone.
LEMMA VerdictWritten ==
  ASSUME journal.repairs \in Seq(RepairRows), journal.repairs # <<>>, NEW v \in {"kept", "reverted"}
  PROVE  VerdictGiven(journal.repairs, Verdict(v), v)
<1>. DEFINE rs   == journal.repairs
            q    == Verdict(v)
            last == [rs[Len(rs)] EXCEPT !.verdict = v]
<1>1. Len(rs) \in Nat /\ Len(rs) >= 1 /\ rs[Len(rs)] \in RepairRows /\ DOMAIN rs = 1 .. Len(rs)
  OBVIOUS
<1>2. last \in RepairRows /\ last.head = rs[Len(rs)].head /\ last.verdict = v
  BY <1>1 DEF RepairRows
<1>3. q = [rs EXCEPT ![Len(rs)] = last]
  BY DEF Verdict
<1>. HIDE DEF last, q
<1>4. q \in [1 .. Len(rs) -> RepairRows]
  BY <1>1, <1>2, <1>3
<1>5. q \in Seq(RepairRows) /\ Len(q) = Len(rs)
  BY <1>1, <1>4
<1>6. q[Len(rs)] = last /\ \A i \in 1 .. Len(rs) : i < Len(rs) => q[i] = rs[i]
  BY <1>1, <1>3
<1>. QED BY <1>1, <1>2, <1>4, <1>5, <1>6 DEF q, VerdictGiven

\* The task moves; nothing durable but the fence changes.
LEMMA BuildMoves ==
  ASSUME BuildShape, WorkInv, plan' = plan, DOMAIN build' = BuildFields, build'.round \in Nat, build'.at \notin {"agent", "commit"},
         AtPlace', UNCHANGED <<repo, tree, escaped, journal, asked>>
  PROVE  BuildShape' /\ WorkInv'
<1>1. CommitsKnown /\ InFlight /\ RepairsJudged /\ AcceptedWork /\ CallsCounted /\ AtPlace
  BY DEF WorkInv
<1>2. /\ asked \in Seq(Nat) /\ repo \in [head : Nat, dirty : BOOLEAN] /\ MaxCalls \in Nat /\ build.round \in Nat
      /\ repo.head \in Commits /\ journal.head \in Commits /\ journal.best.head \in Commits
      /\ tree \in [Commits -> SUBSET Nat] /\ Commits \subseteq Nat
  BY <1>1, BuildAssumption DEF BuildShape, CommitsKnown, KnownCommit, Commits
<1>20. BuildShape'
  BY <1>1, <1>2 DEF BuildShape
<1>21. CommitsKnown'
  BY <1>1, <1>2 DEF CommitsKnown, KnownCommit
<1>22. InFlight'
  BY <1>1, <1>2 DEF InFlight
<1>23. RepairsJudged'
  BY <1>1, <1>2 DEF RepairsJudged, Pending, Completed, JudgePending
<1>24. AcceptedWork'
  BY <1>1, <1>2 DEF AcceptedWork, Accepted, NodeHeads
<1>25. CallsCounted'
  BY <1>1, <1>2 DEF CallsCounted
<1>26. AtPlace'
  OBVIOUS
<1>. QED BY <1>20, <1>21, <1>22, <1>23, <1>24, <1>25, <1>26 DEF WorkInv

\* git reset --hard and git clean.
LEMMA BuildResets ==
  ASSUME BuildShape, WorkInv, plan' = plan, build.at = "reset", repo' = [head |-> build.target, dirty |-> FALSE],
         DOMAIN build' = BuildFields, build'.at = "refence", build'.next = build.next, build'.target = build.target,
         build'.tests = build.tests, build'.best = build.best, build'.round = build.round,
         UNCHANGED <<tree, escaped, fence, journal, asked>>
  PROVE  BuildShape' /\ WorkInv'
<1>1. CommitsKnown /\ InFlight /\ RepairsJudged /\ AcceptedWork /\ CallsCounted /\ AtPlace
  BY DEF WorkInv
<1>2. /\ asked \in Seq(Nat) /\ repo \in [head : Nat, dirty : BOOLEAN] /\ MaxCalls \in Nat /\ build.round \in Nat
      /\ repo.head \in Commits /\ journal.head \in Commits /\ journal.best.head \in Commits
      /\ tree \in [Commits -> SUBSET Nat] /\ Commits \subseteq Nat
  BY <1>1, BuildAssumption DEF BuildShape, CommitsKnown, KnownCommit, Commits
<1>3. /\ KnownCommit(build.target) /\ build.target \in Nat
      /\ journal.attempt # NoAttempt => build.target = journal.head
      /\ ~journal.revert.on => journal.attempt # NoAttempt
  BY <1>1, <1>2 DEF AtPlace, InFlight, CommitsKnown, Measuring
<1>20. BuildShape'
  BY <1>1, <1>2, <1>3 DEF BuildShape
<1>21. CommitsKnown'
  BY <1>1, <1>2, <1>3 DEF CommitsKnown, KnownCommit
<1>22. InFlight'
  BY <1>1, <1>2, <1>3 DEF InFlight
<1>23. RepairsJudged'
  BY <1>1, <1>2, <1>3 DEF RepairsJudged, Pending, Completed, JudgePending
<1>24. AcceptedWork'
  BY <1>1, <1>2, <1>3 DEF AcceptedWork, Accepted, NodeHeads
<1>25. CallsCounted'
  BY <1>1, <1>2, <1>3 DEF CallsCounted
<1>26. AtPlace'
  BY <1>1, <1>2, <1>3 DEF AtPlace, Measuring, WorkPlaces, Pending, Completed, JudgePending
<1>. QED BY <1>20, <1>21, <1>22, <1>23, <1>24, <1>25, <1>26 DEF WorkInv

\* A paid attempt is journalled.
LEMMA BuildAttempts ==
  ASSUME BuildShape, WorkInv, plan' = plan, NEW kind \in {"node", "repair"}, NEW id, build.at = IF kind = "node" THEN "nodes" ELSE "repair",
         kind = "node" => Pending # {}, journal.calls # MaxCalls, DOMAIN journal' = JournalFields, journal'.open = TRUE,
         journal'.head = journal.head, journal'.calls = journal.calls + 1,
         journal'.attempt = [kind |-> kind, id |-> id, input |-> repo.head, call |-> journal.calls + 1],
         journal'.nodes = journal.nodes, journal'.repairs = journal.repairs, journal'.verified = journal.verified,
         journal'.best = journal.best, journal'.revert = journal.revert, DOMAIN build' = BuildFields,
         build'.at = "agent", build'.next = build.next, build'.target = build.target, build'.tests = build.tests,
         build'.best = build.best, build'.round = build.round, UNCHANGED <<repo, tree, escaped, fence, asked>>
  PROVE  BuildShape' /\ WorkInv'
<1>1. CommitsKnown /\ InFlight /\ RepairsJudged /\ AcceptedWork /\ CallsCounted /\ AtPlace
  BY DEF WorkInv
<1>2. /\ asked \in Seq(Nat) /\ repo \in [head : Nat, dirty : BOOLEAN] /\ MaxCalls \in Nat /\ build.round \in Nat
      /\ repo.head \in Commits /\ journal.head \in Commits /\ journal.best.head \in Commits
      /\ tree \in [Commits -> SUBSET Nat] /\ Commits \subseteq Nat
  BY <1>1, BuildAssumption DEF BuildShape, CommitsKnown, KnownCommit, Commits
<1>3. /\ fence = repo.head /\ repo.head = journal.head /\ journal.attempt = NoAttempt /\ ~journal.revert.on /\ ~repo.dirty
      /\ kind = "repair" => journal.best # NoBest /\ ~JudgePending
      /\ kind = "node" => journal.best = NoBest
  BY <1>1 DEF AtPlace, Measuring, InFlight, RepairsJudged
<1>4. /\ journal'.attempt # NoAttempt /\ journal'.attempt.kind = kind /\ journal'.attempt.input = repo.head
      /\ journal'.attempt.call = journal.calls + 1 /\ journal.calls \in Nat
  BY <1>1 DEF NoAttempt, Nothing, CallsCounted
<1>5. kind = "node" => journal.repairs = <<>>
  BY <1>1, <1>3 DEF RepairsJudged
<1>20. BuildShape'
  BY <1>1, <1>2, <1>3, <1>4, <1>5 DEF BuildShape
<1>21. CommitsKnown'
  BY <1>1, <1>2, <1>3, <1>4, <1>5 DEF CommitsKnown, KnownCommit
<1>22. InFlight'
  BY <1>1, <1>2, <1>3, <1>4, <1>5 DEF InFlight
<1>23. RepairsJudged'
  BY <1>1, <1>2, <1>3, <1>4, <1>5 DEF RepairsJudged, Pending, Completed, JudgePending
<1>24. AcceptedWork'
  BY <1>1, <1>2, <1>3, <1>4, <1>5 DEF AcceptedWork, Accepted, NodeHeads
<1>25. CallsCounted'
  BY <1>1, <1>2, <1>3, <1>4, <1>5 DEF CallsCounted
<1>26. AtPlace'
  BY <1>1, <1>2, <1>3, <1>4, <1>5 DEF AtPlace, Measuring, WorkPlaces, Pending, Completed, JudgePending
<1>. QED BY <1>20, <1>21, <1>22, <1>23, <1>24, <1>25, <1>26 DEF WorkInv

\* The agent answers, or raises.
LEMMA BuildAnswers ==
  ASSUME BuildShape, WorkInv, plan' = plan, build.at = "agent", asked' = Append(asked, journal.attempt.call), NEW changes \in BOOLEAN,
         repo' = [repo EXCEPT !.dirty = changes], DOMAIN build' = BuildFields, build'.round \in Nat, AtPlace',
         build'.at # "agent", UNCHANGED <<tree, escaped, fence, journal>>
  PROVE  BuildShape' /\ WorkInv'
<1>1. CommitsKnown /\ InFlight /\ RepairsJudged /\ AcceptedWork /\ CallsCounted /\ AtPlace
  BY DEF WorkInv
<1>2. /\ asked \in Seq(Nat) /\ repo \in [head : Nat, dirty : BOOLEAN] /\ MaxCalls \in Nat /\ build.round \in Nat
      /\ repo.head \in Commits /\ journal.head \in Commits /\ journal.best.head \in Commits
      /\ tree \in [Commits -> SUBSET Nat] /\ Commits \subseteq Nat
  BY <1>1, BuildAssumption DEF BuildShape, CommitsKnown, KnownCommit, Commits
<1>3. journal.attempt # NoAttempt /\ journal.attempt.call \in Nat /\ repo.head = journal.head /\ repo'.head = repo.head
  BY <1>1, <1>2 DEF AtPlace, InFlight
<1>4. repo' \in [head : Nat, dirty : BOOLEAN]
  BY <1>2
<1>5. asked' \in Seq(Nat)
  BY <1>2, <1>3
<1>20. BuildShape'
  BY <1>1, <1>2, <1>3, <1>4, <1>5 DEF BuildShape
<1>21. CommitsKnown'
  BY <1>1, <1>2, <1>3, <1>4, <1>5 DEF CommitsKnown, KnownCommit, AtPlace
<1>22. InFlight'
  BY <1>1, <1>2, <1>3, <1>4, <1>5 DEF InFlight, AtPlace
<1>23. RepairsJudged'
  BY <1>1, <1>2, <1>3, <1>4, <1>5 DEF RepairsJudged, Pending, Completed, JudgePending
<1>24. AcceptedWork'
  BY <1>1, <1>2, <1>3, <1>4, <1>5 DEF AcceptedWork, Accepted, NodeHeads
<1>25. CallsCounted'
  BY <1>1, <1>2, <1>3, <1>4, <1>5 DEF CallsCounted
<1>26. AtPlace'
  OBVIOUS
<1>. QED BY <1>20, <1>21, <1>22, <1>23, <1>24, <1>25, <1>26 DEF WorkInv

\* A commit is made.
LEMMA BuildCommits ==
  ASSUME BuildShape, WorkInv, plan' = plan, build.at = "commit", NEW out \in BOOLEAN, repo' = [head |-> Len(asked), dirty |-> FALSE],
         tree' = [tree EXCEPT ![Len(asked)] = tree[repo.head] \cup {Len(asked)}],
         escaped' = IF out THEN escaped \cup {Len(asked)} ELSE escaped, DOMAIN build' = BuildFields,
         build'.at = "fence", build'.next = build.next, build'.target = build.target, build'.tests = build.tests,
         build'.best = build.best, build'.round = build.round, UNCHANGED <<fence, journal, asked>>
  PROVE  BuildShape' /\ WorkInv'
<1>1. CommitsKnown /\ InFlight /\ RepairsJudged /\ AcceptedWork /\ CallsCounted /\ AtPlace
  BY DEF WorkInv
<1>2. /\ asked \in Seq(Nat) /\ repo \in [head : Nat, dirty : BOOLEAN] /\ MaxCalls \in Nat /\ build.round \in Nat
      /\ repo.head \in Commits /\ journal.head \in Commits /\ journal.best.head \in Commits
      /\ tree \in [Commits -> SUBSET Nat] /\ Commits \subseteq Nat
  BY <1>1, BuildAssumption DEF BuildShape, CommitsKnown, KnownCommit, Commits
<1>3. /\ Len(asked) \in Commits /\ Len(asked) # 0 /\ journal.attempt # NoAttempt /\ repo.head = journal.head
      /\ journal.head < Len(asked) /\ journal.best.head < Len(asked)
  BY <1>1, <1>2 DEF AtPlace, CommitsKnown, KnownCommit, CallsCounted, Commits
<1>4. /\ tree' \in [Commits -> SUBSET Nat] /\ tree'[Len(asked)] = tree[journal.head] \cup {Len(asked)}
      /\ \A c \in Commits \ {Len(asked)} : tree'[c] = tree[c]
  BY <1>2, <1>3
<1>5. tree'[journal.head] = tree[journal.head] /\ tree'[journal.best.head] = tree[journal.best.head]
  BY <1>2, <1>3, <1>4
<1>6. Len(asked) \notin tree[journal.head] /\ Len(asked) \notin tree[journal.best.head]
  <2>1. \A c \in {journal.head, journal.best.head} : \A d \in tree[c] : d < Len(asked)
    BY <1>1, <1>2 DEF CommitsKnown
  <2>. QED BY <1>2, <2>1
<1>20. BuildShape'
  BY <1>1, <1>2 DEF BuildShape
<1>21. CommitsKnown'
  <2>1. KnownCommit(journal.head)' /\ KnownCommit(journal.best.head)'
    BY <1>1, <1>2, <1>3, <1>5 DEF CommitsKnown, KnownCommit
  <2>2. KnownCommit(repo.head)'
    BY <1>3, <1>4 DEF KnownCommit
  <2>3. tree'[0] = {}
    BY <1>1, <1>2, <1>3, <1>4 DEF CommitsKnown
  <2>4. ASSUME NEW c \in Commits, NEW d \in tree'[c] PROVE d # 0 /\ d <= Len(asked)
    <3>1. CASE c = Len(asked)
      BY <1>1, <1>2, <1>3, <1>4, <2>4, <3>1 DEF CommitsKnown
    <3>2. CASE c # Len(asked)
      BY <1>1, <1>2, <1>3, <1>4, <2>4, <3>2 DEF CommitsKnown
    <3>. QED BY <3>1, <3>2
  <2>. QED BY <1>4, <2>1, <2>2, <2>3, <2>4 DEF CommitsKnown
<1>22. InFlight'
  BY <1>1, <1>2, <1>3, <1>4, <1>5 DEF InFlight
<1>23. RepairsJudged'
  BY <1>1, <1>2 DEF RepairsJudged, Pending, Completed, JudgePending
<1>24. AcceptedWork'
  BY <1>1, <1>2, <1>5, <1>6 DEF AcceptedWork, Accepted, NodeHeads
<1>25. CallsCounted'
  BY <1>1, <1>2 DEF CallsCounted
<1>26. AtPlace'
  BY <1>1, <1>2 DEF AtPlace, Measuring, WorkPlaces, Pending, Completed, JudgePending
<1>. QED BY <1>20, <1>21, <1>22, <1>23, <1>24, <1>25, <1>26 DEF WorkInv

\* The receipt of an attempt is stored.
LEMMA BuildSettles ==
  ASSUME BuildShape, WorkInv, plan' = plan, build.at = "settle", ~OutOfScope(journal.attempt.input, repo.head), NEW nodes, NEW repairs,
         nodes = IF journal.attempt.kind = "node" THEN journal.nodes \cup {[id |-> journal.attempt.id, call |-> journal.attempt.call, head |-> repo.head]} ELSE journal.nodes,
         repairs = IF journal.attempt.kind = "repair" THEN Append(journal.repairs, [call |-> journal.attempt.call, head |-> repo.head, verdict |-> Nothing]) ELSE journal.repairs,
         DOMAIN journal' = JournalFields, journal'.open = journal.open, journal'.head = repo.head,
         journal'.calls = journal.calls, journal'.attempt = NoAttempt, journal'.nodes = nodes,
         journal'.repairs = repairs, journal'.verified = journal.verified, journal'.best = journal.best,
         journal'.revert = journal.revert, DOMAIN build' = BuildFields, build'.at = build.next,
         build'.next = build.next, build'.target = build.target, build'.tests = build.tests, build'.best = build.best,
         build'.round = build.round, UNCHANGED <<repo, tree, escaped, fence, asked>>
  PROVE  BuildShape' /\ WorkInv'
<1>1. CommitsKnown /\ InFlight /\ RepairsJudged /\ AcceptedWork /\ CallsCounted /\ AtPlace
  BY DEF WorkInv
<1>2. /\ asked \in Seq(Nat) /\ repo \in [head : Nat, dirty : BOOLEAN] /\ MaxCalls \in Nat /\ build.round \in Nat
      /\ repo.head \in Commits /\ journal.head \in Commits /\ journal.best.head \in Commits
      /\ tree \in [Commits -> SUBSET Nat] /\ Commits \subseteq Nat
  BY <1>1, BuildAssumption DEF BuildShape, CommitsKnown, KnownCommit, Commits
<1>3. /\ journal.attempt # NoAttempt /\ journal.attempt.input = journal.head /\ journal.attempt.kind \in {"node", "repair"}
      /\ journal.attempt.call \in Nat /\ journal.open /\ ~journal.revert.on /\ ~JudgePending /\ ~repo.dirty /\ fence = repo.head
      /\ repo.head # journal.head => repo.head # 0 /\ tree[repo.head] = tree[journal.head] \cup {repo.head}
      /\ build.next \in {"nodes", "test"} /\ (build.next = "test" => journal.attempt.kind = "repair")
      /\ (repo.head # 0 => repo.head \in tree[repo.head])
  BY <1>1 DEF AtPlace, InFlight, RepairsJudged, CommitsKnown, KnownCommit
<1>4. repo.head # journal.head => repo.head \notin escaped
  BY <1>3 DEF OutOfScope
<1>5. journal.repairs \in Seq(RepairRows) /\ [call |-> journal.attempt.call, head |-> repo.head, verdict |-> Nothing] \in RepairRows
  BY <1>1, <1>2, <1>3 DEF RepairsJudged, RepairRows
<1>6. NoAttempt.kind = Nothing
  BY DEF NoAttempt
<1>7. KeptOf(journal.repairs) \subseteq KeptOf(repairs) /\ WonOf(journal.repairs) = WonOf(repairs)
  <2>1. CASE journal.attempt.kind = "node"
    BY <2>1
  <2>2. CASE journal.attempt.kind = "repair"
    <3>1. /\ Len(repairs) = Len(journal.repairs) + 1 /\ DOMAIN repairs = 1 .. Len(journal.repairs) + 1 /\ DOMAIN journal.repairs = 1 .. Len(journal.repairs)
          /\ repairs[Len(journal.repairs) + 1].verdict = Nothing
          /\ \A i \in 1 .. Len(journal.repairs) : repairs[i] = journal.repairs[i]
      BY <1>5, <2>2
    <3>2. Nothing \notin {"kept", "reverted"}
      BY DEF Nothing
    <3>3. Len(journal.repairs) \in Nat
      BY <1>5
    <3>. HIDE DEF Nothing
    <3>. QED BY <3>1, <3>2, <3>3 DEF KeptOf, WonOf
  <2>. QED BY <1>3, <2>1, <2>2
<1>8. journal.attempt.kind = "repair" => repo.head \in KeptOf(repairs)
  <2>1. SUFFICES ASSUME journal.attempt.kind = "repair" PROVE repo.head \in KeptOf(repairs)
    OBVIOUS
  <2>2. /\ Len(journal.repairs) + 1 \in DOMAIN repairs /\ repairs[Len(journal.repairs) + 1].verdict = Nothing
        /\ repairs[Len(journal.repairs) + 1].head = repo.head
    BY <1>5, <2>1
  <2>. QED BY <2>2 DEF KeptOf, Nothing
<1>20. BuildShape'
  BY <1>1, <1>2, <1>3 DEF BuildShape
<1>21. CommitsKnown'
  BY <1>1, <1>2, <1>3 DEF CommitsKnown, KnownCommit
<1>22. InFlight'
  BY <1>1, <1>3 DEF InFlight
<1>23. RepairsJudged'
  <2>1. CASE journal.attempt.kind = "node"
    <3>1. repairs = journal.repairs /\ repairs = <<>> /\ journal.best = NoBest
      BY <1>1, <2>1 DEF RepairsJudged
    <3>. QED BY <1>1, <1>3, <1>6, <3>1 DEF RepairsJudged, JudgePending, Nothing
  <2>2. CASE journal.attempt.kind = "repair"
    <3>1. repairs \in Seq(RepairRows) /\ Len(repairs) = Len(journal.repairs) + 1 /\ \A i \in 1 .. Len(journal.repairs) : repairs[i] = journal.repairs[i]
      BY <1>5, <2>2
    <3>2. journal.best # NoBest /\ Pending = {} /\ Pending' = Pending
      BY <1>1, <2>2 DEF RepairsJudged, Pending, Completed
    <3>3. ASSUME NEW i \in 1 .. Len(repairs), i < Len(repairs) PROVE repairs[i].verdict # Nothing
      <4>1. i \in 1 .. Len(journal.repairs) /\ repairs[i] = journal.repairs[i]
        BY <1>5, <3>1, <3>3
      <4>2. CASE i < Len(journal.repairs)
        BY <1>1, <4>1, <4>2 DEF RepairsJudged
      <4>3. CASE i = Len(journal.repairs)
        BY <1>3, <1>5, <4>1, <4>3 DEF JudgePending
      <4>. QED BY <1>5, <4>1, <4>2, <4>3
    <3>4. journal'.attempt = NoAttempt /\ journal'.attempt.kind # "node" /\ ~journal'.revert.on
      BY <1>3, <1>6 DEF Nothing
    <3>. QED BY <3>1, <3>2, <3>3, <3>4 DEF RepairsJudged
  <2>. QED BY <1>3, <2>1, <2>2
<1>24. AcceptedWork'
  <2>1. NodeHeads' = NodeHeads \cup (IF journal.attempt.kind = "node" THEN {repo.head} ELSE {})
    <3>1. CASE journal.attempt.kind = "node"
      <4>. DEFINE new == [id |-> journal.attempt.id, call |-> journal.attempt.call, head |-> repo.head]
      <4>1. new.head = repo.head /\ journal'.nodes = journal.nodes \cup {new}
        BY <3>1
      <4>. HIDE DEF new
      <4>. QED BY <3>1, <4>1 DEF NodeHeads
    <3>2. CASE journal.attempt.kind # "node"
      BY <3>2 DEF NodeHeads
    <3>. QED BY <3>1, <3>2
  <2>2. Accepted(journal.head, KeptOf(journal.repairs))
    BY <1>1, <1>3 DEF AcceptedWork
  <2>3. tree[repo.head] = tree[journal.head] \/ tree[repo.head] = tree[journal.head] \cup {repo.head}
    BY <1>3
  <2>4. Accepted(journal.head, KeptOf(journal.repairs))'
    BY <1>3, <1>4, <1>7, <1>8, <2>1, <2>2, <2>3 DEF Accepted
  <2>5. journal.best # NoBest => Accepted(journal.best.head, WonOf(journal.repairs))'
    <3>1. journal.best # NoBest => journal.attempt.kind # "node"
      BY <1>1 DEF RepairsJudged
    <3>. QED BY <1>1, <1>7, <2>1, <3>1 DEF AcceptedWork, Accepted
  <2>. QED BY <2>4, <2>5 DEF AcceptedWork
<1>25. CallsCounted'
  BY <1>1, <1>3 DEF CallsCounted
<1>26. AtPlace'
  <2>1. build.next = "test" => Pending' = {}
    BY <1>1, <1>3 DEF RepairsJudged, Pending, Completed
  <2>. QED BY <1>1, <1>3, <2>1 DEF AtPlace, Measuring, WorkPlaces
<1>. QED BY <1>20, <1>21, <1>22, <1>23, <1>24, <1>25, <1>26 DEF WorkInv

\* An attempt is struck.
LEMMA BuildStrikes ==
  ASSUME BuildShape, WorkInv, plan' = plan, build.at \in {"strike", "struck"}, DOMAIN journal' = JournalFields, journal'.open = journal.open,
         journal'.head = journal.head, journal'.calls = journal.calls, journal'.attempt = NoAttempt,
         journal'.nodes = journal.nodes, journal'.repairs = journal.repairs, journal'.verified = journal.verified,
         journal'.best = journal.best, journal'.revert = journal.revert, DOMAIN build' = BuildFields,
         build'.next = build.next, build'.target = build.target, build'.tests = build.tests, build'.best = build.best,
         build'.round = build.round, build'.at \in {"nodes", "idle"}, UNCHANGED <<repo, tree, escaped, fence, asked>>
  PROVE  BuildShape' /\ WorkInv'
<1>1. CommitsKnown /\ InFlight /\ RepairsJudged /\ AcceptedWork /\ CallsCounted /\ AtPlace
  BY DEF WorkInv
<1>2. /\ asked \in Seq(Nat) /\ repo \in [head : Nat, dirty : BOOLEAN] /\ MaxCalls \in Nat /\ build.round \in Nat
      /\ repo.head \in Commits /\ journal.head \in Commits /\ journal.best.head \in Commits
      /\ tree \in [Commits -> SUBSET Nat] /\ Commits \subseteq Nat
  BY <1>1, BuildAssumption DEF BuildShape, CommitsKnown, KnownCommit, Commits
<1>3. /\ journal.attempt # NoAttempt /\ ~journal.revert.on /\ repo.head = journal.head /\ fence = repo.head /\ ~repo.dirty /\ journal.open
  BY <1>1 DEF AtPlace, InFlight
<1>4. NoAttempt.kind \notin {"node", "repair"}
  BY DEF NoAttempt, Nothing
<1>20. BuildShape'
  BY <1>1, <1>2, <1>3, <1>4 DEF BuildShape
<1>21. CommitsKnown'
  BY <1>1, <1>2, <1>3, <1>4 DEF CommitsKnown, KnownCommit
<1>22. InFlight'
  BY <1>1, <1>2, <1>3, <1>4 DEF InFlight
<1>23. RepairsJudged'
  BY <1>1, <1>2, <1>3, <1>4 DEF RepairsJudged, Pending, Completed, JudgePending
<1>24. AcceptedWork'
  BY <1>1, <1>2, <1>3, <1>4 DEF AcceptedWork, Accepted, NodeHeads
<1>25. CallsCounted'
  BY <1>1, <1>2, <1>3, <1>4 DEF CallsCounted
<1>26. AtPlace'
  BY <1>1, <1>2, <1>3, <1>4 DEF AtPlace, Measuring, WorkPlaces, Pending, Completed, JudgePending
<1>. QED BY <1>20, <1>21, <1>22, <1>23, <1>24, <1>25, <1>26 DEF WorkInv

\* The suite runs and its verdict is stored.
LEMMA BuildTests ==
  ASSUME BuildShape, WorkInv, plan' = plan, build.at = "test", NEW t, DOMAIN journal' = JournalFields, journal'.open = TRUE,
         journal'.head = journal.head, journal'.calls = journal.calls, journal'.attempt = journal.attempt,
         journal'.nodes = journal.nodes, journal'.repairs = journal.repairs,
         journal'.verified = [head |-> journal.head, tests |-> t], journal'.best = journal.best,
         journal'.revert = journal.revert, DOMAIN build' = BuildFields, build'.at = "judge", build'.next = build.next,
         build'.target = build.target, build'.tests = t, build'.best = build.best, build'.round = build.round,
         UNCHANGED <<repo, tree, escaped, fence, asked>>
  PROVE  BuildShape' /\ WorkInv'
<1>1. CommitsKnown /\ InFlight /\ RepairsJudged /\ AcceptedWork /\ CallsCounted /\ AtPlace
  BY DEF WorkInv
<1>2. /\ asked \in Seq(Nat) /\ repo \in [head : Nat, dirty : BOOLEAN] /\ MaxCalls \in Nat /\ build.round \in Nat
      /\ repo.head \in Commits /\ journal.head \in Commits /\ journal.best.head \in Commits
      /\ tree \in [Commits -> SUBSET Nat] /\ Commits \subseteq Nat
  BY <1>1, BuildAssumption DEF BuildShape, CommitsKnown, KnownCommit, Commits
<1>20. BuildShape'
  BY <1>1, <1>2 DEF BuildShape
<1>21. CommitsKnown'
  BY <1>1, <1>2 DEF CommitsKnown, KnownCommit
<1>22. InFlight'
  BY <1>1, <1>2 DEF InFlight
<1>23. RepairsJudged'
  BY <1>1, <1>2 DEF RepairsJudged, Pending, Completed, JudgePending
<1>24. AcceptedWork'
  BY <1>1, <1>2 DEF AcceptedWork, Accepted, NodeHeads
<1>25. CallsCounted'
  BY <1>1, <1>2 DEF CallsCounted
<1>26. AtPlace'
  BY <1>1, <1>2 DEF AtPlace, Measuring, WorkPlaces, Pending, Completed, JudgePending
<1>. QED BY <1>20, <1>21, <1>22, <1>23, <1>24, <1>25, <1>26 DEF WorkInv

\* The first candidate is the best.
LEMMA BuildJudgesFirst ==
  ASSUME BuildShape, WorkInv, plan' = plan, build.at = "judge", ~JudgePending, journal.best = NoBest, DOMAIN journal' = JournalFields,
         journal'.open = journal.open, journal'.head = journal.head, journal'.calls = journal.calls,
         journal'.attempt = journal.attempt, journal'.nodes = journal.nodes, journal'.repairs = journal.repairs,
         journal'.verified = journal.verified,
         journal'.best = [head |-> journal.head, tests |-> build.tests, iteration |-> 1 + Len(journal.repairs)],
         journal'.revert = journal.revert, DOMAIN build' = BuildFields, build'.next = build.next,
         build'.target = build.target, build'.tests = build.tests, build'.best = build.best, build'.round = build.round,
         build'.at = IF Green(build.tests) THEN "done" ELSE "repair", UNCHANGED <<repo, tree, escaped, fence, asked>>
  PROVE  BuildShape' /\ WorkInv'
<1>1. CommitsKnown /\ InFlight /\ RepairsJudged /\ AcceptedWork /\ CallsCounted /\ AtPlace
  BY DEF WorkInv
<1>2. /\ asked \in Seq(Nat) /\ repo \in [head : Nat, dirty : BOOLEAN] /\ MaxCalls \in Nat /\ build.round \in Nat
      /\ repo.head \in Commits /\ journal.head \in Commits /\ journal.best.head \in Commits
      /\ tree \in [Commits -> SUBSET Nat] /\ Commits \subseteq Nat
  BY <1>1, BuildAssumption DEF BuildShape, CommitsKnown, KnownCommit, Commits
<1>3. /\ fence = repo.head /\ repo.head = journal.head /\ journal.attempt = NoAttempt /\ ~journal.revert.on /\ ~repo.dirty /\ Pending = {}
      /\ journal.verified = [head |-> journal.head, tests |-> build.tests] /\ NoAttempt.kind \notin {"node", "repair"}
      /\ build.round = 0
  BY <1>1 DEF AtPlace, Measuring, InFlight, NoAttempt, Nothing
<1>4. journal.repairs \in Seq(RepairRows) /\ Len(journal.repairs) \in Nat
  BY <1>1 DEF RepairsJudged
<1>5. journal'.best # NoBest /\ journal'.best.head = journal.head
  BY <1>4 DEF NoBest
<1>6. journal.repairs = <<>>
  BY <1>1 DEF RepairsJudged
<1>9. Pending' = {}
  BY <1>3 DEF Pending, Completed
<1>20. BuildShape'
  BY <1>1, <1>2, <1>3, <1>5 DEF BuildShape
<1>21. CommitsKnown'
  BY <1>1, <1>2, <1>3, <1>5 DEF CommitsKnown, KnownCommit
<1>22. InFlight'
  BY <1>1, <1>2, <1>3, <1>5 DEF InFlight
<1>23. RepairsJudged'
  BY <1>3, <1>4, <1>5, <1>6, <1>9 DEF RepairsJudged, JudgePending
<1>24. AcceptedWork'
  <2>1. KeptOf(journal.repairs) = WonOf(journal.repairs)
    BY <1>6 DEF KeptOf, WonOf
  <2>2. Accepted(journal.head, KeptOf(journal.repairs))
    BY <1>1, <1>3 DEF AcceptedWork
  <2>. QED BY <1>3, <1>5, <2>1, <2>2 DEF AcceptedWork, Accepted, NodeHeads
<1>25. CallsCounted'
  BY <1>1, <1>2, <1>3, <1>5 DEF CallsCounted
<1>26. AtPlace'
  BY <1>3, <1>5, <1>6, <1>9 DEF AtPlace, Measuring, WorkPlaces, JudgePending
<1>. QED BY <1>20, <1>21, <1>22, <1>23, <1>24, <1>25, <1>26 DEF WorkInv

\* A repair is kept and becomes the best.
LEMMA BuildKeeps ==
  ASSUME BuildShape, WorkInv, plan' = plan, build.at = "judge", JudgePending, VerdictGiven(journal.repairs, journal'.repairs, "kept"),
         DOMAIN journal' = JournalFields, journal'.open = journal.open, journal'.head = journal.head,
         journal'.calls = journal.calls, journal'.attempt = journal.attempt, journal'.nodes = journal.nodes,
         journal'.verified = journal.verified,
         journal'.best = [head |-> journal.head, tests |-> build.tests, iteration |-> 1 + Len(journal.repairs)],
         journal'.revert = journal.revert, DOMAIN build' = BuildFields, build'.next = build.next,
         build'.target = build.target, build'.tests = build.tests, build'.best = build.best, build'.round = build.round,
         build'.at = IF Green(build.tests) THEN "done" ELSE "repair", UNCHANGED <<repo, tree, escaped, fence, asked>>
  PROVE  BuildShape' /\ WorkInv'
<1>1. CommitsKnown /\ InFlight /\ RepairsJudged /\ AcceptedWork /\ CallsCounted /\ AtPlace
  BY DEF WorkInv
<1>2. /\ asked \in Seq(Nat) /\ repo \in [head : Nat, dirty : BOOLEAN] /\ MaxCalls \in Nat /\ build.round \in Nat
      /\ repo.head \in Commits /\ journal.head \in Commits /\ journal.best.head \in Commits
      /\ tree \in [Commits -> SUBSET Nat] /\ Commits \subseteq Nat
  BY <1>1, BuildAssumption DEF BuildShape, CommitsKnown, KnownCommit, Commits
<1>3. /\ fence = repo.head /\ repo.head = journal.head /\ journal.attempt = NoAttempt /\ ~journal.revert.on /\ ~repo.dirty /\ Pending = {}
      /\ journal.verified = [head |-> journal.head, tests |-> build.tests] /\ NoAttempt.kind \notin {"node", "repair"}
      /\ build.round = 0
  BY <1>1 DEF AtPlace, Measuring, InFlight, NoAttempt, Nothing
<1>4. journal.repairs \in Seq(RepairRows) /\ Len(journal.repairs) \in Nat
  BY <1>1 DEF RepairsJudged
<1>5. journal'.best # NoBest /\ journal'.best.head = journal.head
  BY <1>4 DEF NoBest
<1>6. journal.repairs # <<>> /\ Len(journal.repairs) >= 1 /\ journal.repairs[Len(journal.repairs)].verdict = Nothing /\ journal.best # NoBest /\ journal.open
  BY <1>1, <1>4 DEF JudgePending, RepairsJudged, InFlight
<1>7. /\ journal'.repairs \in Seq(RepairRows) /\ Len(journal'.repairs) = Len(journal.repairs) /\ journal'.repairs # <<>>
      /\ \A i \in 1 .. Len(journal.repairs) :
           /\ journal'.repairs[i].head = journal.repairs[i].head
           /\ i < Len(journal.repairs) => journal'.repairs[i].verdict = journal.repairs[i].verdict
      /\ journal'.repairs[Len(journal.repairs)].verdict = "kept"
      /\ DOMAIN journal'.repairs = 1 .. Len(journal.repairs) /\ DOMAIN journal.repairs = 1 .. Len(journal.repairs)
  BY <1>4, <1>6 DEF VerdictGiven
<1>8. ~JudgePending' /\ \A i \in 1 .. Len(journal'.repairs) : i < Len(journal'.repairs) => journal'.repairs[i].verdict # Nothing
  BY <1>1, <1>4, <1>7 DEF JudgePending, RepairsJudged, Nothing
<1>9. Pending' = {}
  BY <1>3 DEF Pending, Completed
<1>20. BuildShape'
  BY <1>1, <1>2, <1>3, <1>5 DEF BuildShape
<1>21. CommitsKnown'
  BY <1>1, <1>2, <1>3, <1>5 DEF CommitsKnown, KnownCommit
<1>22. InFlight'
  BY <1>1, <1>3, <1>6 DEF InFlight
<1>23. RepairsJudged'
  BY <1>3, <1>5, <1>7, <1>8, <1>9 DEF RepairsJudged
<1>24. AcceptedWork'
  <2>1. KeptOf(journal'.repairs) = KeptOf(journal.repairs)
    <3>1. \A i \in 1 .. Len(journal.repairs) : journal'.repairs[i].verdict = "reverted" <=> journal.repairs[i].verdict = "reverted"
      BY <1>4, <1>6, <1>7 DEF Nothing
    <3>. QED BY <1>7, <3>1 DEF KeptOf
  <2>2. KeptOf(journal'.repairs) = WonOf(journal'.repairs)
    <3>1. \A i \in 1 .. Len(journal.repairs) : journal'.repairs[i].verdict # "reverted" <=> journal'.repairs[i].verdict = "kept"
      <4>1. ASSUME NEW i \in 1 .. Len(journal.repairs) PROVE journal'.repairs[i].verdict \in {"kept", "reverted"}
        <5>1. journal'.repairs[i] \in RepairRows
          BY <1>7
        <5>2. journal'.repairs[i].verdict # Nothing
          BY <1>4, <1>7, <1>8 DEF Nothing
        <5>. QED BY <5>1, <5>2 DEF RepairRows
      <4>. QED BY <4>1
    <3>. QED BY <1>7, <3>1 DEF KeptOf, WonOf
  <2>3. Accepted(journal.head, KeptOf(journal.repairs))
    BY <1>1, <1>3 DEF AcceptedWork
  <2>. QED BY <1>3, <1>5, <2>1, <2>2, <2>3 DEF AcceptedWork, Accepted, NodeHeads
<1>25. CallsCounted'
  BY <1>1, <1>2, <1>3, <1>5 DEF CallsCounted
<1>26. AtPlace'
  BY <1>3, <1>5, <1>8, <1>9 DEF AtPlace, Measuring, WorkPlaces
<1>. QED BY <1>20, <1>21, <1>22, <1>23, <1>24, <1>25, <1>26 DEF WorkInv

\* A repair is not kept: the revert is journalled.
LEMMA BuildUndoes ==
  ASSUME BuildShape, WorkInv, plan' = plan, build.at = "judge", JudgePending, VerdictGiven(journal.repairs, journal'.repairs, "reverted"),
         DOMAIN journal' = JournalFields, journal'.open = journal.open, journal'.head = journal.head,
         journal'.calls = journal.calls, journal'.attempt = journal.attempt, journal'.nodes = journal.nodes,
         journal'.verified = journal.verified, journal'.best = journal.best,
         journal'.revert = [from |-> journal.head, to |-> journal.best.head, on |-> TRUE], DOMAIN build' = BuildFields,
         build'.at = "reset", build'.next = "reverted", build'.target = journal.best.head, build'.tests = build.tests,
         build'.best = build.best, build'.round = build.round, UNCHANGED <<repo, tree, escaped, fence, asked>>
  PROVE  BuildShape' /\ WorkInv'
<1>1. CommitsKnown /\ InFlight /\ RepairsJudged /\ AcceptedWork /\ CallsCounted /\ AtPlace
  BY DEF WorkInv
<1>2. /\ asked \in Seq(Nat) /\ repo \in [head : Nat, dirty : BOOLEAN] /\ MaxCalls \in Nat /\ build.round \in Nat
      /\ repo.head \in Commits /\ journal.head \in Commits /\ journal.best.head \in Commits
      /\ tree \in [Commits -> SUBSET Nat] /\ Commits \subseteq Nat
  BY <1>1, BuildAssumption DEF BuildShape, CommitsKnown, KnownCommit, Commits
<1>3. /\ fence = repo.head /\ repo.head = journal.head /\ journal.attempt = NoAttempt /\ ~journal.revert.on /\ ~repo.dirty /\ Pending = {}
      /\ journal.verified = [head |-> journal.head, tests |-> build.tests] /\ NoAttempt.kind \notin {"node", "repair"}
      /\ build.round = 0
  BY <1>1 DEF AtPlace, Measuring, InFlight, NoAttempt, Nothing
<1>4. journal.repairs \in Seq(RepairRows) /\ Len(journal.repairs) \in Nat
  BY <1>1 DEF RepairsJudged
<1>6. journal.repairs # <<>> /\ Len(journal.repairs) >= 1 /\ journal.repairs[Len(journal.repairs)].verdict = Nothing /\ journal.best # NoBest /\ journal.open
  BY <1>1, <1>4 DEF JudgePending, RepairsJudged, InFlight
<1>7. /\ journal'.repairs \in Seq(RepairRows) /\ Len(journal'.repairs) = Len(journal.repairs) /\ journal'.repairs # <<>>
      /\ \A i \in 1 .. Len(journal.repairs) :
           /\ journal'.repairs[i].head = journal.repairs[i].head
           /\ i < Len(journal.repairs) => journal'.repairs[i].verdict = journal.repairs[i].verdict
      /\ journal'.repairs[Len(journal.repairs)].verdict = "reverted"
      /\ DOMAIN journal'.repairs = 1 .. Len(journal.repairs) /\ DOMAIN journal.repairs = 1 .. Len(journal.repairs)
  BY <1>4, <1>6 DEF VerdictGiven
<1>8. ~JudgePending' /\ \A i \in 1 .. Len(journal'.repairs) : i < Len(journal'.repairs) => journal'.repairs[i].verdict # Nothing
  BY <1>1, <1>4, <1>7 DEF JudgePending, RepairsJudged, Nothing
<1>9. Pending' = {}
  BY <1>3 DEF Pending, Completed
<1>20. BuildShape'
  BY <1>1, <1>2, <1>3 DEF BuildShape
<1>21. CommitsKnown'
  BY <1>1, <1>2, <1>3 DEF CommitsKnown, KnownCommit
<1>22. InFlight'
  BY <1>1, <1>3, <1>6 DEF InFlight
<1>23. RepairsJudged'
  BY <1>3, <1>6, <1>7, <1>8, <1>9 DEF RepairsJudged
<1>24. AcceptedWork'
  <2>1. WonOf(journal'.repairs) = WonOf(journal.repairs)
    <3>1. \A i \in 1 .. Len(journal.repairs) : journal'.repairs[i].verdict = "kept" <=> journal.repairs[i].verdict = "kept"
      BY <1>4, <1>6, <1>7 DEF Nothing
    <3>. QED BY <1>7, <3>1 DEF WonOf
  <2>. QED BY <1>1, <2>1 DEF AcceptedWork, Accepted, NodeHeads
<1>25. CallsCounted'
  BY <1>1, <1>2, <1>3 DEF CallsCounted
<1>26. AtPlace'
  BY <1>1, <1>2, <1>3 DEF AtPlace, Measuring, WorkPlaces, Pending, Completed, JudgePending
<1>. QED BY <1>20, <1>21, <1>22, <1>23, <1>24, <1>25, <1>26 DEF WorkInv

\* The checkpoint moves to the best candidate.
LEMMA BuildReverts ==
  ASSUME BuildShape, WorkInv, plan' = plan, build.at = "reverted", DOMAIN journal' = JournalFields, journal'.open = journal.open,
         journal'.head = journal.revert.to, journal'.calls = journal.calls, journal'.attempt = journal.attempt,
         journal'.nodes = journal.nodes, journal'.repairs = journal.repairs,
         journal'.verified = [head |-> journal.best.head, tests |-> journal.best.tests], journal'.best = journal.best,
         journal'.revert = NoRevert, DOMAIN build' = BuildFields, build'.round = 0, build'.at \in {"nodes", "repair"},
         UNCHANGED <<repo, tree, escaped, fence, asked>>
  PROVE  BuildShape' /\ WorkInv'
<1>1. CommitsKnown /\ InFlight /\ RepairsJudged /\ AcceptedWork /\ CallsCounted /\ AtPlace
  BY DEF WorkInv
<1>2. /\ asked \in Seq(Nat) /\ repo \in [head : Nat, dirty : BOOLEAN] /\ MaxCalls \in Nat /\ build.round \in Nat
      /\ repo.head \in Commits /\ journal.head \in Commits /\ journal.best.head \in Commits
      /\ tree \in [Commits -> SUBSET Nat] /\ Commits \subseteq Nat
  BY <1>1, BuildAssumption DEF BuildShape, CommitsKnown, KnownCommit, Commits
<1>3. /\ journal.revert.on /\ journal.revert.to = journal.best.head /\ journal.best # NoBest /\ journal.attempt = NoAttempt
      /\ repo.head = journal.best.head /\ fence = repo.head /\ ~repo.dirty /\ journal.open /\ ~NoRevert.on
      /\ ~JudgePending /\ Pending = {}
  BY <1>1 DEF AtPlace, InFlight, NoRevert, RepairsJudged
<1>4. journal.repairs \in Seq(RepairRows)
  BY <1>1 DEF RepairsJudged
<1>5. WonOf(journal.repairs) \subseteq KeptOf(journal.repairs)
  BY DEF WonOf, KeptOf
<1>20. BuildShape'
  BY <1>1, <1>2, <1>3, <1>5 DEF BuildShape
<1>21. CommitsKnown'
  BY <1>1, <1>2, <1>3, <1>5 DEF CommitsKnown, KnownCommit
<1>22. InFlight'
  BY <1>1, <1>2, <1>3, <1>5 DEF InFlight
<1>23. RepairsJudged'
  BY <1>1, <1>2, <1>3, <1>5 DEF RepairsJudged, Pending, Completed, JudgePending
<1>24. AcceptedWork'
  BY <1>1, <1>2, <1>3, <1>5 DEF AcceptedWork, Accepted, NodeHeads
<1>25. CallsCounted'
  BY <1>1, <1>2, <1>3, <1>5 DEF CallsCounted
<1>26. AtPlace'
  BY <1>1, <1>2, <1>3, <1>5 DEF AtPlace, Measuring, WorkPlaces, Pending, Completed, JudgePending
<1>. QED BY <1>20, <1>21, <1>22, <1>23, <1>24, <1>25, <1>26 DEF WorkInv

\* Nothing happens.
LEMMA BuildRests ==
  ASSUME BuildShape, WorkInv, plan' = plan, UNCHANGED <<build, repo, tree, escaped, fence, journal, asked>>
  PROVE  BuildShape' /\ WorkInv'
<1>1. CommitsKnown /\ InFlight /\ RepairsJudged /\ AcceptedWork /\ CallsCounted /\ AtPlace
  BY DEF WorkInv
<1>2. /\ asked \in Seq(Nat) /\ repo \in [head : Nat, dirty : BOOLEAN] /\ MaxCalls \in Nat /\ build.round \in Nat
      /\ repo.head \in Commits /\ journal.head \in Commits /\ journal.best.head \in Commits
      /\ tree \in [Commits -> SUBSET Nat] /\ Commits \subseteq Nat
  BY <1>1, BuildAssumption DEF BuildShape, CommitsKnown, KnownCommit, Commits
<1>20. BuildShape'
  BY <1>1, <1>2 DEF BuildShape
<1>21. CommitsKnown'
  BY <1>1, <1>2 DEF CommitsKnown, KnownCommit
<1>22. InFlight'
  BY <1>1, <1>2 DEF InFlight
<1>23. RepairsJudged'
  BY <1>1, <1>2 DEF RepairsJudged, Pending, Completed, JudgePending
<1>24. AcceptedWork'
  BY <1>1, <1>2 DEF AcceptedWork, Accepted, NodeHeads
<1>25. CallsCounted'
  BY <1>1, <1>2 DEF CallsCounted
<1>26. AtPlace'
  BY <1>1, <1>2 DEF AtPlace, Measuring, WorkPlaces, Pending, Completed, JudgePending
<1>. QED BY <1>20, <1>21, <1>22, <1>23, <1>24, <1>25, <1>26 DEF WorkInv

\* The fields of the task after each way to move it.
LEMMA TaskMoves ==
  ASSUME DOMAIN build = BuildFields
  PROVE  /\ \A p : Goto(p) => /\ DOMAIN build' = BuildFields /\ build'.at = p /\ build'.next = build.next
                              /\ build'.target = build.target /\ build'.tests = build.tests
                              /\ build'.best = build.best /\ build'.round = build.round
         /\ \A h, n : RestoreThen(h, n) =>
              /\ DOMAIN build' = BuildFields /\ build'.at = "reset" /\ build'.next = n /\ build'.target = h
              /\ build'.tests = build.tests /\ build'.best = build.best /\ build'.round = build.round
         /\ Raise => DOMAIN build' = BuildFields /\ build'.at = "idle" /\ build'.round = 0 /\ build'.best = NoBest
         /\ Refuse => DOMAIN build' = BuildFields /\ build'.at = "refused" /\ build'.round = 0 /\ build'.best = NoBest
<1>1. ASSUME NEW p, Goto(p)
      PROVE  /\ DOMAIN build' = BuildFields /\ build'.at = p /\ build'.next = build.next
             /\ build'.target = build.target /\ build'.tests = build.tests
             /\ build'.best = build.best /\ build'.round = build.round
  BY <1>1 DEF Goto, BuildFields
<1>2. ASSUME NEW h, NEW n, RestoreThen(h, n)
      PROVE  /\ DOMAIN build' = BuildFields /\ build'.at = "reset" /\ build'.next = n /\ build'.target = h
             /\ build'.tests = build.tests /\ build'.best = build.best /\ build'.round = build.round
  BY <1>2 DEF RestoreThen, BuildFields
<1>3. Raise => DOMAIN build' = BuildFields /\ build'.at = "idle" /\ build'.round = 0 /\ build'.best = NoBest
  BY DEF Raise, AtRest, BuildFields
<1>4. Refuse => DOMAIN build' = BuildFields /\ build'.at = "refused" /\ build'.round = 0 /\ build'.best = NoBest
  BY DEF Refuse, AtRest, BuildFields
<1>. QED BY <1>1, <1>2, <1>3, <1>4

\* A journalled attempt adds its row and counts its call.
LEMMA AttemptRow ==
  ASSUME DOMAIN journal = JournalFields, NEW kind, NEW id, Attempt(kind, id)
  PROVE  /\ DOMAIN journal' = JournalFields /\ journal'.open = TRUE
         /\ journal'.head = IF journal.open THEN journal.head ELSE repo.head
         /\ journal'.calls = journal.calls + 1
         /\ journal'.attempt = [kind |-> kind, id |-> id, input |-> repo.head, call |-> journal.calls + 1]
         /\ journal'.nodes = journal.nodes /\ journal'.repairs = journal.repairs
         /\ journal'.verified = journal.verified /\ journal'.best = journal.best /\ journal'.revert = journal.revert
BY DEF Attempt, JournalFields

\* Every step of the stage keeps what is known of a plan with work.
LEMMA BuildWorks ==
  ASSUME BuildShape, WorkInv, plan # {}, BuildNext
  PROVE  BuildShape' /\ WorkInv'
<1>1. CommitsKnown /\ InFlight /\ RepairsJudged /\ AcceptedWork /\ CallsCounted /\ AtPlace
  BY DEF WorkInv
<1>2. DOMAIN build = BuildFields /\ DOMAIN journal = JournalFields /\ build.round = 0 /\ build.round \in Nat
  BY <1>1 DEF BuildShape, AtPlace
<1>3. build.at \in WorkPlaces
  BY <1>1 DEF AtPlace
<1>10. CASE Open
  <2>1. plan' = plan /\ UNCHANGED <<repo, tree, escaped, fence, journal, asked>>
    BY <1>10 DEF Open
  <2>2. \/ FinishRevert /\ RestoreThen(journal.revert.to, "reverted")
        \/ Refuse
        \/ /\ Fenced /\ ~journal.revert.on /\ (journal.open => journal.head = repo.head \/ OwnCommit)
           /\ \/ journal.attempt = NoAttempt /\ Goto("nodes")
              \/ journal.attempt # NoAttempt /\ repo.head = journal.head /\ RestoreThen(repo.head, "struck")
              \/ /\ journal.attempt # NoAttempt /\ repo.head # journal.head
                 /\ build' = [build EXCEPT !.at = "settle", !.next = "nodes"]
    BY <1>10 DEF Open
  <2>3. DOMAIN build' = BuildFields /\ build'.round = 0 /\ build'.at \notin {"agent", "commit"} /\ AtPlace'
    <3>1. CASE FinishRevert /\ RestoreThen(journal.revert.to, "reverted")
      BY <1>2, <2>1, <3>1, TaskMoves DEF FinishRevert, AtPlace, Measuring, WorkPlaces
    <3>2. CASE Refuse
      BY <1>2, <2>1, <3>2, TaskMoves DEF AtPlace, Measuring, WorkPlaces
    <3>3. CASE Fenced /\ ~journal.revert.on /\ journal.attempt = NoAttempt /\ Goto("nodes") /\ (journal.open => journal.head = repo.head \/ OwnCommit)
      <4>1. repo.head = journal.head
        BY <1>1, <3>3 DEF OwnCommit, InFlight
      <4>. QED BY <1>2, <2>1, <3>3, <4>1, TaskMoves DEF Fenced, AtPlace, Measuring, WorkPlaces
    <3>4. CASE Fenced /\ journal.attempt # NoAttempt /\ repo.head = journal.head /\ RestoreThen(repo.head, "struck")
      BY <1>2, <2>1, <3>4, TaskMoves DEF AtPlace, Measuring, WorkPlaces
    <3>5. CASE /\ Fenced /\ journal.attempt # NoAttempt /\ repo.head # journal.head
               /\ build' = [build EXCEPT !.at = "settle", !.next = "nodes"]
      <4>1. DOMAIN build' = BuildFields /\ build'.at = "settle" /\ build'.next = "nodes" /\ build'.round = build.round
        BY <1>2, <3>5 DEF BuildFields
      <4>2. ~repo.dirty
        BY <1>1, <3>5 DEF InFlight
      <4>. QED BY <1>2, <2>1, <3>5, <4>1, <4>2 DEF Fenced, AtPlace, Measuring, WorkPlaces
    <3>. QED BY <2>2, <3>1, <3>2, <3>3, <3>4, <3>5
  <2>. QED BY <2>1, <2>3, BuildMoves
<1>11. CASE Reset
  BY <1>2, <1>11, BuildResets, TaskMoves DEF Reset
<1>12. CASE Refence
  <2>1. /\ build.at = "refence" /\ fence' = build.target /\ plan' = plan /\ UNCHANGED <<repo, tree, escaped, journal, asked>>
        /\ build.next \in {"reverted", "strike", "struck"} /\ Goto(build.next)
    BY <1>1, <1>12 DEF Refence, AtPlace
  <2>2. /\ DOMAIN build' = BuildFields /\ build'.at = build.next /\ build'.round = 0
    BY <1>2, <2>1, TaskMoves
  <2>3. AtPlace'
    BY <1>1, <2>1, <2>2 DEF AtPlace, Measuring, WorkPlaces, InFlight
  <2>. QED BY <2>1, <2>2, <2>3, BuildMoves
<1>13. CASE StartNode
  <2>1. CASE Raise /\ UNCHANGED journal
    <3>1. plan' = plan /\ UNCHANGED <<repo, tree, escaped, fence, journal, asked>>
      BY <1>13, <2>1 DEF StartNode
    <3>2. DOMAIN build' = BuildFields /\ build'.at = "idle" /\ build'.round = 0
      BY <1>2, <2>1, TaskMoves
    <3>3. AtPlace'
      BY <3>1, <3>2 DEF AtPlace, Measuring, WorkPlaces
    <3>. QED BY <3>1, <3>2, <3>3, BuildMoves
  <2>2. CASE journal.calls # MaxCalls /\ Attempt("node", NextNode) /\ Goto("agent")
    <3>1. /\ plan' = plan /\ UNCHANGED <<repo, tree, escaped, fence, asked>> /\ Pending # {} /\ build.at = "nodes"
          /\ repo.head = journal.head
      BY <1>1, <1>13 DEF StartNode, AtPlace
    <3>. DEFINE node == NextNode
    <3>2. /\ DOMAIN journal' = JournalFields /\ journal'.open = TRUE /\ journal'.head = journal.head
          /\ journal'.calls = journal.calls + 1
          /\ journal'.attempt = [kind |-> "node", id |-> node, input |-> repo.head, call |-> journal.calls + 1]
          /\ journal'.nodes = journal.nodes /\ journal'.repairs = journal.repairs
          /\ journal'.verified = journal.verified /\ journal'.best = journal.best /\ journal'.revert = journal.revert
      BY <1>2, <2>2, <3>1, AttemptRow
    <3>3. /\ DOMAIN build' = BuildFields /\ build'.at = "agent" /\ build'.next = build.next /\ build'.target = build.target
          /\ build'.tests = build.tests /\ build'.best = build.best /\ build'.round = build.round
      BY <1>2, <2>2, TaskMoves
    <3>. HIDE DEF node
    <3>. QED BY <2>2, <3>1, <3>2, <3>3, BuildAttempts
  <2>. QED BY <1>13, <2>1, <2>2 DEF StartNode
<1>14. CASE NodesDone
  <2>1. plan' = plan /\ UNCHANGED <<repo, tree, escaped, fence, journal, asked>> /\ Goto("test") /\ build.at = "nodes" /\ Pending = {}
    BY <1>14 DEF NodesDone
  <2>2. DOMAIN build' = BuildFields /\ build'.at = "test" /\ build'.round = 0
    BY <1>2, <2>1, TaskMoves
  <2>3. Pending' = {}
    BY <2>1 DEF Pending, Completed
  <2>4. AtPlace'
    BY <1>1, <2>1, <2>2, <2>3 DEF AtPlace, Measuring, WorkPlaces
  <2>. QED BY <2>1, <2>2, <2>4, BuildMoves
<1>15. CASE StartRepair
  <2>1. CASE Raise /\ UNCHANGED journal
    <3>1. plan' = plan /\ UNCHANGED <<repo, tree, escaped, fence, journal, asked>>
      BY <1>15, <2>1 DEF StartRepair
    <3>2. DOMAIN build' = BuildFields /\ build'.at = "idle" /\ build'.round = 0
      BY <1>2, <2>1, TaskMoves
    <3>3. AtPlace'
      BY <3>1, <3>2 DEF AtPlace, Measuring, WorkPlaces
    <3>. QED BY <3>1, <3>2, <3>3, BuildMoves
  <2>2. CASE journal.calls # MaxCalls /\ Attempt("repair", RepairsSpent + 1) /\ Goto("agent")
    <3>1. /\ plan' = plan /\ UNCHANGED <<repo, tree, escaped, fence, asked>> /\ build.at = "repair"
          /\ repo.head = journal.head
      BY <1>1, <1>15 DEF StartRepair, AtPlace, Measuring
    <3>. DEFINE round == RepairsSpent + 1
    <3>2. /\ DOMAIN journal' = JournalFields /\ journal'.open = TRUE /\ journal'.head = journal.head
          /\ journal'.calls = journal.calls + 1
          /\ journal'.attempt = [kind |-> "repair", id |-> round, input |-> repo.head, call |-> journal.calls + 1]
          /\ journal'.nodes = journal.nodes /\ journal'.repairs = journal.repairs
          /\ journal'.verified = journal.verified /\ journal'.best = journal.best /\ journal'.revert = journal.revert
      BY <1>2, <2>2, <3>1, AttemptRow
    <3>3. /\ DOMAIN build' = BuildFields /\ build'.at = "agent" /\ build'.next = build.next /\ build'.target = build.target
          /\ build'.tests = build.tests /\ build'.best = build.best /\ build'.round = build.round
      BY <1>2, <2>2, TaskMoves
    <3>. HIDE DEF round
    <3>. QED BY <2>2, <3>1, <3>2, <3>3, BuildAttempts
  <2>. QED BY <1>15, <2>1, <2>2 DEF StartRepair
<1>16. CASE AgentAnswers
  <2>1. PICK changes \in BOOLEAN : repo' = [repo EXCEPT !.dirty = changes]
    BY <1>16 DEF AgentAnswers
  <2>2. /\ build.at = "agent" /\ plan' = plan /\ UNCHANGED <<tree, escaped, fence, journal>>
        /\ asked' = Append(asked, journal.attempt.call) /\ Goto("commit")
    BY <1>2, <1>16 DEF AgentAnswers, CallNumber
  <2>3. DOMAIN build' = BuildFields /\ build'.at = "commit" /\ build'.round = 0
    BY <1>2, <2>2, TaskMoves
  <2>4. repo'.head = repo.head
    BY <2>1 DEF BuildShape
  <2>5. AtPlace'
    BY <1>1, <2>2, <2>3, <2>4 DEF AtPlace, Measuring, WorkPlaces
  <2>. QED BY <2>1, <2>2, <2>3, <2>5, BuildAnswers
<1>17. CASE AgentRaises
  <2>1. PICK changes \in BOOLEAN : repo' = [repo EXCEPT !.dirty = changes]
    BY <1>17 DEF AgentRaises
  <2>2. /\ build.at = "agent" /\ plan' = plan /\ UNCHANGED <<tree, escaped, fence, journal>>
        /\ asked' = Append(asked, journal.attempt.call) /\ RestoreThen(journal.attempt.input, "strike")
    BY <1>2, <1>17 DEF AgentRaises, CallNumber
  <2>3. /\ DOMAIN build' = BuildFields /\ build'.at = "reset" /\ build'.next = "strike" /\ build'.round = 0
        /\ build'.target = journal.attempt.input
    BY <1>2, <2>2, TaskMoves
  <2>4. journal.attempt # NoAttempt /\ journal.attempt.input = journal.head
    BY <1>1, <2>2 DEF AtPlace, InFlight
  <2>5. AtPlace'
    BY <1>1, <2>2, <2>3, <2>4 DEF AtPlace, Measuring, WorkPlaces
  <2>. QED BY <2>1, <2>2, <2>3, <2>5, BuildAnswers
<1>18. CASE Commit
  <2>1. build.at = "commit" /\ plan' = plan /\ UNCHANGED <<fence, journal, asked>> /\ Fenced /\ Goto("fence")
    BY <1>1, <1>18 DEF Commit, AtPlace, Fenced
  <2>2. /\ DOMAIN build' = BuildFields /\ build'.at = "fence" /\ build'.next = build.next /\ build'.target = build.target
        /\ build'.tests = build.tests /\ build'.best = build.best /\ build'.round = build.round
    BY <1>2, <2>1, TaskMoves
  <2>3. CASE repo.dirty
    <3>1. PICK out \in BOOLEAN : escaped' = IF out THEN escaped \cup {ThisCall} ELSE escaped
      BY <1>18, <2>1, <2>3 DEF Commit
    <3>2. /\ repo' = [head |-> Len(asked), dirty |-> FALSE]
          /\ tree' = [tree EXCEPT ![Len(asked)] = tree[repo.head] \cup {Len(asked)}]
          /\ escaped' = IF out THEN escaped \cup {Len(asked)} ELSE escaped
      BY <1>18, <2>1, <2>3, <3>1 DEF Commit, ThisCall
    <3>. QED BY <2>1, <2>2, <3>2, BuildCommits
  <2>4. CASE ~repo.dirty
    <3>1. UNCHANGED <<repo, tree, escaped>>
      BY <1>18, <2>4 DEF Commit
    <3>2. AtPlace'
      BY <1>1, <2>1, <2>2, <2>4, <3>1 DEF AtPlace, Measuring, WorkPlaces
    <3>. QED BY <1>2, <2>1, <2>2, <3>1, <3>2, BuildMoves
  <2>. QED BY <2>3, <2>4
<1>19. CASE RecordHead
  <2>1. /\ build.at = "fence" /\ plan' = plan /\ fence' = repo.head /\ UNCHANGED <<repo, tree, escaped, journal, asked>>
        /\ build' = [build EXCEPT !.at = "settle", !.next = IF journal.attempt.kind = "node" THEN "nodes" ELSE "test"]
    BY <1>2, <1>19 DEF RecordHead
  <2>2. /\ DOMAIN build' = BuildFields /\ build'.at = "settle" /\ build'.round = 0
        /\ build'.next = IF journal.attempt.kind = "node" THEN "nodes" ELSE "test"
    BY <1>2, <2>1 DEF BuildFields
  <2>3. journal.attempt # NoAttempt /\ journal.attempt.kind \in {"node", "repair"}
    BY <1>1, <2>1 DEF AtPlace, InFlight
  <2>4. AtPlace'
    BY <1>1, <2>1, <2>2, <2>3 DEF AtPlace, Measuring, WorkPlaces
  <2>. QED BY <2>1, <2>2, <2>4, BuildMoves
<1>20. CASE Settle
  <2>. DEFINE a == journal.attempt
  <2>1. build.at = "settle" /\ plan' = plan /\ UNCHANGED <<repo, tree, escaped, fence, asked>>
    BY <1>20 DEF Settle
  <2>2. CASE OutOfScope(a.input, repo.head)
    <3>1. RestoreThen(a.input, "strike") /\ UNCHANGED journal
      BY <1>20, <2>2 DEF Settle
    <3>2. /\ DOMAIN build' = BuildFields /\ build'.at = "reset" /\ build'.next = "strike" /\ build'.round = 0
          /\ build'.target = a.input
      BY <1>2, <3>1, TaskMoves
    <3>3. a # NoAttempt /\ a.input = journal.head
      BY <1>1, <2>1 DEF AtPlace, InFlight
    <3>4. AtPlace'
      BY <2>1, <3>1, <3>2, <3>3 DEF AtPlace, Measuring, WorkPlaces
    <3>. QED BY <2>1, <3>1, <3>2, <3>4, BuildMoves
  <2>3. CASE ~OutOfScope(a.input, repo.head)
    <3>. DEFINE nodes   == IF a.kind = "node" THEN journal.nodes \cup {[id |-> a.id, call |-> a.call, head |-> repo.head]}
                           ELSE journal.nodes
                repairs == IF a.kind = "repair"
                             THEN Append(journal.repairs, [call |-> a.call, head |-> repo.head, verdict |-> Nothing])
                             ELSE journal.repairs
    <3>1. /\ journal' = [journal EXCEPT !.head = repo.head, !.attempt = NoAttempt, !.nodes = nodes, !.repairs = repairs]
          /\ Goto(build.next)
      BY <1>20, <2>3 DEF Settle
    <3>. HIDE DEF nodes, repairs
    <3>2. /\ DOMAIN journal' = JournalFields /\ journal'.open = journal.open /\ journal'.head = repo.head
          /\ journal'.calls = journal.calls /\ journal'.attempt = NoAttempt /\ journal'.nodes = nodes
          /\ journal'.repairs = repairs /\ journal'.verified = journal.verified /\ journal'.best = journal.best
          /\ journal'.revert = journal.revert
      BY <1>2, <3>1 DEF JournalFields
    <3>3. /\ DOMAIN build' = BuildFields /\ build'.at = build.next /\ build'.next = build.next /\ build'.target = build.target
          /\ build'.tests = build.tests /\ build'.best = build.best /\ build'.round = build.round
      BY <1>2, <3>1, TaskMoves
    <3>4. /\ nodes = IF journal.attempt.kind = "node" THEN journal.nodes \cup {[id |-> journal.attempt.id, call |-> journal.attempt.call, head |-> repo.head]} ELSE journal.nodes
          /\ repairs = IF journal.attempt.kind = "repair" THEN Append(journal.repairs, [call |-> journal.attempt.call, head |-> repo.head, verdict |-> Nothing]) ELSE journal.repairs
      BY DEF nodes, repairs
    <3>. QED BY <2>1, <2>3, <3>2, <3>3, <3>4, BuildSettles
  <2>. QED BY <2>2, <2>3
<1>21. CASE Strike
  <2>1. /\ build.at \in {"strike", "struck"} /\ plan' = plan /\ UNCHANGED <<repo, tree, escaped, fence, asked>>
        /\ journal' = [journal EXCEPT !.attempt = NoAttempt] /\ (Goto("nodes") \/ Goto("idle"))
    BY <1>21 DEF Strike
  <2>2. /\ DOMAIN journal' = JournalFields /\ journal'.open = journal.open
        /\ journal'.head = journal.head /\ journal'.calls = journal.calls /\ journal'.attempt = NoAttempt
        /\ journal'.nodes = journal.nodes /\ journal'.repairs = journal.repairs /\ journal'.verified = journal.verified
        /\ journal'.best = journal.best /\ journal'.revert = journal.revert
    BY <1>2, <2>1 DEF JournalFields
  <2>3. /\ DOMAIN build' = BuildFields /\ build'.at \in {"nodes", "idle"} /\ build'.next = build.next /\ build'.target = build.target
        /\ build'.tests = build.tests /\ build'.best = build.best /\ build'.round = build.round
    BY <1>2, <2>1, TaskMoves
  <2>. QED BY <2>1, <2>2, <2>3, BuildStrikes
<1>22. CASE Test
  <2>1. PICK t \in Outcomes :
          /\ journal' = [journal EXCEPT !.open = TRUE, !.verified = [head |-> journal.head, tests |-> t]]
          /\ build' = [build EXCEPT !.at = "judge", !.tests = t]
    BY <1>22 DEF Test
  <2>2. build.at = "test" /\ plan' = plan /\ UNCHANGED <<repo, tree, escaped, fence, asked>>
    BY <1>22 DEF Test
  <2>3. /\ DOMAIN journal' = JournalFields /\ journal'.open = TRUE
        /\ journal'.head = journal.head /\ journal'.calls = journal.calls /\ journal'.attempt = journal.attempt
        /\ journal'.nodes = journal.nodes /\ journal'.repairs = journal.repairs
        /\ journal'.verified = [head |-> journal.head, tests |-> t]
        /\ journal'.best = journal.best /\ journal'.revert = journal.revert
    BY <1>2, <2>1 DEF JournalFields
  <2>4. /\ DOMAIN build' = BuildFields /\ build'.at = "judge" /\ build'.next = build.next /\ build'.target = build.target
        /\ build'.tests = t /\ build'.best = build.best /\ build'.round = build.round
    BY <1>2, <2>1 DEF BuildFields
  <2>. QED BY <2>2, <2>3, <2>4, BuildTests
<1>23. CASE JudgeBest
  <2>1. build.at = "judge" /\ ~JudgePending /\ plan' = plan /\ UNCHANGED <<repo, tree, escaped, fence, asked>>
    BY <1>23 DEF JudgeBest
  <2>2. CASE journal.best = NoBest
    <3>1. journal' = [journal EXCEPT !.best = BestRow] /\ Goto(IF Green(build.tests) THEN "done" ELSE "repair")
      BY <1>23, <2>2 DEF JudgeBest, AfterTest
    <3>2. /\ DOMAIN journal' = JournalFields /\ journal'.open = journal.open /\ journal'.head = journal.head
          /\ journal'.calls = journal.calls /\ journal'.attempt = journal.attempt /\ journal'.nodes = journal.nodes
          /\ journal'.repairs = journal.repairs /\ journal'.verified = journal.verified
          /\ journal'.best = [head |-> journal.head, tests |-> build.tests, iteration |-> 1 + Len(journal.repairs)]
          /\ journal'.revert = journal.revert
      BY <1>2, <3>1 DEF JournalFields, BestRow
    <3>3. /\ DOMAIN build' = BuildFields /\ build'.at = (IF Green(build.tests) THEN "done" ELSE "repair")
          /\ build'.next = build.next /\ build'.target = build.target
          /\ build'.tests = build.tests /\ build'.best = build.best /\ build'.round = build.round
      BY <1>2, <3>1, TaskMoves
    <3>. QED BY <2>1, <2>2, <3>2, <3>3, BuildJudgesFirst
  <2>3. CASE journal.best # NoBest
    <3>5. UNCHANGED journal /\ IF journal.best.head = journal.head THEN AfterTest ELSE Refuse
      BY <1>23, <2>3 DEF JudgeBest
    <3>6. AfterTest => Goto(IF Green(build.tests) THEN "done" ELSE "repair")
      BY DEF AfterTest
    <3>1. UNCHANGED journal /\ (Refuse \/ (journal.best.head = journal.head /\ Goto(IF Green(build.tests) THEN "done" ELSE "repair")))
      BY <3>5, <3>6
    <3>2. /\ DOMAIN build' = BuildFields /\ build'.round = 0
          /\ \/ build'.at = "refused"
             \/ /\ journal.best.head = journal.head /\ build'.tests = build.tests
                /\ build'.at = (IF Green(build.tests) THEN "done" ELSE "repair")
      BY <1>2, <3>1, TaskMoves
    <3>3. Pending' = {} /\ ~JudgePending'
      BY <1>1, <2>1, <3>1 DEF Pending, Completed, JudgePending, AtPlace, Measuring
    <3>4. AtPlace'
      <4>1. CASE build'.at = "refused"
        BY <3>2, <4>1 DEF AtPlace, Measuring, WorkPlaces
      <4>2. CASE /\ journal.best.head = journal.head /\ build'.tests = build.tests
                 /\ build'.at = (IF Green(build.tests) THEN "done" ELSE "repair")
        <5>1. /\ fence = repo.head /\ repo.head = journal.head /\ journal.attempt = NoAttempt /\ ~journal.revert.on
              /\ journal.verified = [head |-> journal.head, tests |-> build.tests]
          BY <1>1, <2>1 DEF AtPlace, Measuring
        <5>2. (build'.at = "done" /\ Green(build.tests)) \/ build'.at = "repair"
          BY <4>2
        <5>. QED BY <2>1, <2>3, <3>1, <3>2, <3>3, <4>2, <5>1, <5>2 DEF AtPlace, Measuring, WorkPlaces, Green, Passed
      <4>. QED BY <3>2, <4>1, <4>2
    <3>. QED BY <1>2, <2>1, <3>1, <3>2, <3>4, BuildMoves
  <2>. QED BY <2>2, <2>3
<1>24. CASE JudgeRepair
  <2>1. build.at = "judge" /\ JudgePending /\ plan' = plan /\ UNCHANGED <<repo, tree, escaped, fence, asked>>
    BY <1>24 DEF JudgeRepair
  <2>2. journal.repairs \in Seq(RepairRows) /\ journal.repairs # <<>>
    BY <1>1, <2>1 DEF RepairsJudged, JudgePending
  <2>3. CASE /\ journal' = [journal EXCEPT !.repairs = Verdict("kept"), !.best = BestRow]
             /\ Goto(IF Green(build.tests) THEN "done" ELSE "repair")
    <3>1. /\ DOMAIN journal' = JournalFields /\ journal'.open = journal.open /\ journal'.head = journal.head
          /\ journal'.calls = journal.calls /\ journal'.attempt = journal.attempt /\ journal'.nodes = journal.nodes
          /\ journal'.repairs = Verdict("kept") /\ journal'.verified = journal.verified
          /\ journal'.best = [head |-> journal.head, tests |-> build.tests, iteration |-> 1 + Len(journal.repairs)]
          /\ journal'.revert = journal.revert
      BY <1>2, <2>3 DEF JournalFields, BestRow
    <3>2. /\ DOMAIN build' = BuildFields /\ build'.at = (IF Green(build.tests) THEN "done" ELSE "repair")
          /\ build'.next = build.next /\ build'.target = build.target
          /\ build'.tests = build.tests /\ build'.best = build.best /\ build'.round = build.round
      BY <1>2, <2>3, TaskMoves
    <3>3. VerdictGiven(journal.repairs, journal'.repairs, "kept")
      BY <2>2, <3>1, VerdictWritten
    <3>. QED BY <2>1, <3>1, <3>2, <3>3, BuildKeeps
  <2>4. CASE /\ journal' = [journal EXCEPT !.repairs = Verdict("reverted"),
                              !.revert = [from |-> journal.head, to |-> journal.best.head, on |-> TRUE]]
             /\ RestoreThen(journal.best.head, "reverted")
    <3>1. /\ DOMAIN journal' = JournalFields /\ journal'.open = journal.open /\ journal'.head = journal.head
          /\ journal'.calls = journal.calls /\ journal'.attempt = journal.attempt /\ journal'.nodes = journal.nodes
          /\ journal'.repairs = Verdict("reverted") /\ journal'.verified = journal.verified /\ journal'.best = journal.best
          /\ journal'.revert = [from |-> journal.head, to |-> journal.best.head, on |-> TRUE]
      BY <1>2, <2>4 DEF JournalFields
    <3>2. /\ DOMAIN build' = BuildFields /\ build'.at = "reset" /\ build'.next = "reverted" /\ build'.target = journal.best.head
          /\ build'.tests = build.tests /\ build'.best = build.best /\ build'.round = build.round
      BY <1>2, <2>4, TaskMoves
    <3>3. VerdictGiven(journal.repairs, journal'.repairs, "reverted")
      BY <2>2, <3>1, VerdictWritten
    <3>. QED BY <2>1, <3>1, <3>2, <3>3, BuildUndoes
  <2>. QED BY <1>24, <2>3, <2>4 DEF JudgeRepair, AfterTest
<1>25. CASE Reverted
  <2>1. /\ build.at = "reverted" /\ plan' = plan /\ UNCHANGED <<repo, tree, escaped, fence, asked>>
        /\ journal' = [journal EXCEPT !.head = journal.revert.to, !.revert = NoRevert,
                         !.verified = [head |-> journal.best.head, tests |-> journal.best.tests]]
        /\ build' = [AtRest EXCEPT !.at = IF build.tests = NoReport THEN "nodes" ELSE "repair"]
    BY <1>25 DEF Reverted
  <2>2. /\ DOMAIN journal' = JournalFields /\ journal'.open = journal.open
        /\ journal'.head = journal.revert.to /\ journal'.calls = journal.calls /\ journal'.attempt = journal.attempt
        /\ journal'.nodes = journal.nodes /\ journal'.repairs = journal.repairs
        /\ journal'.verified = [head |-> journal.best.head, tests |-> journal.best.tests] /\ journal'.best = journal.best
        /\ journal'.revert = NoRevert
    BY <1>2, <2>1 DEF JournalFields
  <2>3. DOMAIN build' = BuildFields /\ build'.round = 0 /\ build'.at \in {"nodes", "repair"}
    BY <2>1 DEF AtRest, BuildFields
  <2>. QED BY <2>1, <2>2, <2>3, BuildReverts
<1>26. CASE LegacyCall \/ LegacyScope \/ LegacyJudge
  BY <1>3, <1>26 DEF LegacyCall, LegacyScope, LegacyJudge, WorkPlaces, Measuring
<1>27. CASE Kill
  <2>1. plan' = plan /\ UNCHANGED <<repo, tree, escaped, fence, journal, asked>> /\ build' = AtRest
    BY <1>27 DEF Kill
  <2>2. DOMAIN build' = BuildFields /\ build'.at = "idle" /\ build'.round = 0
    BY <2>1 DEF AtRest, BuildFields
  <2>3. AtPlace'
    BY <2>2 DEF AtPlace, Measuring, WorkPlaces
  <2>. QED BY <2>1, <2>2, <2>3, BuildMoves
<1>28. CASE Finished
  BY <1>28, BuildRests DEF Finished, buildVars
<1>. QED BY <1>10, <1>11, <1>12, <1>13, <1>14, <1>15, <1>16, <1>17, <1>18, <1>19, <1>20, <1>21, <1>22, <1>23, <1>24,
            <1>25, <1>26, <1>27, <1>28 DEF BuildNext

\* Every step of the stage keeps what is known of the legacy loop.
LEMMA BuildLegacy ==
  ASSUME BuildShape, LegacyPlace, plan = {}, BuildNext
  PROVE  BuildShape' /\ LegacyPlace'
<1>1. /\ DOMAIN build = BuildFields /\ DOMAIN journal = JournalFields /\ build.round \in Nat
      /\ repo \in [head : Nat, dirty : BOOLEAN] /\ asked \in Seq(Nat) /\ build.best.head \in Nat /\ NoBest.head = 0
  BY DEF BuildShape, LegacyPlace, NoBest
<1>2. build.at \in {"idle", "refused", "legacy", "agent", "commit", "fence", "scope", "legacytest", "reset", "refence", "done"}
  BY DEF LegacyPlace
<1>10. CASE Open
  BY <1>1, <1>10, TaskMoves DEF Open, BuildShape, LegacyPlace
<1>11. CASE Reset
  <2>1. build.target \in Nat /\ build.next \in {"idle", "legacy"}
    BY <1>11 DEF Reset, LegacyPlace
  <2>2. repo' \in [head : Nat, dirty : BOOLEAN] /\ UNCHANGED <<journal, asked>> /\ Goto("refence")
    BY <1>11, <2>1 DEF Reset
  <2>3. DOMAIN build' = BuildFields /\ build'.at = "refence" /\ build'.next = build.next /\ build'.best = build.best /\ build'.round = build.round
    BY <1>1, <2>2, TaskMoves
  <2>. QED BY <1>1, <2>1, <2>2, <2>3 DEF BuildShape, LegacyPlace
<1>12. CASE Refence
  <2>1. build.next \in {"idle", "legacy"} /\ UNCHANGED <<repo, journal, asked>> /\ (Raise \/ Goto("legacy"))
    BY <1>12 DEF Refence, LegacyPlace
  <2>2. /\ DOMAIN build' = BuildFields /\ build'.at \in {"idle", "legacy"} /\ build'.best.head \in Nat /\ build'.round \in Nat
    BY <1>1, <2>1, TaskMoves
  <2>. QED BY <1>1, <2>1, <2>2 DEF BuildShape, LegacyPlace
<1>13. CASE StartNode \/ NodesDone \/ StartRepair \/ Settle \/ Strike \/ Test \/ JudgeBest \/ JudgeRepair \/ Reverted
  BY <1>2, <1>13 DEF StartNode, NodesDone, StartRepair, Settle, Strike, Test, JudgeBest, JudgeRepair, Reverted
<1>14. CASE AgentAnswers \/ AgentRaises
  <2>1. PICK changes \in BOOLEAN : repo' = [repo EXCEPT !.dirty = changes]
    BY <1>14 DEF AgentAnswers, AgentRaises
  <2>2. asked' = Append(asked, build.round) /\ UNCHANGED journal /\ (Goto("commit") \/ Raise) /\ build.round # 0
    BY <1>14 DEF AgentAnswers, AgentRaises, CallNumber, LegacyPlace
  <2>3. repo' \in [head : Nat, dirty : BOOLEAN] /\ asked' \in Seq(Nat)
    BY <1>1, <2>1, <2>2
  <2>4. /\ DOMAIN build' = BuildFields /\ build'.best.head \in Nat /\ build'.round \in Nat
        /\ (build'.at = "commit" /\ build'.round # 0) \/ build'.at = "idle"
    BY <1>1, <2>2, TaskMoves
  <2>. QED BY <1>1, <2>2, <2>3, <2>4 DEF BuildShape, LegacyPlace
<1>15. CASE Commit
  <2>1. build.at = "commit" /\ UNCHANGED <<journal, asked>> /\ (Refuse \/ (Fenced /\ Goto("fence"))) /\ build.round # 0
    BY <1>15 DEF Commit, LegacyPlace
  <2>2. repo' = [head |-> ThisCall, dirty |-> FALSE] \/ (repo' = repo /\ (Fenced => ~repo.dirty))
    BY <1>15 DEF Commit
  <2>5. ThisCall \in Nat
    BY <1>1 DEF ThisCall
  <2>3. repo' \in [head : Nat, dirty : BOOLEAN] /\ (Fenced => ~repo'.dirty)
    <3>1. CASE repo' = [head |-> ThisCall, dirty |-> FALSE]
      BY <2>5, <3>1
    <3>2. CASE repo' = repo /\ (Fenced => ~repo.dirty)
      BY <1>1, <3>2
    <3>. QED BY <2>2, <3>1, <3>2
  <2>4. /\ DOMAIN build' = BuildFields /\ build'.best.head \in Nat /\ build'.round \in Nat
        /\ (build'.at = "fence" /\ build'.round # 0 /\ Fenced) \/ build'.at = "refused"
    BY <1>1, <2>1, TaskMoves
  <2>. QED BY <1>1, <2>1, <2>3, <2>4 DEF BuildShape, LegacyPlace
<1>16. CASE RecordHead
  <2>1. /\ build.at = "fence" /\ build.round # 0 /\ ~repo.dirty /\ fence' = repo.head /\ UNCHANGED <<repo, journal, asked>>
        /\ build' = [build EXCEPT !.at = "scope", !.next = IF journal.attempt.kind = "node" THEN "nodes" ELSE "test"]
    BY <1>16 DEF RecordHead, LegacyPlace
  <2>2. DOMAIN build' = BuildFields /\ build'.at = "scope" /\ build'.best = build.best /\ build'.round = build.round
    BY <1>1, <2>1 DEF BuildFields
  <2>. QED BY <1>1, <2>1, <2>2 DEF BuildShape, LegacyPlace
<1>17. CASE LegacyCall
  <2>1. /\ build.at = "legacy" /\ UNCHANGED <<repo, journal, asked>>
        /\ Raise \/ build' = [build EXCEPT !.at = "agent", !.round = @ + 1]
    BY <1>17 DEF LegacyCall
  <2>2. CASE Raise
    BY <1>1, <2>1, <2>2, TaskMoves DEF BuildShape, LegacyPlace
  <2>3. CASE build' = [build EXCEPT !.at = "agent", !.round = @ + 1]
    <3>1. DOMAIN build' = BuildFields /\ build'.at = "agent" /\ build'.best = build.best /\ build'.round = build.round + 1
      BY <1>1, <2>3 DEF BuildFields
    <3>. QED BY <1>1, <2>1, <3>1 DEF BuildShape, LegacyPlace
  <2>. QED BY <2>1, <2>2, <2>3
<1>18. CASE LegacyScope
  <2>1. /\ build.at = "scope" /\ ~repo.dirty /\ fence = repo.head /\ UNCHANGED <<repo, fence, journal, asked>>
        /\ RestoreThen(build.best.head, "idle") \/ Goto("legacytest")
    BY <1>18 DEF LegacyScope, LegacyPlace
  <2>2. /\ DOMAIN build' = BuildFields /\ build'.best = build.best /\ build'.round = build.round
        /\ build'.at = "legacytest" \/ (build'.at = "reset" /\ build'.next = "idle" /\ build'.target = build.best.head)
    BY <1>1, <2>1, TaskMoves
  <2>. QED BY <1>1, <2>1, <2>2 DEF BuildShape, LegacyPlace
<1>19. CASE LegacyJudge
  <2>1. build.at = "legacytest" /\ ~repo.dirty /\ fence = repo.head /\ UNCHANGED <<repo, fence, journal, asked>>
    BY <1>19 DEF LegacyJudge, LegacyPlace
  <2>2. PICK t \in Outcomes :
          \/ build' = [build EXCEPT !.at = IF Green(t) THEN "done" ELSE "legacy", !.tests = t,
                         !.best = [head |-> repo.head, tests |-> t, iteration |-> build.round]]
          \/ RestoreThen(build.best.head, "legacy")
    BY <1>19 DEF LegacyJudge
  <2>3. CASE build' = [build EXCEPT !.at = IF Green(t) THEN "done" ELSE "legacy", !.tests = t,
                         !.best = [head |-> repo.head, tests |-> t, iteration |-> build.round]]
    <3>1. /\ DOMAIN build' = BuildFields /\ build'.at = (IF Green(t) THEN "done" ELSE "legacy") /\ build'.tests = t
          /\ build'.best.head = repo.head /\ build'.round = build.round
      BY <1>1, <2>3 DEF BuildFields
    <3>2. (build'.at = "done" /\ Green(build.tests)') \/ build'.at = "legacy"
      BY <3>1 DEF Green, Passed
    <3>. QED BY <1>1, <2>1, <3>1, <3>2 DEF BuildShape, LegacyPlace
  <2>4. CASE RestoreThen(build.best.head, "legacy")
    <3>1. /\ DOMAIN build' = BuildFields /\ build'.best = build.best /\ build'.round = build.round
          /\ build'.at = "reset" /\ build'.next = "legacy" /\ build'.target = build.best.head
      BY <1>1, <2>4, TaskMoves
    <3>. QED BY <1>1, <2>1, <3>1 DEF BuildShape, LegacyPlace
  <2>. QED BY <2>2, <2>3, <2>4
<1>20. CASE Kill
  <2>1. DOMAIN build' = BuildFields /\ build'.at = "idle" /\ build'.round = 0 /\ build'.best.head = 0 /\ UNCHANGED <<repo, journal, asked>>
    BY <1>20 DEF Kill, AtRest, BuildFields, NoBest
  <2>. QED BY <1>1, <2>1 DEF BuildShape, LegacyPlace
<1>21. CASE Finished
  BY <1>1, <1>21 DEF Finished, buildVars, BuildShape, LegacyPlace, Green, Passed
<1>. QED BY <1>10, <1>11, <1>12, <1>13, <1>14, <1>15, <1>16, <1>17, <1>18, <1>19, <1>20, <1>21 DEF BuildNext

\* Initially nothing is journalled, nothing is committed and the task is at rest.
LEMMA BuildInitially == BuildInit => BuildInv
<1>. SUFFICES ASSUME BuildInit PROVE BuildInv
  OBVIOUS
<1>1. /\ repo = [head |-> 0, dirty |-> FALSE] /\ tree = [c \in Commits |-> {}] /\ escaped = {} /\ fence = 0
      /\ journal = NoJournal /\ build = AtRest /\ asked = <<>>
  BY DEF BuildInit
<1>2. /\ DOMAIN journal = JournalFields /\ ~journal.open /\ journal.head = 0 /\ journal.calls = 0
      /\ journal.attempt = NoAttempt /\ journal.nodes = {} /\ journal.repairs = <<>> /\ journal.best = NoBest
      /\ ~journal.revert.on /\ NoBest.head = 0 /\ NoAttempt.kind \notin {"node", "repair"}
  BY <1>1 DEF NoJournal, NoRevert, NoBest, NoAttempt, Nothing, JournalFields
<1>3. /\ DOMAIN build = BuildFields /\ build.at = "idle" /\ build.round = 0 /\ build.best = NoBest
  BY <1>1 DEF AtRest, BuildFields
<1>4. 0 \in Commits /\ Len(asked) = 0 /\ MaxCalls \in Nat /\ asked \in Seq(Nat)
  BY <1>1, BuildAssumption DEF Commits
<1>5. BuildShape
  BY <1>1, <1>2, <1>3, <1>4 DEF BuildShape
<1>6. CommitsKnown
  BY <1>1, <1>2, <1>3, <1>4 DEF CommitsKnown, KnownCommit
<1>7. InFlight
  BY <1>1, <1>2 DEF InFlight
<1>8. RepairsJudged
  BY <1>2 DEF RepairsJudged
<1>9. AcceptedWork
  BY <1>1, <1>2, <1>4 DEF AcceptedWork, Accepted, NodeHeads
<1>10. CallsCounted
  BY <1>2, <1>3, <1>4 DEF CallsCounted
<1>11. AtPlace
  BY <1>3 DEF AtPlace, Measuring, WorkPlaces
<1>12. LegacyPlace
  BY <1>2, <1>3 DEF LegacyPlace
<1>. QED BY <1>5, <1>6, <1>7, <1>8, <1>9, <1>10, <1>11, <1>12 DEF BuildInv, WorkInv

\* The inductive invariant of the build stage, over a plan with work and the legacy loop.
THEOREM BuildInvariant == BuildSpec => []BuildInv
<1>1. BuildInit => BuildInv
  BY BuildInitially
<1>2. BuildInv /\ [BuildNext]_buildVars => BuildInv'
  <2>. SUFFICES ASSUME BuildInv, [BuildNext]_buildVars PROVE BuildInv'
    OBVIOUS
  <2>1. plan' = plan
    BY DEF BuildNext, buildVars, Open, Reset, Refence, StartNode, NodesDone, StartRepair, AgentAnswers, AgentRaises,
           Commit, RecordHead, Settle, Strike, Test, JudgeBest, JudgeRepair, Reverted, LegacyCall, LegacyScope,
           LegacyJudge, Kill, Finished
  <2>2. CASE UNCHANGED buildVars
    <3>1. Finished \/ build.at # "done"
      BY <2>2 DEF Finished
    <3>2. ASSUME plan # {} PROVE BuildShape' /\ WorkInv'
      BY <2>2, <3>2, BuildRests DEF buildVars, BuildInv
    <3>3. ASSUME plan = {} PROVE BuildShape' /\ LegacyPlace'
      BY <2>2, <3>3 DEF buildVars, BuildInv, BuildShape, LegacyPlace, Green, Passed
    <3>. QED BY <2>1, <3>2, <3>3 DEF BuildInv
  <2>3. CASE BuildNext
    <3>1. CASE plan # {}
      BY <2>1, <2>3, <3>1, BuildWorks DEF BuildInv
    <3>2. CASE plan = {}
      BY <2>1, <2>3, <3>2, BuildLegacy DEF BuildInv
    <3>. QED BY <3>1, <3>2
  <2>. QED BY <2>2, <2>3
<1>. QED BY <1>1, <1>2, PTL DEF BuildSpec

\* BuildAccounted for every plan, suite and bound: whatever died on the way, the candidate is made of accepted
\* work only and no call is made twice under one number.
THEOREM BuildIsAccounted == BuildSpec => []BuildAccounted
<1>1. BuildInv => BuildAccounted
  <2>. SUFFICES ASSUME BuildInv PROVE BuildAccounted
    OBVIOUS
  <2>1. CandidateIsAcceptedWork
    <3>. SUFFICES ASSUME plan # {}, Settled PROVE
           /\ {r.head : r \in journal.nodes} \ {0} \subseteq tree[journal.head]
           /\ tree[journal.head] \subseteq {r.head : r \in journal.nodes} \cup Kept
           /\ tree[journal.head] \cap escaped = {}
      BY DEF CandidateIsAcceptedWork
    <3>1. Accepted(journal.head, KeptOf(journal.repairs))
      BY DEF BuildInv, WorkInv, AcceptedWork, Settled
    <3>. QED BY <3>1 DEF Accepted, NodeHeads, KeptOf, Kept
  <2>2. CallsNeverReused
    <3>. SUFFICES ASSUME plan # {} PROVE \A i, j \in DOMAIN asked : asked[i] = asked[j] => i = j
      BY DEF CallsNeverReused
    <3>1. asked \in Seq(Nat) /\ CallsCounted
      BY DEF BuildInv, WorkInv, BuildShape
    <3>. QED BY <3>1 DEF CallsCounted
  <2>. QED BY <2>1, <2>2 DEF BuildAccounted
<1>. QED BY <1>1, BuildInvariant, PTL

\* DoneIsVerifiedBest for every plan, suite and bound: a stage that returns leaves the workspace, the fence and
\* the evidence on the best candidate, on which the suite was green.
THEOREM BuildDoneIsBest == BuildSpec => []DoneIsVerifiedBest
<1>1. BuildInv => DoneIsVerifiedBest
  <2>. SUFFICES ASSUME BuildInv, build.at = "done" PROVE DoneIsVerifiedBest
    BY DEF DoneIsVerifiedBest
  <2>1. repo \in [head : Nat, dirty : BOOLEAN]
    BY DEF BuildInv, BuildShape
  <2>2. CASE plan # {}
    <3>1. InFlight /\ AtPlace
      BY <2>2 DEF BuildInv, WorkInv
    <3>2. /\ fence = repo.head /\ repo.head = journal.head /\ ~repo.dirty /\ Pending = {} /\ journal.best.head = journal.head
          /\ Green(build.tests) /\ journal.verified = [head |-> journal.head, tests |-> build.tests]
      BY <3>1 DEF AtPlace, Measuring, InFlight
    <3>3. repo = [head |-> journal.best.head, dirty |-> FALSE]
      BY <2>1, <3>2
    <3>. QED BY <2>2, <3>2, <3>3 DEF DoneIsVerifiedBest
  <2>3. CASE plan = {}
    <3>1. fence = repo.head /\ ~repo.dirty /\ repo.head = build.best.head /\ Green(build.tests)
      BY <2>3 DEF BuildInv, LegacyPlace
    <3>2. repo = [head |-> build.best.head, dirty |-> FALSE]
      BY <2>1, <3>1
    <3>. QED BY <2>3, <3>1, <3>2 DEF DoneIsVerifiedBest
  <2>. QED BY <2>2, <2>3
<1>. QED BY <1>1, BuildInvariant, PTL

------------------------------------------------------------------------------
\* The fork waves of the build stage.

\* The steps of a runner and of the driver.
Reaping      == {"reap ok", "reap failed", "reap cancelled"}
\* The places of a runner and of the task, and the types of the wave and its journal.
RunnerPlaces == RunnerOver \cup {"queued", "listed", "asking", "working"} \cup Reaping
WavePlaces   == {"park", "run", "resume", "merge", "reclaim", "reap", "unpark", "finish"}
WaveTasks    == [at : WavePlaces \cup {"idle", "serial", "close"}, mode : {"none", "wave", "recover", "teardown"},
                 cancelled : BOOLEAN, resumed : BOOLEAN, failed : BOOLEAN, todo : SUBSET ForkNodes, debt : BOOLEAN]

\* The entry of a node in the wave journal, and the journal.
Entries      == [listed : BOOLEAN, requested : BOOLEAN, child : BOOLEAN, reaped : BOOLEAN]
WaveJournals == [on : BOOLEAN, round : 0 .. MaxWaves, parked : BOOLEAN, children : [ForkNodes -> Entries]]

\* The types of the wave, but for the counters the properties do not depend on.
ForkTypeOK ==
  /\ wave \in WaveJournals
  /\ parent \in {"running", "parked", "closed"}
  /\ vm \in [Keys -> {"none", "live", "stopped"}]
  /\ runner \in [ForkNodes -> RunnerPlaces]
  /\ task \in WaveTasks

\* The record of a wave is open while the driver works on it, and closed before serial work.
WaveOpen ==
  /\ wave.on => wave.round # 0
  /\ task.at \in WavePlaces => wave.on
  /\ task.at = "serial" => ~wave.on

\* A wave that runs and is not parked has its parent back; the parent stands while children run.
ParentKnown ==
  /\ task.at \in WavePlaces /\ task.mode = "wave" => parent # "closed"
  /\ task.at \in WavePlaces /\ task.mode = "wave" /\ ~wave.parked => parent = "running"
  /\ task.at \in {"park", "run", "resume"} => wave.parked
  /\ task.at \in {"run", "resume"} => parent = "parked"
  /\ task.at = "serial" => parent = "running"

\* What the journal says of a node whose runner is at a given step.
RunnerSound(r, e, cancelled) ==
  /\ r \in {"queued", "listed", "none"} => ~e.requested
  /\ r \in {"listed", "asking"} => ~e.reaped
  /\ r = "asking" => e.requested
  /\ r \in {"working", "ok"} \cup Reaping => e.child
  /\ r \in {"reap cancelled", "cancelled"} => cancelled

\* The runners live only in the pool; the parent is asked to resume only after all of them were ok.
RunnersKnown ==
  /\ task.at # "run" => \A n \in ForkNodes : runner[n] \in RunnerOver
  /\ task.at = "run" => \A n \in ForkNodes : RunnerSound(runner[n], wave.children[n], task.cancelled)
  /\ task.at = "park" => \A n \in ForkNodes : wave.children[n] = Unlisted
  /\ task.at = "resume" => \A n \in ForkNodes : ~wave.children[n].requested \/ wave.children[n].child

\* What a clean up has done so far: without debt every child that was asked for is known to be gone.
CleaningUp ==
  /\ task.at = "reclaim" => \A n \in task.todo : wave.children[n].requested /\ ~wave.children[n].reaped
  /\ task.at = "reap" /\ ~task.debt =>
       \A n \in ForkNodes \ task.todo : wave.children[n].child => wave.children[n].reaped
  /\ task.at \in {"unpark", "finish"} /\ ~task.debt =>
       \A n \in ForkNodes : wave.children[n].requested => wave.children[n].reaped
  /\ task.at = "finish" /\ ~task.debt /\ task.mode = "wave" => parent = "running"

\* The inductive invariant of a wave.
ForkInv == ForkTypeOK /\ WaveOpen /\ ParentKnown /\ RunnersKnown /\ CleaningUp
           /\ LiveChildIsOwed /\ ParentParkedWhileLost

\* The least element of a set of nodes is one of it.
LEMMA MinOfNodes == \A S \in SUBSET ForkNodes : S # {} => Min(S) \in S
<1>1. SUFFICES ASSUME NEW S \in SUBSET ForkNodes, S # {} PROVE Min(S) \in S
  OBVIOUS
<1>0. S \in SUBSET Nat
  BY ForkAssumption
<1>2. \E x \in S : \A y \in S : x <= y
  BY <1>0, <1>1, LeastNatural
<1>. QED BY <1>2 DEF Min

\* The outcomes a runner ends with.
LEMMA Outcomes3 ==
  /\ DOMAIN Outcome = Reaping
  /\ Outcome["reap ok"] = "ok" /\ Outcome["reap failed"] = "failed" /\ Outcome["reap cancelled"] = "cancelled"
BY DEF Outcome, Reaping

\* The key of a node of an open wave.
LEMMA KeyOfNode ==
  ASSUME ForkTypeOK, WaveOpen, wave.on, NEW n \in ForkNodes
  PROVE  /\ Key(n) \in Keys /\ Key(n)[1] = wave.round /\ Key(n)[2] = n
         /\ \A k \in Keys : k[1] = wave.round /\ k[2] = n => k = Key(n)
BY ForkAssumption DEF ForkTypeOK, WaveJournals, WaveOpen, Keys, Key

\* Writing one entry leaves the rest of the journal alone.
LEMMA EntryWritten ==
  ASSUME ForkTypeOK, NEW n \in ForkNodes, NEW e \in Entries, Entry(n, e)
  PROVE  /\ wave' \in WaveJournals /\ wave'.on = wave.on /\ wave'.round = wave.round /\ wave'.parked = wave.parked
         /\ wave'.children = [wave.children EXCEPT ![n] = e]
         /\ wave'.children[n] = e
         /\ \A m \in ForkNodes \ {n} : wave'.children[m] = wave.children[m]
BY DEF ForkTypeOK, WaveJournals, Entry

\* The stage starts with no wave and a running parent.
LEMMA ForkInitially == ForkInit => ForkInv
BY ForkAssumption DEF ForkInit, ForkInv, ForkTypeOK, WaveJournals, WaveTasks, Entries, NoWave, Unlisted, Resting, RunnerPlaces,
   RunnerOver, WaveOpen, WavePlaces, ParentKnown, RunnersKnown, CleaningUp, LiveChildIsOwed, ParentParkedWhileLost, Keys

\* A new journal is opened.
LEMMA ForkOpens ==
  ASSUME ForkInv, task.at = "idle",
         ~wave.on,
         parent = "running",
         wave' \in WaveJournals,
         wave'.on,
         wave'.round # 0,
         wave'.parked,
         \A n \in ForkNodes : wave'.children[n] = Unlisted,
         task' \in WaveTasks,
         task'.at = "park",
         UNCHANGED <<parent, vm, leaseOver, runner>>
  PROVE  ForkInv'
<1>1. ForkTypeOK /\ WaveOpen /\ ParentKnown /\ RunnersKnown /\ CleaningUp /\ LiveChildIsOwed /\ ParentParkedWhileLost
  BY DEF ForkInv
<1>2. /\ vm \in [Keys -> {"none", "live", "stopped"}] /\ runner \in [ForkNodes -> RunnerPlaces]
      /\ parent \in {"running", "parked", "closed"} /\ task.at \in WavePlaces \cup {"idle", "serial", "close"}
      /\ wave.children \in [ForkNodes -> Entries]
      /\ task.mode \in {"none", "wave", "recover", "teardown"}
      /\ \A m \in ForkNodes : wave.children[m] \in Entries
  BY <1>1 DEF ForkTypeOK, WaveTasks, WaveJournals
<1>3. ForkTypeOK'
  BY <1>1, <1>2 DEF ForkTypeOK, RunnerPlaces, RunnerOver, Reaping
<1>4. WaveOpen'
  BY <1>1, <1>2 DEF WaveOpen, WavePlaces
<1>5. ParentKnown'
  BY <1>1, <1>2 DEF ParentKnown, WaveOpen, WavePlaces
<1>6. RunnersKnown'
  BY <1>1, <1>2 DEF RunnersKnown, RunnerSound, RunnerPlaces, RunnerOver, Reaping, Unlisted
<1>7. CleaningUp'
  BY <1>1, <1>2 DEF CleaningUp, WaveTasks, Lost
<1>8. LiveChildIsOwed'
  BY <1>1, <1>2 DEF LiveChildIsOwed, Named, Unlisted
<1>9. ParentParkedWhileLost'
  BY <1>1, <1>2 DEF ParentParkedWhileLost, Lost, RunnersKnown, ParentKnown, WaveOpen, WavePlaces, Unlisted
<1>. QED BY <1>3, <1>4, <1>5, <1>6, <1>7, <1>8, <1>9 DEF ForkInv

\* The driver takes a step of its own.
LEMMA ForkMoves ==
  ASSUME ForkInv, task' \in WaveTasks,
         UNCHANGED <<wave, parent, vm, leaseOver, runner>>,
         task.at # "run" \/ \A n \in ForkNodes : runner[n] \in RunnerOver,
         task'.at \notin {"park", "run"},
         task'.at \in WavePlaces => wave.on,
         task'.at = "serial" => ~wave.on,
         task'.at \in WavePlaces /\ task'.mode = "wave" => parent # "closed" /\ (~wave.parked => parent = "running"),
         task'.at = "serial" => parent = "running",
         task'.at = "resume" => /\ wave.parked /\ parent = "parked" /\ \A n \in ForkNodes : ~wave.children[n].requested \/ wave.children[n].child,
         task'.at = "reclaim" => task'.todo \subseteq Lost(wave),
         task'.at = "reap" => task'.todo = ForkNodes,
         task'.at \in {"unpark", "finish"} /\ ~task'.debt => \A n \in ForkNodes : wave.children[n].requested => wave.children[n].reaped,
         task'.at = "finish" /\ ~task'.debt /\ task'.mode = "wave" => parent = "running"
  PROVE  ForkInv'
<1>1. ForkTypeOK /\ WaveOpen /\ ParentKnown /\ RunnersKnown /\ CleaningUp /\ LiveChildIsOwed /\ ParentParkedWhileLost
  BY DEF ForkInv
<1>2. /\ vm \in [Keys -> {"none", "live", "stopped"}] /\ runner \in [ForkNodes -> RunnerPlaces]
      /\ parent \in {"running", "parked", "closed"} /\ task.at \in WavePlaces \cup {"idle", "serial", "close"}
      /\ wave.children \in [ForkNodes -> Entries]
      /\ task.mode \in {"none", "wave", "recover", "teardown"}
      /\ \A m \in ForkNodes : wave.children[m] \in Entries
  BY <1>1 DEF ForkTypeOK, WaveTasks, WaveJournals
<1>3. ForkTypeOK'
  BY <1>1, <1>2 DEF ForkTypeOK, RunnerPlaces, RunnerOver, Reaping
<1>4. WaveOpen'
  BY <1>1, <1>2 DEF WaveOpen, WavePlaces
<1>5. ParentKnown'
  BY <1>1, <1>2 DEF ParentKnown, WaveOpen, WavePlaces
<1>6. RunnersKnown'
  BY <1>1, <1>2 DEF RunnersKnown, RunnerSound, RunnerPlaces, RunnerOver, Reaping, Unlisted
<1>7. CleaningUp'
  BY <1>1, <1>2 DEF CleaningUp, WaveTasks, Lost
<1>8. LiveChildIsOwed'
  BY <1>1, <1>2 DEF LiveChildIsOwed, Named
<1>9. ParentParkedWhileLost'
  BY <1>1, <1>2 DEF ParentParkedWhileLost, Lost, RunnersKnown, ParentKnown, WaveOpen, WavePlaces
<1>. QED BY <1>3, <1>4, <1>5, <1>6, <1>7, <1>8, <1>9 DEF ForkInv

\* The driver cancels what has not started.
LEMMA ForkKeepsPool ==
  ASSUME ForkInv, task.at = "run",
         task' \in WaveTasks,
         task'.at = "run",
         task'.cancelled,
         runner' = [n \in ForkNodes |-> IF runner[n] = "queued" THEN "none" ELSE runner[n]],
         UNCHANGED <<wave, parent, vm, leaseOver>>
  PROVE  ForkInv'
<1>1. ForkTypeOK /\ WaveOpen /\ ParentKnown /\ RunnersKnown /\ CleaningUp /\ LiveChildIsOwed /\ ParentParkedWhileLost
  BY DEF ForkInv
<1>2. /\ vm \in [Keys -> {"none", "live", "stopped"}] /\ runner \in [ForkNodes -> RunnerPlaces]
      /\ parent \in {"running", "parked", "closed"} /\ task.at \in WavePlaces \cup {"idle", "serial", "close"}
      /\ wave.children \in [ForkNodes -> Entries]
      /\ task.mode \in {"none", "wave", "recover", "teardown"}
      /\ \A m \in ForkNodes : wave.children[m] \in Entries
  BY <1>1 DEF ForkTypeOK, WaveTasks, WaveJournals
<1>3. ForkTypeOK'
  BY <1>1, <1>2 DEF ForkTypeOK, RunnerPlaces, RunnerOver, Reaping
<1>4. WaveOpen'
  BY <1>1, <1>2 DEF WaveOpen, WavePlaces
<1>5. ParentKnown'
  BY <1>1, <1>2 DEF ParentKnown, WaveOpen, WavePlaces
<1>6. RunnersKnown'
  BY <1>1, <1>2 DEF RunnersKnown, RunnerSound, RunnerPlaces, RunnerOver, Reaping, Unlisted
<1>7. CleaningUp'
  BY <1>1, <1>2 DEF CleaningUp, WaveTasks, Lost
<1>8. LiveChildIsOwed'
  BY <1>1, <1>2 DEF LiveChildIsOwed, Named
<1>9. ParentParkedWhileLost'
  BY <1>1, <1>2 DEF ParentParkedWhileLost, Lost, RunnersKnown, ParentKnown, WaveOpen, WavePlaces
<1>. QED BY <1>3, <1>4, <1>5, <1>6, <1>7, <1>8, <1>9 DEF ForkInv

\* The parent stands and the pool starts.
LEMMA ForkStartsPool ==
  ASSUME ForkInv, task.at = "park",
         task' \in WaveTasks,
         task'.at = "run",
         parent' = "parked",
         runner' \in [ForkNodes -> {"queued", "none"}],
         UNCHANGED <<wave, vm, leaseOver>>
  PROVE  ForkInv'
<1>1. ForkTypeOK /\ WaveOpen /\ ParentKnown /\ RunnersKnown /\ CleaningUp /\ LiveChildIsOwed /\ ParentParkedWhileLost
  BY DEF ForkInv
<1>2. /\ vm \in [Keys -> {"none", "live", "stopped"}] /\ runner \in [ForkNodes -> RunnerPlaces]
      /\ parent \in {"running", "parked", "closed"} /\ task.at \in WavePlaces \cup {"idle", "serial", "close"}
      /\ wave.children \in [ForkNodes -> Entries]
      /\ task.mode \in {"none", "wave", "recover", "teardown"}
      /\ \A m \in ForkNodes : wave.children[m] \in Entries
  BY <1>1 DEF ForkTypeOK, WaveTasks, WaveJournals
<1>3. ForkTypeOK'
  BY <1>1, <1>2 DEF ForkTypeOK, RunnerPlaces, RunnerOver, Reaping
<1>4. WaveOpen'
  BY <1>1, <1>2 DEF WaveOpen, WavePlaces
<1>5. ParentKnown'
  BY <1>1, <1>2 DEF ParentKnown, WaveOpen, WavePlaces
<1>6. RunnersKnown'
  <2>1. \A n \in ForkNodes : ~wave.children[n].requested
    BY <1>1 DEF RunnersKnown, Unlisted
  <2>2. \A n \in ForkNodes : runner'[n] \in {"queued", "none"}
    OBVIOUS
  <2>. QED BY <2>1, <2>2 DEF RunnersKnown, RunnerSound, Reaping
<1>7. CleaningUp'
  BY <1>1, <1>2 DEF CleaningUp, WaveTasks, Lost
<1>8. LiveChildIsOwed'
  BY <1>1, <1>2 DEF LiveChildIsOwed, Named
<1>9. ParentParkedWhileLost'
  BY <1>1, <1>2 DEF ParentParkedWhileLost, Lost, RunnersKnown, ParentKnown, WaveOpen, WavePlaces
<1>. QED BY <1>3, <1>4, <1>5, <1>6, <1>7, <1>8, <1>9 DEF ForkInv

\* The parent is stopped or comes back, on a journal without lost forks.
LEMMA ForkParentMoves ==
  ASSUME ForkInv, task.at \in {"park", "resume", "unpark"},
         Lost(wave) = {},
         parent' \in {"running", "parked"},
         wave' \in WaveJournals,
         wave'.on,
         wave'.round = wave.round,
         wave'.children = wave.children,
         ~wave'.parked => parent' = "running",
         task' \in WaveTasks,
         task'.at \in {"reclaim", "merge", "finish"},
         task'.at = "reclaim" => task'.todo = {},
         task'.at = "finish" => task.at = "unpark" /\ (~task'.debt => ~task.debt /\ parent' = "running"),
         UNCHANGED <<vm, leaseOver, runner>>
  PROVE  ForkInv'
<1>1. ForkTypeOK /\ WaveOpen /\ ParentKnown /\ RunnersKnown /\ CleaningUp /\ LiveChildIsOwed /\ ParentParkedWhileLost
  BY DEF ForkInv
<1>2. /\ vm \in [Keys -> {"none", "live", "stopped"}] /\ runner \in [ForkNodes -> RunnerPlaces]
      /\ parent \in {"running", "parked", "closed"} /\ task.at \in WavePlaces \cup {"idle", "serial", "close"}
      /\ wave.children \in [ForkNodes -> Entries]
      /\ task.mode \in {"none", "wave", "recover", "teardown"}
      /\ \A m \in ForkNodes : wave.children[m] \in Entries
  BY <1>1 DEF ForkTypeOK, WaveTasks, WaveJournals
<1>3. ForkTypeOK'
  BY <1>1, <1>2 DEF ForkTypeOK, RunnerPlaces, RunnerOver, Reaping
<1>4. WaveOpen'
  BY <1>1, <1>2 DEF WaveOpen, WavePlaces
<1>5. ParentKnown'
  BY <1>1, <1>2 DEF ParentKnown, WaveOpen, WavePlaces
<1>6. RunnersKnown'
  BY <1>1, <1>2 DEF RunnersKnown, RunnerSound, RunnerPlaces, RunnerOver, Reaping, Unlisted
<1>7. CleaningUp'
  BY <1>1, <1>2 DEF CleaningUp, WaveTasks, Lost
<1>8. LiveChildIsOwed'
  BY <1>1, <1>2 DEF LiveChildIsOwed, Named
<1>9. ParentParkedWhileLost'
  BY <1>1, <1>2 DEF ParentParkedWhileLost, Lost, RunnersKnown, ParentKnown, WaveOpen, WavePlaces
<1>. QED BY <1>3, <1>4, <1>5, <1>6, <1>7, <1>8, <1>9 DEF ForkInv

\* A runner moves, with its entry.
LEMMA ForkWrites ==
  ASSUME ForkInv, NEW n \in ForkNodes, task.at = "run",
         wave' \in WaveJournals,
         wave'.on = wave.on,
         wave'.round = wave.round,
         wave'.parked = wave.parked,
         \A m \in ForkNodes \ {n} : wave'.children[m] = wave.children[m],
         NEW r \in RunnerPlaces,
         runner' = [runner EXCEPT ![n] = r],
         RunnerSound(r, wave'.children[n], task.cancelled),
         wave.children[n].requested => wave'.children[n].requested,
         wave'.children[n].reaped => wave.children[n].reaped \/ ~wave.children[n].requested \/ vm'[Key(n)] # "live",
         vm' = vm \/ vm' = [vm EXCEPT ![Key(n)] = "stopped"],
         UNCHANGED <<parent, leaseOver, task>>
  PROVE  ForkInv'
<1>1. ForkTypeOK /\ WaveOpen /\ ParentKnown /\ RunnersKnown /\ CleaningUp /\ LiveChildIsOwed /\ ParentParkedWhileLost
  BY DEF ForkInv
<1>2. /\ vm \in [Keys -> {"none", "live", "stopped"}] /\ runner \in [ForkNodes -> RunnerPlaces]
      /\ parent \in {"running", "parked", "closed"} /\ task.at \in WavePlaces \cup {"idle", "serial", "close"}
      /\ wave.children \in [ForkNodes -> Entries]
      /\ task.mode \in {"none", "wave", "recover", "teardown"}
      /\ \A m \in ForkNodes : wave.children[m] \in Entries
  BY <1>1 DEF ForkTypeOK, WaveTasks, WaveJournals
<1>3. ForkTypeOK'
  BY <1>1, <1>2 DEF ForkTypeOK, RunnerPlaces, RunnerOver, Reaping
<1>4. WaveOpen'
  BY <1>1, <1>2 DEF WaveOpen, WavePlaces
<1>5. ParentKnown'
  BY <1>1, <1>2 DEF ParentKnown, WaveOpen, WavePlaces
<1>6. RunnersKnown'
  BY <1>1, <1>2 DEF RunnersKnown, RunnerSound, RunnerPlaces, RunnerOver, Reaping, Unlisted
<1>7. CleaningUp'
  BY <1>1, <1>2 DEF CleaningUp, WaveTasks, Lost
<1>8. LiveChildIsOwed'
  <2>1. /\ wave.on /\ Key(n) \in Keys /\ Key(n)[1] = wave.round /\ Key(n)[2] = n
        /\ \A k \in Keys : k[1] = wave.round /\ k[2] = n => k = Key(n)
    BY <1>1, KeyOfNode DEF WaveOpen, WavePlaces
  <2>2. ASSUME NEW k \in Keys, vm'[k] = "live", k \notin leaseOver' PROVE Named(k)'
    <3>1. vm[k] = "live" /\ Named(k)
      BY <1>1, <1>2, <2>1, <2>2 DEF LiveChildIsOwed
    <3>2. k[2] \in ForkNodes
      BY DEF Keys
    <3>3. CASE k[2] = n
      BY <2>1, <2>2, <3>1, <3>3 DEF Named
    <3>4. CASE k[2] # n
      BY <3>1, <3>2, <3>4 DEF Named
    <3>. QED BY <3>3, <3>4
  <2>. QED BY <2>2 DEF LiveChildIsOwed
<1>9. ParentParkedWhileLost'
  BY <1>1, <1>2 DEF ParentParkedWhileLost, Lost, RunnersKnown, ParentKnown, WaveOpen, WavePlaces
<1>. QED BY <1>3, <1>4, <1>5, <1>6, <1>7, <1>8, <1>9 DEF ForkInv

\* Nothing the properties speak of changes.
LEMMA ForkRests ==
  ASSUME ForkInv, UNCHANGED <<task, wave, parent, vm, leaseOver, runner>>
  PROVE  ForkInv'
<1>1. ForkTypeOK /\ WaveOpen /\ ParentKnown /\ RunnersKnown /\ CleaningUp /\ LiveChildIsOwed /\ ParentParkedWhileLost
  BY DEF ForkInv
<1>2. /\ vm \in [Keys -> {"none", "live", "stopped"}] /\ runner \in [ForkNodes -> RunnerPlaces]
      /\ parent \in {"running", "parked", "closed"} /\ task.at \in WavePlaces \cup {"idle", "serial", "close"}
      /\ wave.children \in [ForkNodes -> Entries]
      /\ task.mode \in {"none", "wave", "recover", "teardown"}
      /\ \A m \in ForkNodes : wave.children[m] \in Entries
  BY <1>1 DEF ForkTypeOK, WaveTasks, WaveJournals
<1>3. ForkTypeOK'
  BY <1>1, <1>2 DEF ForkTypeOK, RunnerPlaces, RunnerOver, Reaping
<1>4. WaveOpen'
  BY <1>1, <1>2 DEF WaveOpen, WavePlaces
<1>5. ParentKnown'
  BY <1>1, <1>2 DEF ParentKnown, WaveOpen, WavePlaces
<1>6. RunnersKnown'
  BY <1>1, <1>2 DEF RunnersKnown, RunnerSound, RunnerPlaces, RunnerOver, Reaping, Unlisted
<1>7. CleaningUp'
  BY <1>1, <1>2 DEF CleaningUp, WaveTasks, Lost
<1>8. LiveChildIsOwed'
  BY <1>1, <1>2 DEF LiveChildIsOwed, Named
<1>9. ParentParkedWhileLost'
  BY <1>1, <1>2 DEF ParentParkedWhileLost, Lost, RunnersKnown, ParentKnown, WaveOpen, WavePlaces
<1>. QED BY <1>3, <1>4, <1>5, <1>6, <1>7, <1>8, <1>9 DEF ForkInv

\* The provider makes a child that the journal names.
LEMMA ForkMakesChild ==
  ASSUME ForkInv, NEW n \in ForkNodes, wave.on,
         wave.children[n].requested,
         ~wave.children[n].reaped,
         vm' = [vm EXCEPT ![Key(n)] = "live"],
         UNCHANGED <<wave, parent, leaseOver, runner, task>>
  PROVE  ForkInv'
<1>1. ForkTypeOK /\ WaveOpen /\ ParentKnown /\ RunnersKnown /\ CleaningUp /\ LiveChildIsOwed /\ ParentParkedWhileLost
  BY DEF ForkInv
<1>2. /\ vm \in [Keys -> {"none", "live", "stopped"}] /\ runner \in [ForkNodes -> RunnerPlaces]
      /\ parent \in {"running", "parked", "closed"} /\ task.at \in WavePlaces \cup {"idle", "serial", "close"}
      /\ wave.children \in [ForkNodes -> Entries]
      /\ task.mode \in {"none", "wave", "recover", "teardown"}
      /\ \A m \in ForkNodes : wave.children[m] \in Entries
  BY <1>1 DEF ForkTypeOK, WaveTasks, WaveJournals
<1>3. ForkTypeOK'
  <2>1. /\ wave.on /\ Key(n) \in Keys /\ Key(n)[1] = wave.round /\ Key(n)[2] = n
        /\ \A k \in Keys : k[1] = wave.round /\ k[2] = n => k = Key(n)
    BY <1>1, KeyOfNode
  <2>. QED BY <1>1, <1>2, <2>1 DEF ForkTypeOK
<1>4. WaveOpen'
  BY <1>1, <1>2 DEF WaveOpen, WavePlaces
<1>5. ParentKnown'
  BY <1>1, <1>2 DEF ParentKnown, WaveOpen, WavePlaces
<1>6. RunnersKnown'
  BY <1>1, <1>2 DEF RunnersKnown, RunnerSound, RunnerPlaces, RunnerOver, Reaping, Unlisted
<1>7. CleaningUp'
  BY <1>1, <1>2 DEF CleaningUp, WaveTasks, Lost
<1>8. LiveChildIsOwed'
  <2>1. /\ wave.on /\ Key(n) \in Keys /\ Key(n)[1] = wave.round /\ Key(n)[2] = n
        /\ \A k \in Keys : k[1] = wave.round /\ k[2] = n => k = Key(n)
    BY <1>1, KeyOfNode
  <2>2. ASSUME NEW k \in Keys, vm'[k] = "live", k \notin leaseOver' PROVE Named(k)'
    <3>1. CASE k = Key(n)
      BY <2>1, <3>1 DEF Named
    <3>2. CASE k # Key(n)
      <4>1. vm[k] = "live" /\ Named(k)
        BY <1>1, <1>2, <2>1, <2>2, <3>2 DEF LiveChildIsOwed
      <4>. QED BY <4>1 DEF Named
    <3>. QED BY <3>1, <3>2
  <2>. QED BY <2>2 DEF LiveChildIsOwed
<1>9. ParentParkedWhileLost'
  BY <1>1, <1>2 DEF ParentParkedWhileLost, Lost, RunnersKnown, ParentKnown, WaveOpen, WavePlaces
<1>. QED BY <1>3, <1>4, <1>5, <1>6, <1>7, <1>8, <1>9 DEF ForkInv

\* A lost fork is asked for again under its key.
LEMMA ForkAsksAgain ==
  ASSUME ForkInv, NEW n \in ForkNodes, task.at = "reclaim",
         n \in task.todo,
         vm' \in [Keys -> {"none", "live", "stopped"}],
         \A k \in Keys \ {Key(n)} : vm'[k] = vm[k],
         wave' \in WaveJournals,
         wave'.on = wave.on,
         wave'.round = wave.round,
         wave'.parked = wave.parked,
         \A m \in ForkNodes \ {n} : wave'.children[m] = wave.children[m],
         wave'.children[n].requested = wave.children[n].requested,
         wave.children[n].child => wave'.children[n].child,
         wave'.children[n].reaped = wave.children[n].reaped,
         task' \in WaveTasks,
         task'.at = "reclaim",
         task'.mode = task.mode,
         task'.todo = task.todo \ {n},
         UNCHANGED <<parent, leaseOver, runner>>
  PROVE  ForkInv'
<1>1. ForkTypeOK /\ WaveOpen /\ ParentKnown /\ RunnersKnown /\ CleaningUp /\ LiveChildIsOwed /\ ParentParkedWhileLost
  BY DEF ForkInv
<1>2. /\ vm \in [Keys -> {"none", "live", "stopped"}] /\ runner \in [ForkNodes -> RunnerPlaces]
      /\ parent \in {"running", "parked", "closed"} /\ task.at \in WavePlaces \cup {"idle", "serial", "close"}
      /\ wave.children \in [ForkNodes -> Entries]
      /\ task.mode \in {"none", "wave", "recover", "teardown"}
      /\ \A m \in ForkNodes : wave.children[m] \in Entries
  BY <1>1 DEF ForkTypeOK, WaveTasks, WaveJournals
<1>3. ForkTypeOK'
  BY <1>1, <1>2 DEF ForkTypeOK
<1>4. WaveOpen'
  BY <1>1, <1>2 DEF WaveOpen, WavePlaces
<1>5. ParentKnown'
  BY <1>1, <1>2 DEF ParentKnown, WaveOpen, WavePlaces
<1>6. RunnersKnown'
  BY <1>1, <1>2 DEF RunnersKnown, RunnerSound, RunnerPlaces, RunnerOver, Reaping, Unlisted
<1>7. CleaningUp'
  BY <1>1, <1>2 DEF CleaningUp, WaveTasks, Lost
<1>8. LiveChildIsOwed'
  <2>1. /\ wave.on /\ Key(n) \in Keys /\ Key(n)[1] = wave.round /\ Key(n)[2] = n
        /\ \A k \in Keys : k[1] = wave.round /\ k[2] = n => k = Key(n)
    BY <1>1, KeyOfNode DEF WaveOpen, WavePlaces
  <2>2. ASSUME NEW k \in Keys, vm'[k] = "live", k \notin leaseOver' PROVE Named(k)'
    <3>1. CASE k = Key(n)
      BY <1>1, <2>1, <3>1 DEF Named, CleaningUp
    <3>2. CASE k # Key(n)
      <4>1. vm[k] = "live" /\ Named(k) /\ k[2] \in ForkNodes \ {n}
        BY <1>1, <1>2, <2>1, <2>2, <3>2 DEF LiveChildIsOwed, Named, Keys
      <4>. QED BY <4>1 DEF Named
    <3>. QED BY <3>1, <3>2
  <2>. QED BY <2>2 DEF LiveChildIsOwed
<1>9. ParentParkedWhileLost'
  BY <1>1, <1>2 DEF ParentParkedWhileLost, Lost, RunnersKnown, ParentKnown, WaveOpen, WavePlaces
<1>. QED BY <1>3, <1>4, <1>5, <1>6, <1>7, <1>8, <1>9 DEF ForkInv

\* A child is stopped, found gone, or becomes debt.
LEMMA ForkReapsOne ==
  ASSUME ForkInv, NEW n \in ForkNodes, task.at = "reap",
         n \in task.todo,
         vm' \in [Keys -> {"none", "live", "stopped"}],
         \A k \in Keys \ {Key(n)} : vm'[k] = vm[k],
         vm'[Key(n)] = vm[Key(n)] \/ vm'[Key(n)] = "stopped",
         wave' \in WaveJournals,
         wave'.on = wave.on,
         wave'.round = wave.round,
         wave'.parked = wave.parked,
         \A m \in ForkNodes \ {n} : wave'.children[m] = wave.children[m],
         wave'.children[n].requested = wave.children[n].requested,
         wave.children[n].child => wave'.children[n].child,
         wave'.children[n].child = wave.children[n].child,
         wave.children[n].reaped => wave'.children[n].reaped,
         wave'.children[n].reaped /\ ~wave.children[n].reaped => vm'[Key(n)] = "stopped",
         task' \in WaveTasks,
         task'.at = "reap",
         task'.mode = task.mode,
         task'.todo = task.todo \ {n},
         ~task'.debt => ~task.debt /\ (wave'.children[n].child => wave'.children[n].reaped),
         UNCHANGED <<parent, leaseOver, runner>>
  PROVE  ForkInv'
<1>1. ForkTypeOK /\ WaveOpen /\ ParentKnown /\ RunnersKnown /\ CleaningUp /\ LiveChildIsOwed /\ ParentParkedWhileLost
  BY DEF ForkInv
<1>2. /\ vm \in [Keys -> {"none", "live", "stopped"}] /\ runner \in [ForkNodes -> RunnerPlaces]
      /\ parent \in {"running", "parked", "closed"} /\ task.at \in WavePlaces \cup {"idle", "serial", "close"}
      /\ wave.children \in [ForkNodes -> Entries]
      /\ task.mode \in {"none", "wave", "recover", "teardown"}
      /\ \A m \in ForkNodes : wave.children[m] \in Entries
  BY <1>1 DEF ForkTypeOK, WaveTasks, WaveJournals
<1>3. ForkTypeOK'
  BY <1>1, <1>2 DEF ForkTypeOK
<1>4. WaveOpen'
  BY <1>1, <1>2 DEF WaveOpen, WavePlaces
<1>5. ParentKnown'
  BY <1>1, <1>2 DEF ParentKnown, WaveOpen, WavePlaces
<1>6. RunnersKnown'
  BY <1>1, <1>2 DEF RunnersKnown, RunnerSound, RunnerPlaces, RunnerOver, Reaping, Unlisted
<1>7. CleaningUp'
  BY <1>1, <1>2 DEF CleaningUp, WaveTasks, Lost
<1>8. LiveChildIsOwed'
  <2>1. /\ wave.on /\ Key(n) \in Keys /\ Key(n)[1] = wave.round /\ Key(n)[2] = n
        /\ \A k \in Keys : k[1] = wave.round /\ k[2] = n => k = Key(n)
    BY <1>1, KeyOfNode DEF WaveOpen, WavePlaces
  <2>2. ASSUME NEW k \in Keys, vm'[k] = "live", k \notin leaseOver' PROVE Named(k)'
    <3>1. vm[k] = "live" /\ Named(k) /\ k[2] \in ForkNodes
      BY <1>1, <2>1, <2>2 DEF LiveChildIsOwed, Keys
    <3>2. CASE k = Key(n)
      BY <1>1, <2>1, <2>2, <3>1, <3>2 DEF Named
    <3>3. CASE k # Key(n)
      <4>1. k[2] \in ForkNodes \ {n}
        BY <2>1, <3>1, <3>3 DEF Named
      <4>. QED BY <3>1, <4>1 DEF Named
    <3>. QED BY <3>2, <3>3
  <2>. QED BY <2>2 DEF LiveChildIsOwed
<1>9. ParentParkedWhileLost'
  BY <1>1, <1>2 DEF ParentParkedWhileLost, Lost, RunnersKnown, ParentKnown, WaveOpen, WavePlaces
<1>. QED BY <1>3, <1>4, <1>5, <1>6, <1>7, <1>8, <1>9 DEF ForkInv

\* What was never identified is debt, unless its lease has run out.
LEMMA ForkReapEnds ==
  ASSUME ForkInv, task.at = "reap",
         task.todo = {},
         wave' \in WaveJournals,
         wave'.on = wave.on,
         wave'.round = wave.round,
         wave'.parked = wave.parked,
         \A n \in ForkNodes : /\ wave'.children[n].requested = wave.children[n].requested /\ wave'.children[n].child = wave.children[n].child
                              /\ wave'.children[n].reaped <=> wave.children[n].reaped \/ n \in Expired,
         task' \in WaveTasks,
         task'.at \in {"finish", "unpark"},
         task'.mode = task.mode,
         task'.at = "finish" => task'.mode = "teardown",
         ~task'.debt => ~task.debt /\ Lost(wave) = Expired,
         UNCHANGED <<parent, vm, leaseOver, runner>>
  PROVE  ForkInv'
<1>1. ForkTypeOK /\ WaveOpen /\ ParentKnown /\ RunnersKnown /\ CleaningUp /\ LiveChildIsOwed /\ ParentParkedWhileLost
  BY DEF ForkInv
<1>2. /\ vm \in [Keys -> {"none", "live", "stopped"}] /\ runner \in [ForkNodes -> RunnerPlaces]
      /\ parent \in {"running", "parked", "closed"} /\ task.at \in WavePlaces \cup {"idle", "serial", "close"}
      /\ wave.children \in [ForkNodes -> Entries]
      /\ task.mode \in {"none", "wave", "recover", "teardown"}
      /\ \A m \in ForkNodes : wave.children[m] \in Entries
  BY <1>1 DEF ForkTypeOK, WaveTasks, WaveJournals
<1>3. ForkTypeOK'
  BY <1>1, <1>2 DEF ForkTypeOK, RunnerPlaces, RunnerOver, Reaping
<1>4. WaveOpen'
  BY <1>1, <1>2 DEF WaveOpen, WavePlaces
<1>5. ParentKnown'
  BY <1>1, <1>2 DEF ParentKnown, WaveOpen, WavePlaces
<1>6. RunnersKnown'
  BY <1>1, <1>2 DEF RunnersKnown, RunnerSound, RunnerPlaces, RunnerOver, Reaping, Unlisted
<1>7. CleaningUp'
  BY <1>1, <1>2 DEF CleaningUp, WaveTasks, Lost, Expired
<1>8. LiveChildIsOwed'
  <2>1. ASSUME NEW k \in Keys, vm'[k] = "live", k \notin leaseOver' PROVE Named(k)'
    <3>1. Named(k) /\ k[2] \in ForkNodes
      BY <1>1, <2>1 DEF LiveChildIsOwed, Keys
    <3>2. k[2] \in Expired => Key(k[2]) = k
      BY <3>1 DEF Named, Key, Keys
    <3>3. k[2] \notin Expired
      BY <2>1, <3>2 DEF Expired
    <3>. QED BY <3>1, <3>3 DEF Named
  <2>. QED BY <2>1 DEF LiveChildIsOwed
<1>9. ParentParkedWhileLost'
  BY <1>1, <1>2 DEF ParentParkedWhileLost, Lost, RunnersKnown, ParentKnown, WaveOpen, WavePlaces
<1>. QED BY <1>3, <1>4, <1>5, <1>6, <1>7, <1>8, <1>9 DEF ForkInv

\* The record is closed when nothing is owed.
LEMMA ForkEnds ==
  ASSUME ForkInv, task.at = "finish",
         wave' \in WaveJournals,
         wave'.on = task.debt,
         wave'.round = wave.round,
         wave'.parked = wave.parked,
         wave'.children = wave.children,
         task' \in WaveTasks,
         task'.at \in {"idle", "serial", "close"},
         task'.at = "serial" => task.mode = "wave" /\ ~task.debt,
         runner' = [n \in ForkNodes |-> "none"],
         UNCHANGED <<parent, vm, leaseOver>>
  PROVE  ForkInv'
<1>1. ForkTypeOK /\ WaveOpen /\ ParentKnown /\ RunnersKnown /\ CleaningUp /\ LiveChildIsOwed /\ ParentParkedWhileLost
  BY DEF ForkInv
<1>2. /\ vm \in [Keys -> {"none", "live", "stopped"}] /\ runner \in [ForkNodes -> RunnerPlaces]
      /\ parent \in {"running", "parked", "closed"} /\ task.at \in WavePlaces \cup {"idle", "serial", "close"}
      /\ wave.children \in [ForkNodes -> Entries]
      /\ task.mode \in {"none", "wave", "recover", "teardown"}
      /\ \A m \in ForkNodes : wave.children[m] \in Entries
  BY <1>1 DEF ForkTypeOK, WaveTasks, WaveJournals
<1>3. ForkTypeOK'
  BY <1>1, <1>2 DEF ForkTypeOK, RunnerPlaces, RunnerOver, Reaping
<1>4. WaveOpen'
  BY <1>1, <1>2 DEF WaveOpen, WavePlaces
<1>5. ParentKnown'
  BY <1>1, <1>2 DEF ParentKnown, WaveOpen, WavePlaces, CleaningUp
<1>6. RunnersKnown'
  BY <1>1, <1>2 DEF RunnersKnown, RunnerSound, RunnerPlaces, RunnerOver, Reaping, Unlisted
<1>7. CleaningUp'
  BY <1>1, <1>2 DEF CleaningUp, WaveTasks, Lost
<1>8. LiveChildIsOwed'
  <2>1. ASSUME NEW k \in Keys, vm'[k] = "live", k \notin leaseOver' PROVE Named(k)'
    <3>1. Named(k) /\ k[2] \in ForkNodes
      BY <1>1, <2>1 DEF LiveChildIsOwed, Keys
    <3>2. task.debt
      BY <1>1, <3>1 DEF Named, CleaningUp
    <3>. QED BY <3>1, <3>2 DEF Named
  <2>. QED BY <2>1 DEF LiveChildIsOwed
<1>9. ParentParkedWhileLost'
  BY <1>1, <1>2 DEF ParentParkedWhileLost, Lost, RunnersKnown, ParentKnown, WaveOpen, WavePlaces
<1>. QED BY <1>3, <1>4, <1>5, <1>6, <1>7, <1>8, <1>9 DEF ForkInv

\* The sandbox is closed.
LEMMA ForkClosesBox ==
  ASSUME ForkInv, task.at = "close",
         parent' \in {"closed", "parked", parent},
         task' = Resting,
         UNCHANGED <<wave, vm, leaseOver, runner>>
  PROVE  ForkInv'
<1>1. ForkTypeOK /\ WaveOpen /\ ParentKnown /\ RunnersKnown /\ CleaningUp /\ LiveChildIsOwed /\ ParentParkedWhileLost
  BY DEF ForkInv
<1>2. /\ vm \in [Keys -> {"none", "live", "stopped"}] /\ runner \in [ForkNodes -> RunnerPlaces]
      /\ parent \in {"running", "parked", "closed"} /\ task.at \in WavePlaces \cup {"idle", "serial", "close"}
      /\ wave.children \in [ForkNodes -> Entries]
      /\ task.mode \in {"none", "wave", "recover", "teardown"}
      /\ \A m \in ForkNodes : wave.children[m] \in Entries
  BY <1>1 DEF ForkTypeOK, WaveTasks, WaveJournals
<1>3. ForkTypeOK'
  BY <1>1, <1>2 DEF ForkTypeOK, RunnerPlaces, RunnerOver, Reaping, Resting, WaveTasks
<1>4. WaveOpen'
  BY <1>1, <1>2 DEF WaveOpen, WavePlaces, Resting, WaveTasks
<1>5. ParentKnown'
  BY <1>1, <1>2 DEF ParentKnown, WaveOpen, WavePlaces, Resting, WaveTasks
<1>6. RunnersKnown'
  BY <1>1, <1>2 DEF RunnersKnown, RunnerSound, RunnerPlaces, RunnerOver, Reaping, Unlisted, Resting, WaveTasks
<1>7. CleaningUp'
  BY <1>1, <1>2 DEF CleaningUp, WaveTasks, Lost, Resting, WaveTasks
<1>8. LiveChildIsOwed'
  BY <1>1, <1>2 DEF LiveChildIsOwed, Named
<1>9. ParentParkedWhileLost'
  BY <1>1, <1>2 DEF ParentParkedWhileLost, Lost, RunnersKnown, ParentKnown, WaveOpen, WavePlaces, Resting, WaveTasks
<1>. QED BY <1>3, <1>4, <1>5, <1>6, <1>7, <1>8, <1>9 DEF ForkInv

\* A lease runs out.
LEMMA ForkLeaseOut ==
  ASSUME ForkInv, NEW k \in Keys, leaseOver' = leaseOver \cup {k},
         vm' = [vm EXCEPT ![k] = IF vm[k] = "live" THEN "stopped" ELSE vm[k]],
         UNCHANGED <<wave, parent, runner, task>>
  PROVE  ForkInv'
<1>1. ForkTypeOK /\ WaveOpen /\ ParentKnown /\ RunnersKnown /\ CleaningUp /\ LiveChildIsOwed /\ ParentParkedWhileLost
  BY DEF ForkInv
<1>2. /\ vm \in [Keys -> {"none", "live", "stopped"}] /\ runner \in [ForkNodes -> RunnerPlaces]
      /\ parent \in {"running", "parked", "closed"} /\ task.at \in WavePlaces \cup {"idle", "serial", "close"}
      /\ wave.children \in [ForkNodes -> Entries]
      /\ task.mode \in {"none", "wave", "recover", "teardown"}
      /\ \A m \in ForkNodes : wave.children[m] \in Entries
  BY <1>1 DEF ForkTypeOK, WaveTasks, WaveJournals
<1>3. ForkTypeOK'
  BY <1>1, <1>2 DEF ForkTypeOK, RunnerPlaces, RunnerOver, Reaping
<1>4. WaveOpen'
  BY <1>1, <1>2 DEF WaveOpen, WavePlaces
<1>5. ParentKnown'
  BY <1>1, <1>2 DEF ParentKnown, WaveOpen, WavePlaces
<1>6. RunnersKnown'
  BY <1>1, <1>2 DEF RunnersKnown, RunnerSound, RunnerPlaces, RunnerOver, Reaping, Unlisted
<1>7. CleaningUp'
  BY <1>1, <1>2 DEF CleaningUp, WaveTasks, Lost
<1>8. LiveChildIsOwed'
  BY <1>1, <1>2 DEF LiveChildIsOwed, Named
<1>9. ParentParkedWhileLost'
  BY <1>1, <1>2 DEF ParentParkedWhileLost, Lost, RunnersKnown, ParentKnown, WaveOpen, WavePlaces
<1>. QED BY <1>3, <1>4, <1>5, <1>6, <1>7, <1>8, <1>9 DEF ForkInv

\* The task dies.
LEMMA ForkDies ==
  ASSUME ForkInv, task' = Resting,
         runner' = [n \in ForkNodes |-> "none"],
         UNCHANGED <<wave, parent, vm, leaseOver>>
  PROVE  ForkInv'
<1>1. ForkTypeOK /\ WaveOpen /\ ParentKnown /\ RunnersKnown /\ CleaningUp /\ LiveChildIsOwed /\ ParentParkedWhileLost
  BY DEF ForkInv
<1>2. /\ vm \in [Keys -> {"none", "live", "stopped"}] /\ runner \in [ForkNodes -> RunnerPlaces]
      /\ parent \in {"running", "parked", "closed"} /\ task.at \in WavePlaces \cup {"idle", "serial", "close"}
      /\ wave.children \in [ForkNodes -> Entries]
      /\ task.mode \in {"none", "wave", "recover", "teardown"}
      /\ \A m \in ForkNodes : wave.children[m] \in Entries
  BY <1>1 DEF ForkTypeOK, WaveTasks, WaveJournals
<1>3. ForkTypeOK'
  BY <1>1, <1>2 DEF ForkTypeOK, RunnerPlaces, RunnerOver, Reaping, Resting, WaveTasks
<1>4. WaveOpen'
  BY <1>1, <1>2 DEF WaveOpen, WavePlaces, Resting, WaveTasks
<1>5. ParentKnown'
  BY <1>1, <1>2 DEF ParentKnown, WaveOpen, WavePlaces, Resting, WaveTasks
<1>6. RunnersKnown'
  BY <1>1, <1>2 DEF RunnersKnown, RunnerSound, RunnerPlaces, RunnerOver, Reaping, Unlisted, Resting, WaveTasks
<1>7. CleaningUp'
  BY <1>1, <1>2 DEF CleaningUp, WaveTasks, Lost, Resting, WaveTasks
<1>8. LiveChildIsOwed'
  BY <1>1, <1>2 DEF LiveChildIsOwed, Named
<1>9. ParentParkedWhileLost'
  BY <1>1, <1>2 DEF ParentParkedWhileLost, Lost, RunnersKnown, ParentKnown, WaveOpen, WavePlaces, Resting, WaveTasks
<1>. QED BY <1>3, <1>4, <1>5, <1>6, <1>7, <1>8, <1>9 DEF ForkInv

\* Every step of the wave keeps the invariant.
LEMMA ForkStep == ForkInv /\ [ForkNext]_forkVars => ForkInv'
<1>. SUFFICES ASSUME ForkInv, [ForkNext]_forkVars PROVE ForkInv'
  OBVIOUS
<1>1. /\ ForkInv /\ ForkTypeOK /\ WaveOpen /\ ParentKnown /\ RunnersKnown /\ CleaningUp
      /\ wave \in WaveJournals /\ task \in WaveTasks
  BY DEF ForkInv, ForkTypeOK
<1>2. CASE Decide
  <2>1. task.at = "idle" /\ ~wave.on /\ parent = "running" /\ UNCHANGED <<parent, vm, leaseOver, runner>>
    BY <1>2 DEF Decide
  <2>2. CASE /\ wave.round < MaxWaves /\ task' = [Resting EXCEPT !.at = "park", !.mode = "wave"]
             /\ wave' = [on |-> TRUE, round |-> wave.round + 1, parked |-> TRUE, children |-> [n \in ForkNodes |-> Unlisted]]
    <3>1. task' \in WaveTasks /\ task'.at = "park"
      BY <2>2 DEF Resting, WaveTasks, WavePlaces
    <3>2. wave' \in WaveJournals /\ wave'.on /\ wave'.round # 0 /\ wave'.parked /\ \A n \in ForkNodes : wave'.children[n] = Unlisted
      BY <1>1, <2>2, ForkAssumption DEF WaveJournals, Entries, Unlisted
    <3>. QED BY <1>1, <2>1, <3>1, <3>2, ForkOpens
  <2>3. CASE task' = [Resting EXCEPT !.at = "serial"] /\ UNCHANGED wave
    <3>1. task' \in WaveTasks /\ task'.at = "serial"
      BY <2>3 DEF Resting, WaveTasks
    <3>. QED BY <1>1, <2>1, <2>3, <3>1, ForkMoves DEF WavePlaces
  <2>. QED BY <1>2, <2>2, <2>3 DEF Decide
<1>3. CASE Park
  <2>1. task.at = "park" /\ UNCHANGED <<wave, vm, leaseOver>>
    BY <1>3 DEF Park
  <2>2. CASE /\ parent' = "parked" /\ task' = [task EXCEPT !.at = "run"]
             /\ runner' = [n \in ForkNodes |-> IF n \in PendingNodes THEN "queued" ELSE "none"]
    <3>1. task' \in WaveTasks /\ task'.at = "run"
      BY <1>1, <2>2 DEF WaveTasks, WavePlaces
    <3>. QED BY <1>1, <2>1, <2>2, <3>1, ForkStartsPool
  <2>3. CASE /\ parent' \in {"running", "parked"} /\ UNCHANGED runner
             /\ task' = [task EXCEPT !.at = "reclaim", !.failed = TRUE, !.todo = {}]
    <3>1. task' \in WaveTasks /\ task'.at = "reclaim" /\ task'.todo = {}
      BY <1>1, <2>3 DEF WaveTasks, WavePlaces
    <3>2. Lost(wave) = {} /\ wave.on /\ wave.parked
      BY <1>1, <2>1 DEF RunnersKnown, Lost, Unlisted, WaveOpen, ParentKnown, WavePlaces
    <3>. QED BY <1>1, <2>1, <2>3, <3>1, <3>2, ForkParentMoves
  <2>. QED BY <1>3, <2>2, <2>3 DEF Park, TaskAt
<1>4. CASE Cancel
  <2>1. /\ task.at = "run" /\ task' = [task EXCEPT !.cancelled = TRUE, !.failed = TRUE] /\ UNCHANGED <<wave, parent, vm, leaseOver>>
        /\ runner' = [n \in ForkNodes |-> IF runner[n] = "queued" THEN "none" ELSE runner[n]]
    BY <1>4 DEF Cancel
  <2>2. task' \in WaveTasks /\ task'.at = "run" /\ task'.cancelled
    BY <1>1, <2>1 DEF WaveTasks
  <2>. QED BY <1>1, <2>1, <2>2, ForkKeepsPool
<1>5. CASE Interrupt
  <2>1. /\ task.at = "run" /\ task' = [task EXCEPT !.cancelled = TRUE, !.failed = TRUE] /\ UNCHANGED <<wave, parent, vm, leaseOver>>
        /\ runner' = [n \in ForkNodes |-> IF runner[n] = "queued" THEN "none" ELSE runner[n]]
    BY <1>5 DEF Interrupt
  <2>2. task' \in WaveTasks /\ task'.at = "run" /\ task'.cancelled
    BY <1>1, <2>1 DEF WaveTasks
  <2>. QED BY <1>1, <2>1, <2>2, ForkKeepsPool
<1>6. CASE Joined
  <2>1. task.at = "run" /\ (\A n \in ForkNodes : runner[n] \in RunnerOver) /\ UNCHANGED <<wave, parent, vm, leaseOver, runner>>
    BY <1>6 DEF Joined
  <2>2. wave.on /\ wave.parked /\ parent = "parked"
    BY <1>1, <2>1 DEF WaveOpen, ParentKnown, WavePlaces
  <2>3. CASE ~task.cancelled /\ task' = [task EXCEPT !.at = "resume"]
    <3>1. task' \in WaveTasks /\ task'.at = "resume"
      BY <1>1, <2>3 DEF WaveTasks, WavePlaces
    <3>2. ASSUME NEW n \in ForkNodes PROVE ~wave.children[n].requested \/ wave.children[n].child
      <4>1. runner[n] \notin {"failed", "refused"} /\ RunnerSound(runner[n], wave.children[n], task.cancelled)
        BY <1>1, <1>6, <2>1, <2>3 DEF Joined, RunnersKnown
      <4>. QED BY <2>1, <2>3, <4>1 DEF RunnerSound, RunnerOver
    <3>. QED BY <1>1, <2>1, <2>2, <3>1, <3>2, ForkMoves
  <2>4. CASE task' = [task EXCEPT !.at = "reclaim", !.todo = Lost(wave), !.failed = TRUE]
    <3>1. task' \in WaveTasks /\ task'.at = "reclaim" /\ task'.todo = Lost(wave)
      BY <1>1, <2>4 DEF WaveTasks, WavePlaces, Lost
    <3>. QED BY <1>1, <2>1, <2>2, <3>1, ForkMoves
  <2>. QED BY <1>6, <2>3, <2>4 DEF Joined, TaskAt
<1>7. CASE Resume
  <2>1. task.at = "resume" /\ UNCHANGED <<vm, leaseOver, runner>> /\ parent' \in {"running", "parked"}
    BY <1>7 DEF Resume
  <2>2. Lost(wave) = {} /\ wave.on /\ wave.parked
    BY <1>1, <2>1 DEF RunnersKnown, Lost, WaveOpen, ParentKnown, WavePlaces
  <2>3. CASE /\ parent' = "running" /\ wave' = [wave EXCEPT !.parked = FALSE]
             /\ task' = [task EXCEPT !.at = "merge", !.resumed = TRUE]
    <3>1. task' \in WaveTasks /\ task'.at = "merge"
      BY <1>1, <2>3 DEF WaveTasks, WavePlaces
    <3>2. wave' \in WaveJournals /\ wave'.on /\ wave'.round = wave.round /\ wave'.children = wave.children
      BY <1>1, <2>2, <2>3 DEF WaveJournals
    <3>. QED BY <1>1, <2>1, <2>2, <2>3, <3>1, <3>2, ForkParentMoves
  <2>4. CASE UNCHANGED wave /\ task' = [task EXCEPT !.at = "reclaim", !.todo = Lost(wave), !.failed = TRUE]
    <3>1. task' \in WaveTasks /\ task'.at = "reclaim" /\ task'.todo = {}
      BY <1>1, <2>2, <2>4 DEF WaveTasks, WavePlaces
    <3>. QED BY <1>1, <2>1, <2>2, <2>4, <3>1, ForkParentMoves
  <2>. QED BY <1>7, <2>3, <2>4 DEF Resume
<1>8. CASE MergeNext
  <2>1. task.at = "merge" /\ UNCHANGED <<wave, parent, vm, leaseOver, runner>> /\ wave.on
    BY <1>1, <1>8 DEF MergeNext, WaveOpen, WavePlaces
  <2>2. CASE UNCHANGED task
    BY <1>1, <2>1, <2>2, ForkRests
  <2>3. CASE task' \in {[task EXCEPT !.at = "reap", !.todo = ForkNodes], [task EXCEPT !.at = "reap", !.todo = ForkNodes, !.failed = TRUE]}
    <3>1. task' \in WaveTasks /\ task'.at = "reap" /\ task'.todo = ForkNodes /\ task'.mode = task.mode
      BY <1>1, <2>3 DEF WaveTasks, WavePlaces
    <3>. QED BY <1>1, <2>1, <3>1, ForkMoves DEF ParentKnown, WavePlaces
  <2>. QED BY <1>8, <2>2, <2>3 DEF MergeNext
<1>9. ASSUME NEW n \in ForkNodes, ListChild(n) PROVE ForkInv'
  <2>1. task.at = "run" /\ vm' = vm /\ runner[n] = "queued" /\ UNCHANGED <<parent, leaseOver, task>>
    BY <1>1, <1>9 DEF ListChild, RunnersKnown, RunnerOver
  <2>2. wave.children[n] \in Entries /\ RunnerSound(runner[n], wave.children[n], task.cancelled)
    BY <1>1, <2>1 DEF WaveJournals, RunnersKnown
  <2>3. CASE Entry(n, [Unlisted EXCEPT !.listed = TRUE]) /\ runner' = [runner EXCEPT ![n] = "listed"]
    <3>1. [Unlisted EXCEPT !.listed = TRUE] \in Entries /\ [Unlisted EXCEPT !.listed = TRUE].requested = FALSE /\ [Unlisted EXCEPT !.listed = TRUE].child = FALSE /\ [Unlisted EXCEPT !.listed = TRUE].reaped = FALSE
      BY <2>2 DEF Entries, Unlisted
    <3>2. /\ wave' \in WaveJournals /\ wave'.on = wave.on /\ wave'.round = wave.round /\ wave'.parked = wave.parked
          /\ wave'.children[n] = [Unlisted EXCEPT !.listed = TRUE] /\ \A m \in ForkNodes \ {n} : wave'.children[m] = wave.children[m]
      BY <1>1, <2>3, <3>1, EntryWritten
    <3>3. "listed" \in RunnerPlaces /\ RunnerSound("listed", wave'.children[n], task.cancelled)
      BY <2>1, <2>2, <2>3, <3>1, <3>2 DEF RunnerSound, RunnerPlaces, RunnerOver, Reaping
    <3>. QED BY <1>1, <2>1, <2>2, <2>3, <3>1, <3>2, <3>3, ForkWrites DEF RunnerSound
  <2>. QED BY <1>9, <2>3 DEF ListChild, Become
<1>10. ASSUME NEW n \in ForkNodes, RequestChild(n) PROVE ForkInv'
  <2>1. task.at = "run" /\ vm' = vm /\ runner[n] = "listed" /\ UNCHANGED <<parent, leaseOver, task>>
    BY <1>1, <1>10 DEF RequestChild, RunnersKnown, RunnerOver
  <2>2. wave.children[n] \in Entries /\ RunnerSound(runner[n], wave.children[n], task.cancelled)
    BY <1>1, <2>1 DEF WaveJournals, RunnersKnown
  <2>3. CASE task.cancelled /\ Entry(n, [wave.children[n] EXCEPT !.reaped = TRUE]) /\ runner' = [runner EXCEPT ![n] = "cancelled"]
    <3>1. [wave.children[n] EXCEPT !.reaped = TRUE] \in Entries /\ [wave.children[n] EXCEPT !.reaped = TRUE].requested = wave.children[n].requested /\ [wave.children[n] EXCEPT !.reaped = TRUE].child = wave.children[n].child /\ [wave.children[n] EXCEPT !.reaped = TRUE].reaped = TRUE
      BY <2>2 DEF Entries, Unlisted
    <3>2. /\ wave' \in WaveJournals /\ wave'.on = wave.on /\ wave'.round = wave.round /\ wave'.parked = wave.parked
          /\ wave'.children[n] = [wave.children[n] EXCEPT !.reaped = TRUE] /\ \A m \in ForkNodes \ {n} : wave'.children[m] = wave.children[m]
      BY <1>1, <2>3, <3>1, EntryWritten
    <3>3. "cancelled" \in RunnerPlaces /\ RunnerSound("cancelled", wave'.children[n], task.cancelled)
      BY <2>1, <2>2, <2>3, <3>1, <3>2 DEF RunnerSound, RunnerPlaces, RunnerOver, Reaping
    <3>. QED BY <1>1, <2>1, <2>2, <2>3, <3>1, <3>2, <3>3, ForkWrites DEF RunnerSound
  <2>4. CASE ~task.cancelled /\ Entry(n, [wave.children[n] EXCEPT !.requested = TRUE]) /\ runner' = [runner EXCEPT ![n] = "asking"]
    <3>1. [wave.children[n] EXCEPT !.requested = TRUE] \in Entries /\ [wave.children[n] EXCEPT !.requested = TRUE].requested = TRUE /\ [wave.children[n] EXCEPT !.requested = TRUE].child = wave.children[n].child /\ [wave.children[n] EXCEPT !.requested = TRUE].reaped = wave.children[n].reaped
      BY <2>2 DEF Entries, Unlisted
    <3>2. /\ wave' \in WaveJournals /\ wave'.on = wave.on /\ wave'.round = wave.round /\ wave'.parked = wave.parked
          /\ wave'.children[n] = [wave.children[n] EXCEPT !.requested = TRUE] /\ \A m \in ForkNodes \ {n} : wave'.children[m] = wave.children[m]
      BY <1>1, <2>4, <3>1, EntryWritten
    <3>3. "asking" \in RunnerPlaces /\ RunnerSound("asking", wave'.children[n], task.cancelled)
      BY <2>1, <2>2, <2>4, <3>1, <3>2 DEF RunnerSound, RunnerPlaces, RunnerOver, Reaping
    <3>. QED BY <1>1, <2>1, <2>2, <2>4, <3>1, <3>2, <3>3, ForkWrites DEF RunnerSound
  <2>. QED BY <1>10, <2>3, <2>4 DEF RequestChild, Become
<1>11. ASSUME NEW n \in ForkNodes, ProviderForks(n) PROVE ForkInv'
  <2>1. /\ wave.on /\ vm' = [vm EXCEPT ![Key(n)] = "live"] /\ UNCHANGED <<wave, parent, leaseOver, runner, task>>
        /\ runner[n] = "asking" \/ n \in Lost(wave)
    BY <1>11 DEF ProviderForks
  <2>2. wave.children[n].requested /\ ~wave.children[n].reaped
    BY <1>1, <2>1 DEF Lost, RunnersKnown, RunnerSound, RunnerOver
  <2>. QED BY <1>1, <2>1, <2>2, ForkMakesChild
<1>12. ASSUME NEW n \in ForkNodes, ChildAnswered(n) PROVE ForkInv'
  <2>1. task.at = "run" /\ vm' = vm /\ runner[n] = "asking" /\ UNCHANGED <<parent, leaseOver, task>>
    BY <1>1, <1>12 DEF ChildAnswered, RunnersKnown, RunnerOver
  <2>2. wave.children[n] \in Entries /\ RunnerSound(runner[n], wave.children[n], task.cancelled)
    BY <1>1, <2>1 DEF WaveJournals, RunnersKnown
  <2>3. CASE Entry(n, [wave.children[n] EXCEPT !.child = TRUE]) /\ runner' = [runner EXCEPT ![n] = "working"]
    <3>1. [wave.children[n] EXCEPT !.child = TRUE] \in Entries /\ [wave.children[n] EXCEPT !.child = TRUE].requested = wave.children[n].requested /\ [wave.children[n] EXCEPT !.child = TRUE].child = TRUE /\ [wave.children[n] EXCEPT !.child = TRUE].reaped = wave.children[n].reaped
      BY <2>2 DEF Entries, Unlisted
    <3>2. /\ wave' \in WaveJournals /\ wave'.on = wave.on /\ wave'.round = wave.round /\ wave'.parked = wave.parked
          /\ wave'.children[n] = [wave.children[n] EXCEPT !.child = TRUE] /\ \A m \in ForkNodes \ {n} : wave'.children[m] = wave.children[m]
      BY <1>1, <2>3, <3>1, EntryWritten
    <3>3. "working" \in RunnerPlaces /\ RunnerSound("working", wave'.children[n], task.cancelled)
      BY <2>1, <2>2, <2>3, <3>1, <3>2 DEF RunnerSound, RunnerPlaces, RunnerOver, Reaping
    <3>. QED BY <1>1, <2>1, <2>2, <2>3, <3>1, <3>2, <3>3, ForkWrites DEF RunnerSound
  <2>. QED BY <1>12, <2>3 DEF ChildAnswered, Become
<1>13. ASSUME NEW n \in ForkNodes, ChildRefused(n) PROVE ForkInv'
  <2>1. task.at = "run" /\ vm' = vm /\ runner[n] = "asking" /\ vm[Key(n)] = "none" /\ UNCHANGED <<parent, leaseOver, task>>
    BY <1>1, <1>13 DEF ChildRefused, RunnersKnown, RunnerOver
  <2>2. wave.children[n] \in Entries /\ RunnerSound(runner[n], wave.children[n], task.cancelled)
    BY <1>1, <2>1 DEF WaveJournals, RunnersKnown
  <2>3. CASE Entry(n, [wave.children[n] EXCEPT !.reaped = TRUE]) /\ runner' = [runner EXCEPT ![n] = "refused"]
    <3>1. [wave.children[n] EXCEPT !.reaped = TRUE] \in Entries /\ [wave.children[n] EXCEPT !.reaped = TRUE].requested = wave.children[n].requested /\ [wave.children[n] EXCEPT !.reaped = TRUE].child = wave.children[n].child /\ [wave.children[n] EXCEPT !.reaped = TRUE].reaped = TRUE
      BY <2>2 DEF Entries, Unlisted
    <3>2. /\ wave' \in WaveJournals /\ wave'.on = wave.on /\ wave'.round = wave.round /\ wave'.parked = wave.parked
          /\ wave'.children[n] = [wave.children[n] EXCEPT !.reaped = TRUE] /\ \A m \in ForkNodes \ {n} : wave'.children[m] = wave.children[m]
      BY <1>1, <2>3, <3>1, EntryWritten
    <3>3. "refused" \in RunnerPlaces /\ RunnerSound("refused", wave'.children[n], task.cancelled)
      BY <2>1, <2>2, <2>3, <3>1, <3>2 DEF RunnerSound, RunnerPlaces, RunnerOver, Reaping
    <3>. QED BY <1>1, <2>1, <2>2, <2>3, <3>1, <3>2, <3>3, ForkWrites DEF RunnerSound
  <2>. QED BY <1>13, <2>3 DEF ChildRefused, Become
<1>14. ASSUME NEW n \in ForkNodes, ChildUnknown(n) PROVE ForkInv'
  <2>1. task.at = "run" /\ runner' = [runner EXCEPT ![n] = "failed"] /\ UNCHANGED <<wave, parent, vm, leaseOver, task>>
    BY <1>1, <1>14 DEF ChildUnknown, Become, RunnersKnown, RunnerOver
  <2>2. "failed" \in RunnerPlaces /\ RunnerSound("failed", wave'.children[n], task.cancelled)
    BY DEF RunnerSound, RunnerPlaces, RunnerOver, Reaping
  <2>. QED BY <1>1, <2>1, <2>2, ForkWrites
<1>15. ASSUME NEW n \in ForkNodes, ChildWorks(n) PROVE ForkInv'
  <2>1. task.at = "run" /\ runner[n] = "working" /\ UNCHANGED <<wave, parent, vm, leaseOver, task>>
    BY <1>1, <1>15 DEF ChildWorks, RunnersKnown, RunnerOver
  <2>2. PICK r \in Reaping : runner' = [runner EXCEPT ![n] = r] /\ (r = "reap cancelled" => task.cancelled)
    BY <1>15 DEF ChildWorks, Become, Reaping
  <2>3. RunnerSound(runner[n], wave.children[n], task.cancelled)
    BY <1>1, <2>1 DEF RunnersKnown
  <2>4. r \in RunnerPlaces /\ RunnerSound(r, wave'.children[n], task.cancelled)
    BY <2>1, <2>2, <2>3 DEF RunnerSound, RunnerPlaces, Reaping
  <2>. QED BY <1>1, <2>1, <2>2, <2>4, ForkWrites
<1>16. ASSUME NEW n \in ForkNodes, ReapOwn(n) PROVE ForkInv'
  <2>. DEFINE r == Outcome[runner[n]]
              e == [wave.children[n] EXCEPT !.reaped = TRUE]
  <2>1. task.at = "run" /\ runner[n] \in Reaping /\ runner' = [runner EXCEPT ![n] = r] /\ UNCHANGED <<parent, leaseOver, task>>
    BY <1>1, <1>16, Outcomes3 DEF ReapOwn, Become, RunnersKnown, RunnerOver, Reaping
  <2>2. wave.children[n] \in Entries /\ RunnerSound(runner[n], wave.children[n], task.cancelled)
    BY <1>1, <2>1 DEF WaveJournals, RunnersKnown
  <2>3. r \in {"ok", "failed", "cancelled"} /\ (r = "cancelled" => task.cancelled) /\ wave.children[n].child
    BY <2>1, <2>2, Outcomes3 DEF RunnerSound, Reaping
  <2>. HIDE DEF r
  <2>4. CASE vm' = [vm EXCEPT ![Key(n)] = "stopped"] /\ Entry(n, e)
    <3>1. e \in Entries /\ e.requested = wave.children[n].requested /\ e.child = wave.children[n].child /\ e.reaped = TRUE
      BY <2>2 DEF Entries
    <3>. HIDE DEF e
    <3>2. /\ wave' \in WaveJournals /\ wave'.on = wave.on /\ wave'.round = wave.round /\ wave'.parked = wave.parked
          /\ wave'.children[n] = e /\ \A m \in ForkNodes \ {n} : wave'.children[m] = wave.children[m]
      BY <1>1, <2>4, <3>1, EntryWritten
    <3>3. r \in RunnerPlaces /\ RunnerSound(r, wave'.children[n], task.cancelled)
      BY <2>3, <3>1, <3>2 DEF RunnerSound, RunnerPlaces, RunnerOver, Reaping
    <3>4. vm'[Key(n)] # "live"
      <4>1. Key(n) \in Keys
        BY <1>1, <2>1, KeyOfNode DEF WaveOpen, WavePlaces
      <4>. QED BY <1>1, <2>4, <4>1 DEF ForkTypeOK
    <3>. QED BY <1>1, <2>1, <2>4, <3>1, <3>2, <3>3, <3>4, ForkWrites
  <2>5. CASE vm' \in {vm, [vm EXCEPT ![Key(n)] = "stopped"]} /\ UNCHANGED wave
    <3>1. r \in RunnerPlaces /\ RunnerSound(r, wave'.children[n], task.cancelled)
      BY <2>3, <2>5 DEF RunnerSound, RunnerPlaces, RunnerOver, Reaping
    <3>. QED BY <1>1, <2>1, <2>5, <3>1, ForkWrites
  <2>. QED BY <1>16, <2>4, <2>5 DEF ReapOwn
<1>17. CASE Recover
  <2>1. /\ task.at = "idle" /\ wave.on /\ UNCHANGED <<wave, parent, vm, leaseOver, runner>>
        /\ task' \in WaveTasks /\ task'.at = "reclaim" /\ task'.todo \in {Lost(wave), {}} /\ task'.mode = "recover"
    BY <1>17 DEF Recover, Resting, WaveTasks, WavePlaces, Lost
  <2>. QED BY <1>1, <2>1, ForkMoves DEF WavePlaces
<1>18. CASE Teardown
  <2>1. /\ task.at = "idle" /\ UNCHANGED <<wave, parent, vm, leaseOver, runner>>
        /\ task' \in WaveTasks /\ task'.at \in {"reclaim", "close"} /\ task'.todo \in {Lost(wave), {}}
        /\ (task'.at = "reclaim" <=> wave.on) /\ task'.mode = "teardown"
    BY <1>18 DEF Teardown, Resting, WaveTasks, WavePlaces, Lost
  <2>. QED BY <1>1, <2>1, ForkMoves DEF WavePlaces
<1>19. CASE Reclaim
  <2>. DEFINE n == Min(task.todo)
              e == [wave.children[n] EXCEPT !.child = TRUE]
  <2>1. task.at = "reclaim" /\ task.todo # {} /\ task.todo \subseteq ForkNodes /\ UNCHANGED <<parent, leaseOver, runner>>
    BY <1>1, <1>19 DEF Reclaim, WaveTasks
  <2>2. n \in task.todo /\ n \in ForkNodes
    BY <2>1, MinOfNodes
  <2>3. /\ vm' \in {vm, [vm EXCEPT ![Key(n)] = IF vm[Key(n)] = "none" /\ parent # "closed" THEN "live" ELSE vm[Key(n)]]}
        /\ Entry(n, e) \/ UNCHANGED wave
        /\ task' = [task EXCEPT !.todo = task.todo \ {n}]
    BY <1>19 DEF Reclaim
  <2>. HIDE DEF n
  <2>4. Key(n) \in Keys
    BY <1>1, <2>1, <2>2, KeyOfNode DEF WaveOpen, WavePlaces
  <2>5. vm' \in [Keys -> {"none", "live", "stopped"}] /\ \A k \in Keys \ {Key(n)} : vm'[k] = vm[k]
    BY <1>1, <2>3, <2>4 DEF ForkTypeOK
  <2>6. task' \in WaveTasks /\ task'.at = "reclaim" /\ task'.mode = task.mode /\ task'.todo = task.todo \ {n}
    BY <1>1, <2>1, <2>3 DEF WaveTasks
  <2>7. wave.children[n] \in Entries
    BY <1>1, <2>2 DEF WaveJournals
  <2>8. e \in Entries /\ e.requested = wave.children[n].requested /\ e.reaped = wave.children[n].reaped /\ e.child
    BY <2>7 DEF Entries
  <2>. HIDE DEF e
  <2>9. CASE Entry(n, e)
    <3>1. /\ wave' \in WaveJournals /\ wave'.on = wave.on /\ wave'.round = wave.round /\ wave'.parked = wave.parked
          /\ wave'.children[n] = e /\ \A m \in ForkNodes \ {n} : wave'.children[m] = wave.children[m]
      BY <1>1, <2>2, <2>8, <2>9, EntryWritten
    <3>. QED BY <1>1, <2>1, <2>2, <2>5, <2>6, <2>8, <3>1, ForkAsksAgain
  <2>10. CASE UNCHANGED wave
    BY <1>1, <2>1, <2>2, <2>5, <2>6, <2>10, ForkAsksAgain
  <2>. QED BY <2>3, <2>9, <2>10
<1>20. CASE Reclaimed
  <2>1. /\ task.at = "reclaim" /\ UNCHANGED <<wave, parent, vm, leaseOver, runner>> /\ wave.on
        /\ task' \in WaveTasks /\ task'.at = "reap" /\ task'.todo = ForkNodes /\ task'.mode = task.mode
    BY <1>1, <1>20 DEF Reclaimed, WaveTasks, WavePlaces, WaveOpen
  <2>. QED BY <1>1, <2>1, ForkMoves DEF ParentKnown, WavePlaces
<1>21. CASE Reap
  <2>. DEFINE n == Min(task.todo)
              e == [wave.children[n] EXCEPT !.reaped = TRUE]
  <2>1. task.at = "reap" /\ task.todo # {} /\ task.todo \subseteq ForkNodes /\ UNCHANGED <<parent, leaseOver, runner>>
    BY <1>1, <1>21 DEF Reap, WaveTasks
  <2>2. n \in task.todo /\ n \in ForkNodes
    BY <2>1, MinOfNodes
  <2>3. \/ /\ vm' = [vm EXCEPT ![Key(n)] = "stopped"] /\ Entry(n, e) /\ task' = [task EXCEPT !.todo = task.todo \ {n}]
           /\ wave.children[n].child /\ ~wave.children[n].reaped
        \/ /\ vm' \in {vm, [vm EXCEPT ![Key(n)] = "stopped"]} /\ UNCHANGED wave
           /\ task' = [task EXCEPT !.todo = task.todo \ {n}, !.debt = TRUE]
        \/ /\ ~(wave.children[n].child /\ ~wave.children[n].reaped) /\ UNCHANGED <<wave, vm>>
           /\ task' = [task EXCEPT !.todo = task.todo \ {n}]
    BY <1>21 DEF Reap
  <2>. HIDE DEF n
  <2>4. Key(n) \in Keys
    BY <1>1, <2>1, <2>2, KeyOfNode DEF WaveOpen, WavePlaces
  <2>5. /\ vm' \in [Keys -> {"none", "live", "stopped"}] /\ (\A k \in Keys \ {Key(n)} : vm'[k] = vm[k])
        /\ vm'[Key(n)] = vm[Key(n)] \/ vm'[Key(n)] = "stopped"
        /\ vm' = [vm EXCEPT ![Key(n)] = "stopped"] => vm'[Key(n)] = "stopped"
    BY <1>1, <2>3, <2>4 DEF ForkTypeOK
  <2>6. task' \in WaveTasks /\ task'.at = "reap" /\ task'.mode = task.mode /\ task'.todo = task.todo \ {n}
    BY <1>1, <2>1, <2>3 DEF WaveTasks
  <2>7. wave.children[n] \in Entries
    BY <1>1, <2>2 DEF WaveJournals
  <2>8. e \in Entries /\ e.requested = wave.children[n].requested /\ e.child = wave.children[n].child /\ e.reaped
    BY <2>7 DEF Entries
  <2>. HIDE DEF e
  <2>9. CASE vm' = [vm EXCEPT ![Key(n)] = "stopped"] /\ Entry(n, e) /\ task' = [task EXCEPT !.todo = task.todo \ {n}]
    <3>1. /\ wave' \in WaveJournals /\ wave'.on = wave.on /\ wave'.round = wave.round /\ wave'.parked = wave.parked
          /\ wave'.children[n] = e /\ \A m \in ForkNodes \ {n} : wave'.children[m] = wave.children[m]
      BY <1>1, <2>2, <2>8, <2>9, EntryWritten
    <3>2. task'.debt = task.debt
      BY <1>1, <2>9 DEF WaveTasks
    <3>. QED BY <1>1, <2>1, <2>2, <2>5, <2>6, <2>8, <2>9, <3>1, <3>2, ForkReapsOne
  <2>10. CASE UNCHANGED wave /\ task' = [task EXCEPT !.todo = task.todo \ {n}, !.debt = TRUE]
    <3>1. task'.debt
      BY <1>1, <2>10 DEF WaveTasks
    <3>. QED BY <1>1, <2>1, <2>2, <2>5, <2>6, <2>10, <3>1, ForkReapsOne
  <2>11. CASE /\ ~(wave.children[n].child /\ ~wave.children[n].reaped) /\ UNCHANGED <<wave, vm>>
              /\ task' = [task EXCEPT !.todo = task.todo \ {n}]
    <3>1. task'.debt = task.debt
      BY <1>1, <2>11 DEF WaveTasks
    <3>. QED BY <1>1, <2>1, <2>2, <2>5, <2>6, <2>11, <3>1, ForkReapsOne
  <2>. QED BY <2>3, <2>9, <2>10, <2>11
<1>22. CASE Reaped
  <2>1. task.at = "reap" /\ task.todo = {} /\ UNCHANGED <<parent, vm, leaseOver, runner>>
    BY <1>22 DEF Reaped
  <2>2. /\ task' \in WaveTasks /\ task'.at \in {"finish", "unpark"} /\ (task'.at = "finish" => task'.mode = "teardown") /\ task'.mode = task.mode
        /\ (~task'.debt => ~task.debt /\ Lost(wave) = Expired)
    BY <1>1, <1>22 DEF Reaped, WaveTasks, WavePlaces
  <2>. DEFINE now == [n \in ForkNodes |-> IF n \in Expired THEN [wave.children[n] EXCEPT !.reaped = TRUE] ELSE wave.children[n]]
  <2>3. wave' = [wave EXCEPT !.children = now]
    BY <1>22 DEF Reaped
  <2>4. ASSUME NEW n \in ForkNodes
        PROVE  /\ now[n] \in Entries /\ now[n].requested = wave.children[n].requested /\ now[n].child = wave.children[n].child
               /\ now[n].reaped <=> wave.children[n].reaped \/ n \in Expired
    <3>1. wave.children[n] \in Entries
      BY <1>1 DEF WaveJournals
    <3>. QED BY <3>1 DEF Entries
  <2>5. now \in [ForkNodes -> Entries]
    BY <2>4
  <2>. HIDE DEF now
  <2>6. /\ wave' \in WaveJournals /\ wave'.on = wave.on /\ wave'.round = wave.round /\ wave'.parked = wave.parked
        /\ wave'.children = now
    BY <1>1, <2>3, <2>5 DEF WaveJournals
  <2>. QED BY <1>1, <2>1, <2>2, <2>4, <2>6, ForkReapEnds
<1>23. CASE Unpark
  <2>1. task.at = "unpark" /\ UNCHANGED <<vm, leaseOver, runner>> /\ wave.on
    BY <1>1, <1>23 DEF Unpark, WaveOpen, WavePlaces
  <2>2. CASE (~wave.parked \/ Lost(wave) # {}) /\ task' = [task EXCEPT !.at = "finish"] /\ UNCHANGED <<wave, parent>>
    <3>1. task' \in WaveTasks /\ task'.at = "finish" /\ task'.debt = task.debt /\ task'.mode = task.mode
      BY <1>1, <2>2 DEF WaveTasks, WavePlaces
    <3>2. ~task.debt => /\ \A n \in ForkNodes : wave.children[n].requested => wave.children[n].reaped
                        /\ Lost(wave) = {}
      BY <1>1, <2>1, <2>2 DEF CleaningUp, Lost
    <3>3. task.mode = "wave" => parent # "closed" /\ (~wave.parked => parent = "running")
      BY <1>1, <2>1 DEF ParentKnown, WavePlaces
    <3>. QED BY <1>1, <2>1, <2>2, <3>1, <3>2, <3>3, ForkMoves
  <2>3. CASE /\ Lost(wave) = {} /\ parent' = "running" /\ wave' = [wave EXCEPT !.parked = FALSE]
             /\ task' = [task EXCEPT !.at = "finish"]
    <3>1. task' \in WaveTasks /\ task'.at = "finish" /\ task'.debt = task.debt
      BY <1>1, <2>3 DEF WaveTasks, WavePlaces
    <3>2. wave' \in WaveJournals /\ wave'.on /\ wave'.round = wave.round /\ wave'.children = wave.children
      BY <1>1, <2>1, <2>3 DEF WaveJournals
    <3>. QED BY <1>1, <2>1, <2>3, <3>1, <3>2, ForkParentMoves
  <2>4. CASE /\ Lost(wave) = {} /\ wave.parked /\ parent' \in {"running", "parked"} /\ UNCHANGED wave
             /\ task' = [task EXCEPT !.at = "finish", !.debt = TRUE]
    <3>1. task' \in WaveTasks /\ task'.at = "finish" /\ task'.debt
      BY <1>1, <2>4 DEF WaveTasks, WavePlaces
    <3>. QED BY <1>1, <2>1, <2>4, <3>1, ForkParentMoves
  <2>5. CASE /\ parent = "closed" /\ parent' = "closed" /\ UNCHANGED wave
             /\ task' = [task EXCEPT !.at = "finish", !.debt = TRUE]
    <3>1. task' \in WaveTasks /\ task'.at = "finish" /\ task'.debt /\ task'.mode = task.mode
      BY <1>1, <2>5 DEF WaveTasks, WavePlaces
    <3>2. task.mode # "wave"
      BY <1>1, <2>1, <2>5 DEF ParentKnown, WavePlaces
    <3>. QED BY <1>1, <2>1, <2>5, <3>1, <3>2, ForkMoves
  <2>. QED BY <1>23, <2>2, <2>3, <2>4, <2>5 DEF Unpark, TaskAt
<1>24. CASE Finish
  <2>1. /\ task.at = "finish" /\ runner' = [n \in ForkNodes |-> "none"] /\ UNCHANGED <<parent, vm, leaseOver>>
        /\ wave' = [wave EXCEPT !.on = task.debt]
    BY <1>24 DEF Finish
  <2>2. /\ wave' \in WaveJournals /\ wave'.on = task.debt /\ wave'.round = wave.round
        /\ wave'.parked = wave.parked /\ wave'.children = wave.children
    BY <1>1, <2>1 DEF WaveJournals, WaveTasks
  <2>3. /\ task' \in WaveTasks /\ task'.at \in {"idle", "serial", "close"}
        /\ task'.at = "serial" => task.mode = "wave" /\ ~task.debt
    BY <1>1, <1>24 DEF Finish, WaveTasks, Resting
  <2>. QED BY <1>1, <2>1, <2>2, <2>3, ForkEnds
<1>25. CASE Close
  BY <1>1, <1>25, ForkClosesBox DEF Close
<1>26. CASE Serial
  <2>1. task.at = "serial" /\ UNCHANGED <<wave, parent, vm, leaseOver, runner>> /\ task' \in {task, Resting}
    BY <1>26 DEF Serial
  <2>2. CASE task' = task
    BY <1>1, <2>1, <2>2, ForkRests
  <2>3. CASE task' = Resting
    <3>1. task' \in WaveTasks /\ task'.at = "idle"
      BY <2>3 DEF Resting, WaveTasks
    <3>. QED BY <1>1, <2>1, <3>1, ForkMoves DEF WavePlaces
  <2>. QED BY <2>1, <2>2, <2>3
<1>27. CASE KillTask
  BY <1>1, <1>27, ForkDies DEF KillTask
<1>28. ASSUME NEW k \in Keys, LeaseEnds(k) PROVE ForkInv'
  BY <1>1, <1>28, ForkLeaseOut DEF LeaseEnds
<1>29. CASE UNCHANGED forkVars
  BY <1>1, <1>29, ForkRests DEF forkVars
<1>. QED BY <1>2, <1>3, <1>4, <1>5, <1>6, <1>7, <1>8, <1>9, <1>10, <1>11, <1>12, <1>13, <1>14, <1>15, <1>16, <1>17, <1>18, <1>19, <1>20, <1>21, <1>22, <1>23, <1>24, <1>25, <1>26, <1>27, <1>28, <1>29 DEF ForkNext, Driver, Runner, ForkDone

\* The journal, the provider and the parent agree on every fork, whatever dies and whatever is lost.
THEOREM ForkWaveInvariant == ForkSpec => []ForkInv
<1>1. ForkInit => ForkInv
  BY ForkInitially
<1>2. ForkInv /\ [ForkNext]_forkVars => ForkInv'
  BY ForkStep
<1>. QED BY <1>1, <1>2, PTL DEF ForkSpec

\* No child VM leaves the journal before its stop or the end of its lease, also when a teardown with debt
\* closes the parent; no fork is asked of a parent that moved on, and serial work never runs beside a wave
\* (fork_wave.recover, _unpark, teardown): for any nodes and any number of waves and deaths.
THEOREM WaveAccounted == ForkSpec => []ForkAccounted
<1>1. ForkInv => ForkAccounted
  BY DEF ForkInv, ForkAccounted, SerialOnIdleParent, LiveChildIsOwed, ParentKnown, WaveOpen, Named
<1>. QED BY <1>1, ForkWaveInvariant, PTL

------------------------------------------------------------------------------
\* The ledger of model calls.

\* The fields of a call row and of a context, and the places of a context.
CallFields == {"state", "granted", "settled", "round", "real", "sent", "running", "nostart"}
CtxFields  == {"at", "seeded", "spent", "start", "granted", "call", "round", "writes", "before"}
CtxPlaces  == {"away", "idle", "recovered", "joining", "checked", "called", "answered", "written", "returned", "raised"}

\* A call on record: a settled call has ended, and was settled at no less than it cost.
CallOK(r) ==
  /\ DOMAIN r = CallFields
  /\ r.state \in {"none", "reserved", "unknown", "settled"}
  /\ r.granted \in Nat /\ r.settled \in Nat /\ r.real \in Nat
  /\ r.state = "settled" => r.real <= r.settled /\ ~r.running
  /\ r.nostart => r.real = 0 /\ ~r.running
  /\ ~r.sent => ~r.running /\ (r.state = "settled" \/ r.real = 0)
  /\ r.state = "none" => r.granted = 0 /\ r.real = 0 /\ ~r.running

\* Every call row is sound.
CallsOK == DOMAIN call = CallIds /\ \A k \in CallIds : CallOK(call[k])

\* A context has its fields, and names a call while it is in one.
CtxOK(x) ==
  /\ DOMAIN x = CtxFields
  /\ x.at \in CtxPlaces /\ x.spent \in Nat /\ x.granted \in Nat
  /\ x.at = "called" => x.call \in CallIds

\* Every context is sound.
CtxsOK == DOMAIN ctx = Contexts /\ \A c \in Contexts : CtxOK(ctx[c])

\* Only the owner of the run is at work, and fork children only while it waits for them.
OwnersOnly ==
  /\ owner \in Tasks \cup {NoTask}
  /\ \A t \in Tasks : ctx[t].at # "away" => owner = t
  /\ \A k \in Kids : ctx[k].at # "away" => owner \in Tasks /\ ctx[owner].at = "joining" /\ ~External

\* Every context that waits for an answer waits for a reserved call of its own.
OwnCalls ==
  \A c \in Contexts : ctx[c].at = "called" =>
    /\ call[ctx[c].call].state = "reserved"
    /\ \A d \in Contexts : d # c /\ ctx[d].at = "called" => ctx[d].call # ctx[c].call

\* A context is a task or a fork child, never both.
LEMMA ContextsSplit ==
  /\ Tasks \subseteq Contexts /\ Kids \subseteq Contexts /\ Contexts = Tasks \cup Kids
  /\ \A t \in Tasks : t \notin Kids /\ t # NoTask
  BY LedgerAssumption DEF Contexts

\* Every step keeps the call rows sound.
LEMMA CallsStep ==
  ASSUME CallsOK, CtxsOK, OwnCalls,
         [LedgerNext]_ledgerVars
  PROVE  CallsOK'
<1>1. ASSUME NEW t \in Tasks, Acquire(t) PROVE CallsOK'
  BY <1>1 DEF Acquire, CallsOK
<1>2. ASSUME NEW t \in Tasks, EndStage(t) PROVE CallsOK'
  BY <1>2 DEF EndStage, CallsOK
<1>3. ASSUME NEW t \in Tasks, Die(t) PROVE CallsOK'
  BY <1>3 DEF Die, CallsOK
<1>4. ASSUME NEW t \in Tasks, ForkKids(t) PROVE CallsOK'
  BY <1>4 DEF ForkKids, CallsOK
<1>5. ASSUME NEW t \in Tasks, Join(t) PROVE CallsOK'
  BY <1>5 DEF Join, CallsOK
<1>6. ASSUME NEW t \in Tasks, Misbehave(t) PROVE CallsOK'
  BY <1>6 DEF Misbehave, CallsOK
<1>7. ASSUME NEW t \in Tasks, CommitWrite(t) PROVE CallsOK'
  BY <1>7 DEF CommitWrite, CallsOK
<1>8. ASSUME NEW c \in Contexts, RecoverLedger(c) PROVE CallsOK'
  <2>1. call' = Recovered
    BY <1>8 DEF RecoverLedger
  <2>2. ASSUME NEW k \in CallIds PROVE CallOK(Recovered[k])
    <3>1. CallOK(call[k]) /\ (k \in Unreconciled => call[k].state \in {"reserved", "unknown"})
      BY DEF CallsOK, CallOK, Unreconciled, Made
    <3>. QED BY <3>1 DEF Recovered, CallOK, CallFields
  <2>. QED BY <2>1, <2>2 DEF CallsOK, Recovered
<1>9. ASSUME NEW c \in Contexts, RefuseCall(c) PROVE CallsOK'
  BY <1>9 DEF RefuseCall, CallsOK
<1>10. ASSUME NEW c \in Contexts, Reserve(c) PROVE CallsOK'
  <2>. DEFINE r(g, n) == [NoCall EXCEPT !.state = "reserved", !.granted = g, !.round = n]
  <2>1. PICK k \in CallIds : call' = [call EXCEPT ![k] = r(ctx[c].granted, ctx[c].round)]
    BY <1>10 DEF Reserve
  <2>2. ctx[c].granted \in Nat
    BY <1>10 DEF CtxsOK, CtxOK
  <2>3. \A n : CallOK(r(ctx[c].granted, n))
    BY <2>2 DEF CallOK, NoCall, CallFields
  <2>. HIDE DEF r
  <2>. QED BY <2>1, <2>3 DEF CallsOK
<1>11. ASSUME NEW c \in Contexts, RefuseRepeat(c) PROVE CallsOK'
  BY <1>11 DEF RefuseRepeat, CallsOK
<1>12. ASSUME NEW c \in Contexts, Launch(c) PROVE CallsOK'
  <2>. DEFINE k == ctx[c].call
              r == [call[k] EXCEPT !.sent = TRUE, !.running = TRUE]
  <2>1. call' = [call EXCEPT ![k] = r] /\ k \in CallIds
    BY <1>12 DEF Launch, CallsOK, CtxsOK, CtxOK
  <2>2. CallOK(call[k]) /\ call[k].state = "reserved"
    BY <1>12, <2>1 DEF Launch, CallsOK, OwnCalls
  <2>3. CallOK(r)
    BY <1>12, <2>2 DEF Launch, CallOK, CallFields
  <2>. HIDE DEF r
  <2>. QED BY <2>1, <2>3 DEF CallsOK
<1>13. ASSUME NEW c \in Contexts, LaunchFails(c) PROVE CallsOK'
  <2>. DEFINE k == ctx[c].call
              r == [call[k] EXCEPT !.nostart = TRUE]
  <2>1. call' = [call EXCEPT ![k] = r] /\ k \in CallIds
    BY <1>13 DEF LaunchFails, CallsOK, CtxsOK, CtxOK
  <2>2. CallOK(call[k]) /\ call[k].state = "reserved"
    BY <1>13, <2>1 DEF LaunchFails, CallsOK, OwnCalls
  <2>3. CallOK(r)
    BY <1>13, <2>2 DEF LaunchFails, CallOK, CallFields
  <2>. HIDE DEF r
  <2>. QED BY <2>1, <2>3 DEF CallsOK
<1>14. ASSUME NEW c \in Contexts, Answer(c) PROVE CallsOK'
  <2>. DEFINE k == ctx[c].call
              r == IF External THEN [call[k] EXCEPT !.state = "unknown", !.running = FALSE]
                   ELSE [call[k] EXCEPT !.state = "settled", !.settled = call[k].real, !.running = FALSE]
  <2>1. call' = [call EXCEPT ![k] = r] /\ k \in CallIds
    BY <1>14 DEF Answer, CallsOK, CtxsOK, CtxOK
  <2>2. CallOK(call[k])
    BY <2>1 DEF CallsOK
  <2>3. CallOK(r)
    BY <1>14, <2>2 DEF Answer, CallOK, CallFields
  <2>. HIDE DEF r
  <2>. QED BY <2>1, <2>3 DEF CallsOK
<1>15. ASSUME NEW c \in Contexts, CallRaises(c) PROVE CallsOK'
  <2>. DEFINE k == ctx[c].call
              r == IF call[k].nostart THEN [call[k] EXCEPT !.state = "settled", !.settled = 0] ELSE [call[k] EXCEPT !.state = "unknown"]
  <2>1. call' = [call EXCEPT ![k] = r] /\ k \in CallIds
    BY <1>15 DEF CallRaises, CallsOK, CtxsOK, CtxOK
  <2>2. CallOK(call[k]) /\ call[k].state = "reserved"
    BY <1>15, <2>1 DEF CallRaises, CallsOK, OwnCalls
  <2>3. CallOK(r)
    BY <1>15, <2>2 DEF CallRaises, CallOK, CallFields
  <2>. HIDE DEF r
  <2>. QED BY <2>1, <2>3 DEF CallsOK
<1>16. ASSUME NEW c \in Contexts, Return(c) PROVE CallsOK'
  BY <1>16 DEF Return, CallsOK
<1>17. ASSUME NEW c \in Contexts, NEW w \in BOOLEAN, NEW r \in Rounds, StartCall(c, w, r) PROVE CallsOK'
  BY <1>17 DEF StartCall, CallsOK
<1>18. ASSUME NEW k \in CallIds, Bill(k) PROVE CallsOK'
  <2>. DEFINE r == [call[k] EXCEPT !.real = @ + 1]
  <2>1. call' = [call EXCEPT ![k] = r] /\ k \in CallIds
    BY <1>18 DEF Bill, CallsOK, CtxsOK, CtxOK
  <2>2. CallOK(call[k])
    BY <2>1 DEF CallsOK
  <2>3. CallOK(r)
    BY <1>18, <2>2 DEF Bill, CallOK, CallFields
  <2>. HIDE DEF r
  <2>. QED BY <2>1, <2>3 DEF CallsOK
<1>19. ASSUME NEW k \in CallIds, Reconcile(k) PROVE CallsOK'
  <2>. DEFINE r == [call[k] EXCEPT !.state = "settled", !.settled = call[k].real]
  <2>1. call' = [call EXCEPT ![k] = r] /\ k \in CallIds
    BY <1>19 DEF Reconcile, CallsOK, CtxsOK, CtxOK
  <2>2. CallOK(call[k])
    BY <2>1 DEF CallsOK
  <2>3. CallOK(r)
    BY <1>19, <2>2 DEF Reconcile, CallOK, CallFields, Final
  <2>. HIDE DEF r
  <2>. QED BY <2>1, <2>3 DEF CallsOK
<1>20. CASE RestoreTree
  BY <1>20 DEF RestoreTree, CallsOK
<1>21. CASE UNCHANGED ledgerVars
  BY <1>21 DEF ledgerVars, CallsOK
<1>. QED BY <1>1, <1>2, <1>3, <1>4, <1>5, <1>6, <1>7, <1>8, <1>9, <1>10, <1>11, <1>12, <1>13, <1>14, <1>15, <1>16, <1>17, <1>18, <1>19, <1>20, <1>21 DEF LedgerNext

\* What a row is charged with: its settled cost, or all of its grant; and what it really cost.
ChargeIn(r)  == IF r.state = "settled" THEN r.settled ELSE r.granted
ChargeOf(cl) == [k \in CallIds |-> ChargeIn(cl[k])]
CapIn(r)     == IF ChargeIn(r) <= r.granted THEN ChargeIn(r) ELSE r.granted
CapOf(cl)    == [k \in CallIds |-> CapIn(cl[k])]
WithinIn(r)  == IF r.real <= r.granted THEN r.real ELSE r.granted
WithinOf(cl) == [k \in CallIds |-> WithinIn(cl[k])]
KnownIn(r)   == IF r.state = "settled" THEN r.real ELSE WithinIn(r)
KnownOf(cl)  == [k \in CallIds |-> KnownIn(cl[k])]

\* There are finitely many call rows.
LEMMA CallIdsFinite == IsFiniteSet(CallIds)
  BY FS_Interval, LedgerAssumption DEF CallIds

\* A row costs at most what it is charged with, and nothing before it is made.
LEMMA CallNumbers ==
  ASSUME CallsOK, NEW k \in CallIds
  PROVE  /\ ChargeOf(call)[k] \in Nat /\ CapOf(call)[k] \in Nat
         /\ WithinOf(call)[k] \in Nat /\ KnownOf(call)[k] \in Nat
         /\ CapOf(call)[k] <= ChargeOf(call)[k]
         /\ WithinOf(call)[k] <= CapOf(call)[k] /\ KnownOf(call)[k] <= ChargeOf(call)[k]
         /\ k \notin Made => /\ ChargeOf(call)[k] = 0 /\ CapOf(call)[k] = 0
                             /\ WithinOf(call)[k] = 0 /\ KnownOf(call)[k] = 0
<1>1. CallOK(call[k]) /\ (k \notin Made => call[k].state = "none")
  BY DEF CallsOK, Made
<1>. QED BY <1>1 DEF CallOK, ChargeOf, ChargeIn, CapOf, CapIn, WithinOf, WithinIn, KnownOf, KnownIn

\* The charged total is a count of units of money.
LEMMA ChargedIsCount ==
  ASSUME CallsOK
  PROVE  Charged = Count(ChargeOf(call), CallIds) /\ Charged \in Nat
<1>. DEFINE F == ChargeOf(call)
            Folds(g) == g = [s \in SUBSET Made |-> IF s = {} THEN 0 ELSE Charge(FirstOf(s)) + g[s \ {FirstOf(s)}]]
            h == CHOOSE g : Folds(g)
<1>1. Made \in SUBSET CallIds /\ \A k \in Made : F[k] = Charge(k)
  BY DEF Made, ChargeOf, ChargeIn, Charge
<1>2. IsFiniteSet(Made) /\ \A k \in Made : F[k] \in Nat
  BY <1>1, CallIdsFinite, FS_Subset, CallNumbers
<1>3. \A k \in CallIds \ Made : F[k] = 0
  BY CallNumbers
<1>4. Charged = h[Made]
  BY DEF Charged, MapThenSumSet, MapThenFoldSet, FirstOf
<1>. HIDE DEF F
<1>5. \A s \in SUBSET Made : s # {} => F[FirstOf(s)] = Charge(FirstOf(s))
  BY <1>1, FirstIn
<1>6. ASSUME NEW g PROVE IsFold(g, F, Made) <=> Folds(g)
  BY <1>5 DEF IsFold
<1>7. Folds(h)
  BY <1>2, <1>6, CountIsFold
<1>. HIDE DEF h, Folds
<1>8. \A s \in SUBSET Made : h[s] = Count(F, s)
  BY <1>2, <1>6, <1>7, FoldIsCount
<1>9. Count(F, CallIds) = Count(F, Made) /\ Count(F, Made) \in Nat
  BY <1>1, <1>2, <1>3, CountOfSupport, UnitsFinite
<1>. QED BY <1>4, <1>8, <1>9 DEF F

\* The spend within the grants, as a sum over all call numbers.
LEMMA WithinIsCount ==
  ASSUME CallsOK
  PROVE  MapThenSumSet(WithinCap, Made) = Count(WithinOf(call), CallIds) /\ Count(WithinOf(call), CallIds) \in Nat
<1>. DEFINE F == WithinOf(call)
            Folds(g) == g = [s \in SUBSET Made |-> IF s = {} THEN 0 ELSE WithinCap(FirstOf(s)) + g[s \ {FirstOf(s)}]]
            h == CHOOSE g : Folds(g)
<1>1. Made \in SUBSET CallIds /\ \A k \in Made : F[k] = WithinCap(k)
  BY DEF Made, WithinOf, WithinIn, WithinCap
<1>2. IsFiniteSet(Made) /\ \A k \in Made : F[k] \in Nat
  BY <1>1, CallIdsFinite, FS_Subset, CallNumbers
<1>3. \A k \in CallIds \ Made : F[k] = 0
  BY CallNumbers
<1>4. MapThenSumSet(WithinCap, Made) = h[Made]
  BY DEF MapThenSumSet, MapThenFoldSet, FirstOf
<1>. HIDE DEF F
<1>5. \A s \in SUBSET Made : s # {} => F[FirstOf(s)] = WithinCap(FirstOf(s))
  BY <1>1, FirstIn
<1>6. ASSUME NEW g PROVE IsFold(g, F, Made) <=> Folds(g)
  BY <1>5 DEF IsFold
<1>7. Folds(h)
  BY <1>2, <1>6, CountIsFold
<1>. HIDE DEF h, Folds
<1>8. \A s \in SUBSET Made : h[s] = Count(F, s)
  BY <1>2, <1>6, <1>7, FoldIsCount
<1>9. Count(F, CallIds) = Count(F, Made) /\ Count(F, Made) \in Nat
  BY <1>1, <1>2, <1>3, CountOfSupport, UnitsFinite
<1>. QED BY <1>4, <1>8, <1>9 DEF F

\* The spend that the ledger can know of, as a sum over all call numbers.
LEMMA KnownIsCount ==
  ASSUME CallsOK
  PROVE  MapThenSumSet(Knowable, Made) = Count(KnownOf(call), CallIds) /\ Count(KnownOf(call), CallIds) \in Nat
<1>. DEFINE F == KnownOf(call)
            Folds(g) == g = [s \in SUBSET Made |-> IF s = {} THEN 0 ELSE Knowable(FirstOf(s)) + g[s \ {FirstOf(s)}]]
            h == CHOOSE g : Folds(g)
<1>1. Made \in SUBSET CallIds /\ \A k \in Made : F[k] = Knowable(k)
  BY DEF Made, KnownOf, KnownIn, WithinIn, Knowable, WithinCap
<1>2. IsFiniteSet(Made) /\ \A k \in Made : F[k] \in Nat
  BY <1>1, CallIdsFinite, FS_Subset, CallNumbers
<1>3. \A k \in CallIds \ Made : F[k] = 0
  BY CallNumbers
<1>4. MapThenSumSet(Knowable, Made) = h[Made]
  BY DEF MapThenSumSet, MapThenFoldSet, FirstOf
<1>. HIDE DEF F
<1>5. \A s \in SUBSET Made : s # {} => F[FirstOf(s)] = Knowable(FirstOf(s))
  BY <1>1, FirstIn
<1>6. ASSUME NEW g PROVE IsFold(g, F, Made) <=> Folds(g)
  BY <1>5 DEF IsFold
<1>7. Folds(h)
  BY <1>2, <1>6, CountIsFold
<1>. HIDE DEF h, Folds
<1>8. \A s \in SUBSET Made : h[s] = Count(F, s)
  BY <1>2, <1>6, <1>7, FoldIsCount
<1>9. Count(F, CallIds) = Count(F, Made) /\ Count(F, Made) \in Nat
  BY <1>1, <1>2, <1>3, CountOfSupport, UnitsFinite
<1>. QED BY <1>4, <1>8, <1>9 DEF F

\* Where the money from before the ledger stands.
FloorOK ==
  /\ era \in {"stagelog", "rows"} /\ (External => era = "rows")
  /\ era = "rows" => 1 \in Made
  /\ floor # -1 => floor = OldMoney
  /\ floor = -1 => owner = NoTask /\ stageLog = OldSpend /\ (era = "stagelog" => Made = {})

\* The money of the stage log is a number.
LEMMA OldMoneyType == OldMoney \in Nat
  BY LedgerAssumption DEF OldMoney

\* The floor that is adopted is the money of the stage log.
LEMMA FloorAdopted ==
  ASSUME FloorOK
  PROVE  AdoptedFloor = OldMoney
<1>1. CASE floor # -1
  BY <1>1 DEF AdoptedFloor, FloorOK
<1>2. CASE floor = -1 /\ era = "rows"
  BY <1>2 DEF AdoptedFloor, FloorOK, OldMoney
<1>3. CASE floor = -1 /\ era = "stagelog"
  BY <1>3 DEF AdoptedFloor, FloorOK, OldMoney, PersistedCost
<1>. QED BY <1>1, <1>2, <1>3 DEF FloorOK

\* What a context believes was spent is at least what the ledger records.
LEMMA SpendBelief ==
  ASSUME CallsOK, CtxsOK, FloorOK
  PROVE  /\ PersistedSpend = OldMoney + Count(ChargeOf(call), CallIds) /\ PersistedSpend \in Nat
         /\ \A c \in Contexts : SeededSpend(c) \in Nat /\ PersistedSpend <= SeededSpend(c)
<1>1. PersistedSpend = OldMoney + Count(ChargeOf(call), CallIds) /\ PersistedSpend \in Nat
  BY FloorAdopted, ChargedIsCount, OldMoneyType DEF PersistedSpend
<1>2. \A c \in Contexts : ctx[c].spent \in Nat
  BY DEF CtxsOK, CtxOK
<1>. QED BY <1>1, <1>2 DEF SeededSpend


\* A context that starts is sound.
LEMMA FreshOK == CtxOK(Fresh) /\ Fresh.at = "away"
  BY DEF Fresh, CtxOK, CtxFields, CtxPlaces

\* A grant is within the stage's budget and within what the context believes is left.
LEMMA GrantedBounds ==
  ASSUME NEW c \in Contexts, SeededSpend(c) \in Nat, ~Refused(c)
  PROVE  Granted(c) \in Nat /\ Granted(c) <= PerStage /\ Granted(c) <= MaxBudget - SeededSpend(c)
<1>. DEFINE a == PerStage
            b == Remaining(c)
<1>1. a \in Nat /\ b \in Nat /\ b = MaxBudget - SeededSpend(c)
  BY LedgerAssumption DEF Refused, Remaining
<1>2. Granted(c) = CHOOSE x \in {a, b} : \A y \in {a, b} : x =< y
  BY DEF Granted, Min
<1>. HIDE DEF a, b
<1>3. \E x \in {a, b} : \A y \in {a, b} : x =< y
  BY <1>1
<1>4. Granted(c) \in {a, b} /\ \A y \in {a, b} : Granted(c) =< y
  BY <1>2, <1>3
<1>. QED BY <1>1, <1>4 DEF a

\* Every step keeps the contexts sound.
LEMMA CtxsStep ==
  ASSUME CallsOK, CtxsOK, FloorOK,
         [LedgerNext]_ledgerVars
  PROVE  CtxsOK'
<1>1. ASSUME NEW t \in Tasks, Acquire(t) PROVE CtxsOK'
  <2>. DEFINE x == [ctx[t] EXCEPT !.at = "idle", !.seeded = TRUE, !.spent = SeededSpend(t), !.start = ObservedCost(SeededSpend(t))]
  <2>1. ctx' = [ctx EXCEPT ![t] = x] /\ t \in Contexts
    BY <1>1, ContextsSplit DEF Acquire, CtxsOK
  <2>2. CtxOK(ctx[t]) /\ SeededSpend(t) \in Nat
    BY <2>1, SpendBelief DEF CtxsOK
  <2>3. CtxOK(x)
    BY <1>1, <2>2 DEF Acquire, CtxOK, CtxFields, CtxPlaces
  <2>. HIDE DEF x
  <2>. QED BY <2>1, <2>3 DEF CtxsOK
<1>2. ASSUME NEW t \in Tasks, EndStage(t) PROVE CtxsOK'
  <2>. DEFINE x == [ctx[t] EXCEPT !.at = "away"]
  <2>1. ctx' = [ctx EXCEPT ![t] = x] /\ t \in Contexts
    BY <1>2, ContextsSplit DEF EndStage, CtxsOK
  <2>2. CtxOK(ctx[t]) /\ SeededSpend(t) \in Nat
    BY <2>1, SpendBelief DEF CtxsOK
  <2>3. CtxOK(x)
    BY <1>2, <2>2 DEF EndStage, CtxOK, CtxFields, CtxPlaces
  <2>. HIDE DEF x
  <2>. QED BY <2>1, <2>3 DEF CtxsOK
<1>3. ASSUME NEW t \in Tasks, Die(t) PROVE CtxsOK'
  <2>1. \A c \in Contexts : ctx'[c] = Fresh \/ ctx'[c] = ctx[c]
    BY <1>3 DEF Die
  <2>. QED BY <1>3, <2>1, FreshOK DEF Die, CtxsOK
<1>4. ASSUME NEW t \in Tasks, ForkKids(t) PROVE CtxsOK'
  <2>1. CtxOK(ctx[t]) /\ SeededSpend(t) \in Nat
    BY ContextsSplit, SpendBelief DEF CtxsOK
  <2>. DEFINE x == [ctx[t] EXCEPT !.at = "joining", !.spent = SeededSpend(t)]
              y == [ctx[t] EXCEPT !.at = "idle", !.spent = SeededSpend(t)]
  <2>2. CtxOK(x) /\ CtxOK(y)
    BY <2>1 DEF CtxOK, CtxFields, CtxPlaces
  <2>3. ctx' = [c \in Contexts |-> IF c = t THEN x ELSE IF c \in Kids THEN y ELSE ctx[c]]
    BY <1>4 DEF ForkKids
  <2>. HIDE DEF x, y
  <2>. QED BY <2>2, <2>3 DEF CtxsOK
<1>5. ASSUME NEW t \in Tasks, Join(t) PROVE CtxsOK'
  <2>1. CtxOK(ctx[t]) /\ SeededSpend(t) \in Nat
    BY ContextsSplit, SpendBelief DEF CtxsOK
  <2>. DEFINE x == [ctx[t] EXCEPT !.at = "idle", !.spent = SeededSpend(t)]
  <2>2. CtxOK(x)
    BY <2>1 DEF CtxOK, CtxFields, CtxPlaces
  <2>3. ctx' = [c \in Contexts |-> IF c = t THEN x ELSE IF c \in Kids THEN Fresh ELSE ctx[c]]
    BY <1>5 DEF Join
  <2>. HIDE DEF x
  <2>. QED BY <2>2, <2>3, FreshOK DEF CtxsOK
<1>6. ASSUME NEW t \in Tasks, Misbehave(t) PROVE CtxsOK'
  BY <1>6 DEF Misbehave, CtxsOK
<1>7. ASSUME NEW t \in Tasks, CommitWrite(t) PROVE CtxsOK'
  <2>. DEFINE x == [ctx[t] EXCEPT !.at = "idle"]
  <2>1. ctx' = [ctx EXCEPT ![t] = x] /\ t \in Contexts
    BY <1>7, ContextsSplit DEF CommitWrite, CtxsOK
  <2>2. CtxOK(ctx[t]) /\ SeededSpend(t) \in Nat
    BY <2>1, SpendBelief DEF CtxsOK
  <2>3. CtxOK(x)
    BY <1>7, <2>2 DEF CommitWrite, CtxOK, CtxFields, CtxPlaces
  <2>. HIDE DEF x
  <2>. QED BY <2>1, <2>3 DEF CtxsOK
<1>8. ASSUME NEW c \in Contexts, RecoverLedger(c) PROVE CtxsOK'
  <2>. DEFINE x == [ctx[c] EXCEPT !.at = "recovered"]
  <2>1. ctx' = [ctx EXCEPT ![c] = x] /\ c \in Contexts
    BY <1>8, ContextsSplit DEF RecoverLedger, CtxsOK
  <2>2. CtxOK(ctx[c]) /\ SeededSpend(c) \in Nat
    BY <2>1, SpendBelief DEF CtxsOK
  <2>3. CtxOK(x)
    BY <1>8, <2>2 DEF RecoverLedger, CtxOK, CtxFields, CtxPlaces
  <2>. HIDE DEF x
  <2>. QED BY <2>1, <2>3 DEF CtxsOK
<1>9. ASSUME NEW c \in Contexts, RefuseCall(c) PROVE CtxsOK'
  <2>. DEFINE x == [ctx[c] EXCEPT !.at = "raised", !.spent = SeededSpend(c)]
  <2>1. ctx' = [ctx EXCEPT ![c] = x] /\ c \in Contexts
    BY <1>9, ContextsSplit DEF RefuseCall, CtxsOK
  <2>2. CtxOK(ctx[c]) /\ SeededSpend(c) \in Nat
    BY <2>1, SpendBelief DEF CtxsOK
  <2>3. CtxOK(x)
    BY <1>9, <2>2 DEF RefuseCall, CtxOK, CtxFields, CtxPlaces
  <2>. HIDE DEF x
  <2>. QED BY <2>1, <2>3 DEF CtxsOK
<1>10. ASSUME NEW c \in Contexts, Reserve(c) PROVE CtxsOK'
  <2>1. PICK k \in CallIds : ctx' = [ctx EXCEPT ![c] = [ctx[c] EXCEPT !.at = "called", !.call = k]]
    BY <1>10 DEF Reserve
  <2>. DEFINE x == [ctx[c] EXCEPT !.at = "called", !.call = k]
  <2>2. CtxOK(x)
    BY DEF CtxsOK, CtxOK, CtxFields, CtxPlaces
  <2>3. ctx' = [ctx EXCEPT ![c] = x]
    BY <2>1
  <2>. HIDE DEF x
  <2>. QED BY <2>2, <2>3 DEF CtxsOK
<1>11. ASSUME NEW c \in Contexts, RefuseRepeat(c) PROVE CtxsOK'
  <2>. DEFINE x == [ctx[c] EXCEPT !.at = "raised"]
  <2>1. ctx' = [ctx EXCEPT ![c] = x] /\ c \in Contexts
    BY <1>11, ContextsSplit DEF RefuseRepeat, CtxsOK
  <2>2. CtxOK(ctx[c]) /\ SeededSpend(c) \in Nat
    BY <2>1, SpendBelief DEF CtxsOK
  <2>3. CtxOK(x)
    BY <1>11, <2>2 DEF RefuseRepeat, CtxOK, CtxFields, CtxPlaces
  <2>. HIDE DEF x
  <2>. QED BY <2>1, <2>3 DEF CtxsOK
<1>12. ASSUME NEW c \in Contexts, Launch(c) PROVE CtxsOK'
  BY <1>12 DEF Launch, CtxsOK
<1>13. ASSUME NEW c \in Contexts, LaunchFails(c) PROVE CtxsOK'
  BY <1>13 DEF LaunchFails, CtxsOK
<1>14. ASSUME NEW c \in Contexts, Answer(c) PROVE CtxsOK'
  <2>. DEFINE x == [ctx[c] EXCEPT !.at = "answered", !.spent = ctx[c].spent + IF External THEN 0 ELSE call[ctx[c].call].real]
  <2>1. ctx' = [ctx EXCEPT ![c] = x] /\ c \in Contexts
    BY <1>14 DEF Answer, CtxsOK, CtxOK, CtxFields
  <2>2. CtxOK(ctx[c]) /\ SeededSpend(c) \in Nat
    BY <2>1, SpendBelief DEF CtxsOK
  <2>3. CtxOK(x)
    BY <1>14, <2>2 DEF Answer, CtxOK, CtxFields, CtxPlaces, CallsOK, CallOK
  <2>. HIDE DEF x
  <2>. QED BY <2>1, <2>3 DEF CtxsOK
<1>15. ASSUME NEW c \in Contexts, CallRaises(c) PROVE CtxsOK'
  <2>. DEFINE x == [ctx[c] EXCEPT !.at = "raised"]
  <2>1. ctx' = [ctx EXCEPT ![c] = x] /\ c \in Contexts
    BY <1>15, ContextsSplit DEF CallRaises, CtxsOK
  <2>2. CtxOK(ctx[c]) /\ SeededSpend(c) \in Nat
    BY <2>1, SpendBelief DEF CtxsOK
  <2>3. CtxOK(x)
    BY <1>15, <2>2 DEF CallRaises, CtxOK, CtxFields, CtxPlaces
  <2>. HIDE DEF x
  <2>. QED BY <2>1, <2>3 DEF CtxsOK
<1>16. ASSUME NEW c \in Contexts, Return(c) PROVE CtxsOK'
  <2>1. PICK a \in {"raised", "returned", "written", "idle"} : ctx' = [ctx EXCEPT ![c] = [ctx[c] EXCEPT !.at = a]]
    <3>1. PICK failed \in BOOLEAN :
            ctx' = [ctx EXCEPT ![c].at = IF Edited(c) \/ ctx[c].spent > MaxBudget \/ failed THEN "raised"
                                          ELSE IF c \in Kids THEN "returned"
                                          ELSE IF ctx[c].writes THEN "written" ELSE "idle"]
      BY <1>16 DEF Return
    <3>. QED BY <3>1
  <2>. DEFINE x == [ctx[c] EXCEPT !.at = a]
  <2>2. CtxOK(x)
    BY DEF CtxsOK, CtxOK, CtxFields, CtxPlaces
  <2>3. ctx' = [ctx EXCEPT ![c] = x]
    BY <2>1
  <2>. HIDE DEF x
  <2>. QED BY <2>1, <2>2, <2>3 DEF CtxsOK
<1>17. ASSUME NEW c \in Contexts, NEW w \in BOOLEAN, NEW r \in Rounds, StartCall(c, w, r) PROVE CtxsOK'
  <2>. DEFINE x == [ctx[c] EXCEPT !.at = "checked", !.spent = SeededSpend(c), !.granted = Granted(c),
                                    !.round = r, !.writes = w, !.before = worktree]
  <2>1. ctx' = [ctx EXCEPT ![c] = x] /\ c \in Contexts
    BY <1>17, ContextsSplit DEF StartCall, CtxsOK
  <2>2. CtxOK(ctx[c]) /\ SeededSpend(c) \in Nat
    BY <2>1, SpendBelief DEF CtxsOK
  <2>3. CtxOK(x)
    BY <1>17, <2>2, GrantedBounds DEF StartCall, CtxOK, CtxFields, CtxPlaces
  <2>. HIDE DEF x
  <2>. QED BY <2>1, <2>3 DEF CtxsOK
<1>18. ASSUME NEW k \in CallIds, Bill(k) PROVE CtxsOK'
  BY <1>18 DEF Bill, CtxsOK
<1>19. ASSUME NEW k \in CallIds, Reconcile(k) PROVE CtxsOK'
  BY <1>19 DEF Reconcile, CtxsOK
<1>20. CASE RestoreTree
  BY <1>20 DEF RestoreTree, CtxsOK
<1>21. CASE UNCHANGED ledgerVars
  BY <1>21 DEF ledgerVars, CtxsOK
<1>. QED BY <1>1, <1>2, <1>3, <1>4, <1>5, <1>6, <1>7, <1>8, <1>9, <1>10, <1>11, <1>12, <1>13, <1>14, <1>15, <1>16, <1>17, <1>18, <1>19, <1>20, <1>21 DEF LedgerNext

\* A context that is at work has an owner, and the floor is set.
LEMMA BusyIsOwned ==
  ASSUME OwnersOnly, FloorOK, NEW c \in Contexts, ctx[c].at # "away"
  PROVE  owner \in Tasks /\ floor # -1
  BY ContextsSplit DEF OwnersOnly, FloorOK

\* Every step keeps contexts with their owner.
LEMMA OwnersStep ==
  ASSUME CtxsOK, OwnersOnly,
         [LedgerNext]_ledgerVars
  PROVE  OwnersOnly'
<1>1. ASSUME NEW t \in Tasks, Acquire(t) PROVE OwnersOnly'
  BY <1>1, ContextsSplit, FreshOK DEF Acquire, OwnersOnly, CtxsOK, CtxOK, CtxFields, External
<1>2. ASSUME NEW t \in Tasks, EndStage(t) PROVE OwnersOnly'
  BY <1>2, ContextsSplit, FreshOK DEF EndStage, OwnersOnly, CtxsOK, CtxOK, CtxFields, External
<1>3. ASSUME NEW t \in Tasks, Die(t) PROVE OwnersOnly'
  BY <1>3, ContextsSplit, FreshOK DEF Die, OwnersOnly, CtxsOK, CtxOK, CtxFields, External
<1>4. ASSUME NEW t \in Tasks, ForkKids(t) PROVE OwnersOnly'
  BY <1>4, ContextsSplit, FreshOK DEF ForkKids, OwnersOnly, CtxsOK, CtxOK, CtxFields, External
<1>5. ASSUME NEW t \in Tasks, Join(t) PROVE OwnersOnly'
  BY <1>5, ContextsSplit, FreshOK DEF Join, OwnersOnly, CtxsOK, CtxOK, CtxFields, External
<1>6. ASSUME NEW t \in Tasks, Misbehave(t) PROVE OwnersOnly'
  BY <1>6, ContextsSplit, FreshOK DEF Misbehave, OwnersOnly, CtxsOK, CtxOK, CtxFields, External
<1>7. ASSUME NEW t \in Tasks, CommitWrite(t) PROVE OwnersOnly'
  BY <1>7, ContextsSplit, FreshOK DEF CommitWrite, OwnersOnly, CtxsOK, CtxOK, CtxFields, External
<1>8. ASSUME NEW c \in Contexts, RecoverLedger(c) PROVE OwnersOnly'
  <2>1. ctx[c].at \notin {"away", "joining"} /\ owner' = owner /\ agentKind' = agentKind
    BY <1>8 DEF RecoverLedger
  <2>2. ctx'[c].at \notin {"away"} /\ \A d \in Contexts \ {c} : ctx'[d] = ctx[d]
    BY <1>8 DEF RecoverLedger, CtxsOK, CtxOK, CtxFields
  <2>. QED BY <2>1, <2>2, ContextsSplit DEF OwnersOnly, External
<1>9. ASSUME NEW c \in Contexts, RefuseCall(c) PROVE OwnersOnly'
  <2>1. ctx[c].at \notin {"away", "joining"} /\ owner' = owner /\ agentKind' = agentKind
    BY <1>9 DEF RefuseCall, Ready
  <2>2. ctx'[c].at \notin {"away"} /\ \A d \in Contexts \ {c} : ctx'[d] = ctx[d]
    BY <1>9 DEF RefuseCall, CtxsOK, CtxOK, CtxFields
  <2>. QED BY <2>1, <2>2, ContextsSplit DEF OwnersOnly, External
<1>10. ASSUME NEW c \in Contexts, Reserve(c) PROVE OwnersOnly'
  <2>1. ctx[c].at \notin {"away", "joining"} /\ owner' = owner /\ agentKind' = agentKind
    BY <1>10 DEF Reserve
  <2>2. ctx'[c].at \notin {"away"} /\ \A d \in Contexts \ {c} : ctx'[d] = ctx[d]
    BY <1>10 DEF Reserve, CtxsOK, CtxOK, CtxFields
  <2>. QED BY <2>1, <2>2, ContextsSplit DEF OwnersOnly, External
<1>11. ASSUME NEW c \in Contexts, RefuseRepeat(c) PROVE OwnersOnly'
  <2>1. ctx[c].at \notin {"away", "joining"} /\ owner' = owner /\ agentKind' = agentKind
    BY <1>11 DEF RefuseRepeat
  <2>2. ctx'[c].at \notin {"away"} /\ \A d \in Contexts \ {c} : ctx'[d] = ctx[d]
    BY <1>11 DEF RefuseRepeat, CtxsOK, CtxOK, CtxFields
  <2>. QED BY <2>1, <2>2, ContextsSplit DEF OwnersOnly, External
<1>12. ASSUME NEW c \in Contexts, Launch(c) PROVE OwnersOnly'
  BY <1>12, ContextsSplit, FreshOK DEF Launch, OwnersOnly, CtxsOK, CtxOK, CtxFields, External
<1>13. ASSUME NEW c \in Contexts, LaunchFails(c) PROVE OwnersOnly'
  BY <1>13, ContextsSplit, FreshOK DEF LaunchFails, OwnersOnly, CtxsOK, CtxOK, CtxFields, External
<1>14. ASSUME NEW c \in Contexts, Answer(c) PROVE OwnersOnly'
  <2>1. ctx[c].at \notin {"away", "joining"} /\ owner' = owner /\ agentKind' = agentKind
    BY <1>14 DEF Answer
  <2>2. ctx'[c].at \notin {"away"} /\ \A d \in Contexts \ {c} : ctx'[d] = ctx[d]
    BY <1>14 DEF Answer, CtxsOK, CtxOK, CtxFields
  <2>. QED BY <2>1, <2>2, ContextsSplit DEF OwnersOnly, External
<1>15. ASSUME NEW c \in Contexts, CallRaises(c) PROVE OwnersOnly'
  <2>1. ctx[c].at \notin {"away", "joining"} /\ owner' = owner /\ agentKind' = agentKind
    BY <1>15 DEF CallRaises
  <2>2. ctx'[c].at \notin {"away"} /\ \A d \in Contexts \ {c} : ctx'[d] = ctx[d]
    BY <1>15 DEF CallRaises, CtxsOK, CtxOK, CtxFields
  <2>. QED BY <2>1, <2>2, ContextsSplit DEF OwnersOnly, External
<1>16. ASSUME NEW c \in Contexts, Return(c) PROVE OwnersOnly'
  <2>1. ctx[c].at \notin {"away", "joining"} /\ owner' = owner /\ agentKind' = agentKind
    BY <1>16 DEF Return
  <2>2. ctx'[c].at \notin {"away"} /\ \A d \in Contexts \ {c} : ctx'[d] = ctx[d]
    BY <1>16 DEF Return, CtxsOK, CtxOK, CtxFields
  <2>. QED BY <2>1, <2>2, ContextsSplit DEF OwnersOnly, External
<1>17. ASSUME NEW c \in Contexts, NEW w \in BOOLEAN, NEW r \in Rounds, StartCall(c, w, r) PROVE OwnersOnly'
  <2>1. ctx[c].at \notin {"away", "joining"} /\ owner' = owner /\ agentKind' = agentKind
    BY <1>17 DEF StartCall, Ready
  <2>2. ctx'[c].at \notin {"away"} /\ \A d \in Contexts \ {c} : ctx'[d] = ctx[d]
    BY <1>17 DEF StartCall, CtxsOK, CtxOK, CtxFields
  <2>. QED BY <2>1, <2>2, ContextsSplit DEF OwnersOnly, External
<1>18. ASSUME NEW k \in CallIds, Bill(k) PROVE OwnersOnly'
  BY <1>18, ContextsSplit, FreshOK DEF Bill, OwnersOnly, CtxsOK, CtxOK, CtxFields, External
<1>19. ASSUME NEW k \in CallIds, Reconcile(k) PROVE OwnersOnly'
  BY <1>19, ContextsSplit, FreshOK DEF Reconcile, OwnersOnly, CtxsOK, CtxOK, CtxFields, External
<1>20. CASE RestoreTree
  BY <1>20, ContextsSplit, FreshOK DEF RestoreTree, OwnersOnly, CtxsOK, CtxOK, CtxFields, External
<1>21. CASE UNCHANGED ledgerVars
  BY <1>21 DEF ledgerVars, OwnersOnly, CtxsOK, CtxOK, CtxFields, External
<1>. QED BY <1>1, <1>2, <1>3, <1>4, <1>5, <1>6, <1>7, <1>8, <1>9, <1>10, <1>11, <1>12, <1>13, <1>14, <1>15, <1>16, <1>17, <1>18, <1>19, <1>20, <1>21 DEF LedgerNext

\* Every step keeps a call with the one context that made it.
LEMMA OwnCallsStep ==
  ASSUME CallsOK, CtxsOK, OwnersOnly, OwnCalls,
         [LedgerNext]_ledgerVars
  PROVE  OwnCalls'
<1>1. ASSUME NEW t \in Tasks, Acquire(t) PROVE OwnCalls'
  <2>1. call' = call
    BY <1>1 DEF Acquire
  <2>2. \A d \in Contexts : ctx'[d].at = "called" => ctx'[d] = ctx[d]
    BY <1>1, ContextsSplit, FreshOK DEF Acquire, CtxsOK, CtxOK, CtxFields
  <2>. QED BY <2>1, <2>2 DEF OwnCalls
<1>2. ASSUME NEW t \in Tasks, EndStage(t) PROVE OwnCalls'
  <2>1. call' = call
    BY <1>2 DEF EndStage
  <2>2. \A d \in Contexts : ctx'[d].at = "called" => ctx'[d] = ctx[d]
    BY <1>2, ContextsSplit, FreshOK DEF EndStage, CtxsOK, CtxOK, CtxFields
  <2>. QED BY <2>1, <2>2 DEF OwnCalls
<1>3. ASSUME NEW t \in Tasks, Die(t) PROVE OwnCalls'
  <2>1. call' = call
    BY <1>3 DEF Die
  <2>2. \A d \in Contexts : ctx'[d].at = "called" => ctx'[d] = ctx[d]
    BY <1>3, ContextsSplit, FreshOK DEF Die, CtxsOK, CtxOK, CtxFields
  <2>. QED BY <2>1, <2>2 DEF OwnCalls
<1>4. ASSUME NEW t \in Tasks, ForkKids(t) PROVE OwnCalls'
  <2>1. call' = call
    BY <1>4 DEF ForkKids
  <2>2. \A d \in Contexts : ctx'[d].at = "called" => ctx'[d] = ctx[d]
    BY <1>4, ContextsSplit, FreshOK DEF ForkKids, CtxsOK, CtxOK, CtxFields
  <2>. QED BY <2>1, <2>2 DEF OwnCalls
<1>5. ASSUME NEW t \in Tasks, Join(t) PROVE OwnCalls'
  <2>1. call' = call
    BY <1>5 DEF Join
  <2>2. \A d \in Contexts : ctx'[d].at = "called" => ctx'[d] = ctx[d]
    BY <1>5, ContextsSplit, FreshOK DEF Join, CtxsOK, CtxOK, CtxFields
  <2>. QED BY <2>1, <2>2 DEF OwnCalls
<1>6. ASSUME NEW t \in Tasks, Misbehave(t) PROVE OwnCalls'
  <2>1. call' = call
    BY <1>6 DEF Misbehave
  <2>2. \A d \in Contexts : ctx'[d].at = "called" => ctx'[d] = ctx[d]
    BY <1>6, ContextsSplit, FreshOK DEF Misbehave, CtxsOK, CtxOK, CtxFields
  <2>. QED BY <2>1, <2>2 DEF OwnCalls
<1>7. ASSUME NEW t \in Tasks, CommitWrite(t) PROVE OwnCalls'
  <2>1. call' = call
    BY <1>7 DEF CommitWrite
  <2>2. \A d \in Contexts : ctx'[d].at = "called" => ctx'[d] = ctx[d]
    BY <1>7, ContextsSplit, FreshOK DEF CommitWrite, CtxsOK, CtxOK, CtxFields
  <2>. QED BY <2>1, <2>2 DEF OwnCalls
<1>8. ASSUME NEW c \in Contexts, RecoverLedger(c) PROVE OwnCalls'
  <2>1. c \in Tasks /\ owner = c /\ ctx[c].at = "idle"
    BY <1>8, ContextsSplit DEF RecoverLedger, OwnersOnly
  <2>2. \A d \in Contexts \ {c} : ctx[d].at = "away"
    BY <2>1, ContextsSplit DEF OwnersOnly
  <2>3. ctx'[c].at = "recovered" /\ \A d \in Contexts \ {c} : ctx'[d] = ctx[d]
    BY <1>8 DEF RecoverLedger, CtxsOK, CtxOK, CtxFields
  <2>. QED BY <2>2, <2>3 DEF OwnCalls
<1>9. ASSUME NEW c \in Contexts, RefuseCall(c) PROVE OwnCalls'
  <2>1. call' = call
    BY <1>9 DEF RefuseCall
  <2>2. \A d \in Contexts : ctx'[d].at = "called" => ctx'[d] = ctx[d]
    BY <1>9, ContextsSplit, FreshOK DEF RefuseCall, CtxsOK, CtxOK, CtxFields
  <2>. QED BY <2>1, <2>2 DEF OwnCalls
<1>10. ASSUME NEW c \in Contexts, Reserve(c) PROVE OwnCalls'
  <2>1. PICK k \in CallIds \ Made :
          /\ call' = [call EXCEPT ![k] = [NoCall EXCEPT !.state = "reserved", !.granted = ctx[c].granted, !.round = ctx[c].round]]
          /\ ctx' = [ctx EXCEPT ![c].at = "called", ![c].call = k]
    BY <1>10 DEF Reserve
  <2>2. ctx'[c].at = "called" /\ ctx'[c].call = k /\ \A d \in Contexts \ {c} : ctx'[d] = ctx[d]
    BY <2>1 DEF CtxsOK, CtxOK, CtxFields
  <2>3. call'[k].state = "reserved" /\ \A j \in CallIds \ {k} : call'[j] = call[j]
    BY <2>1 DEF CallsOK, NoCall
  <2>4. call[k].state = "none"
    BY <2>1 DEF Made
  <2>5. \A d \in Contexts : ctx[d].at = "called" => ctx[d].call \in CallIds \ {k}
    BY <2>4 DEF OwnCalls, CtxsOK, CtxOK
  <2>6. ASSUME NEW d \in Contexts, ctx'[d].at = "called" PROVE call'[ctx'[d].call].state = "reserved"
    BY <2>2, <2>3, <2>5, <2>6 DEF OwnCalls
  <2>7. ASSUME NEW d \in Contexts, ctx'[d].at = "called", NEW e \in Contexts, e # d, ctx'[e].at = "called"
        PROVE  ctx'[e].call # ctx'[d].call
    BY <2>2, <2>5, <2>7 DEF OwnCalls
  <2>. QED BY <2>6, <2>7 DEF OwnCalls
<1>11. ASSUME NEW c \in Contexts, RefuseRepeat(c) PROVE OwnCalls'
  <2>1. call' = call
    BY <1>11 DEF RefuseRepeat
  <2>2. \A d \in Contexts : ctx'[d].at = "called" => ctx'[d] = ctx[d]
    BY <1>11, ContextsSplit, FreshOK DEF RefuseRepeat, CtxsOK, CtxOK, CtxFields
  <2>. QED BY <2>1, <2>2 DEF OwnCalls
<1>12. ASSUME NEW c \in Contexts, Launch(c) PROVE OwnCalls'
  <2>1. ctx' = ctx /\ \A j \in CallIds : call'[j].state = call[j].state
    BY <1>12 DEF Launch, CallsOK, CallOK, CallFields
  <2>. QED BY <2>1 DEF OwnCalls, CtxsOK, CtxOK
<1>13. ASSUME NEW c \in Contexts, LaunchFails(c) PROVE OwnCalls'
  <2>1. ctx' = ctx /\ \A j \in CallIds : call'[j].state = call[j].state
    BY <1>13 DEF LaunchFails, CallsOK, CallOK, CallFields
  <2>. QED BY <2>1 DEF OwnCalls, CtxsOK, CtxOK
<1>14. ASSUME NEW c \in Contexts, Answer(c) PROVE OwnCalls'
  <2>. DEFINE k == ctx[c].call
  <2>1. ctx[c].at = "called" /\ ctx'[c].at \in {"answered", "raised"} /\ \A d \in Contexts \ {c} : ctx'[d] = ctx[d]
    BY <1>14 DEF Answer, CtxsOK, CtxOK, CtxFields
  <2>2. \A j \in CallIds \ {k} : call'[j] = call[j]
    BY <1>14 DEF Answer, CallsOK
  <2>3. \A d \in Contexts \ {c} : ctx[d].at = "called" => ctx[d].call \in CallIds \ {k}
    BY <2>1 DEF OwnCalls, CtxsOK, CtxOK
  <2>. QED BY <2>1, <2>2, <2>3 DEF OwnCalls
<1>15. ASSUME NEW c \in Contexts, CallRaises(c) PROVE OwnCalls'
  <2>. DEFINE k == ctx[c].call
  <2>1. ctx[c].at = "called" /\ ctx'[c].at \in {"answered", "raised"} /\ \A d \in Contexts \ {c} : ctx'[d] = ctx[d]
    BY <1>15 DEF CallRaises, CtxsOK, CtxOK, CtxFields
  <2>2. \A j \in CallIds \ {k} : call'[j] = call[j]
    BY <1>15 DEF CallRaises, CallsOK
  <2>3. \A d \in Contexts \ {c} : ctx[d].at = "called" => ctx[d].call \in CallIds \ {k}
    BY <2>1 DEF OwnCalls, CtxsOK, CtxOK
  <2>. QED BY <2>1, <2>2, <2>3 DEF OwnCalls
<1>16. ASSUME NEW c \in Contexts, Return(c) PROVE OwnCalls'
  <2>1. call' = call
    BY <1>16 DEF Return
  <2>2. \A d \in Contexts : ctx'[d].at = "called" => ctx'[d] = ctx[d]
    BY <1>16, ContextsSplit, FreshOK DEF Return, CtxsOK, CtxOK, CtxFields
  <2>. QED BY <2>1, <2>2 DEF OwnCalls
<1>17. ASSUME NEW c \in Contexts, NEW w \in BOOLEAN, NEW r \in Rounds, StartCall(c, w, r) PROVE OwnCalls'
  <2>1. call' = call
    BY <1>17 DEF StartCall
  <2>2. \A d \in Contexts : ctx'[d].at = "called" => ctx'[d] = ctx[d]
    BY <1>17, ContextsSplit, FreshOK DEF StartCall, CtxsOK, CtxOK, CtxFields
  <2>. QED BY <2>1, <2>2 DEF OwnCalls
<1>18. ASSUME NEW k \in CallIds, Bill(k) PROVE OwnCalls'
  <2>1. ctx' = ctx /\ \A j \in CallIds : call'[j].state = call[j].state
    BY <1>18 DEF Bill, CallsOK, CallOK, CallFields
  <2>. QED BY <2>1 DEF OwnCalls, CtxsOK, CtxOK
<1>19. ASSUME NEW k \in CallIds, Reconcile(k) PROVE OwnCalls'
  <2>1. \A c \in Contexts : ctx[c].at = "away"
    BY <1>19, ContextsSplit DEF Reconcile, OwnersOnly
  <2>. QED BY <1>19, <2>1 DEF Reconcile, OwnCalls
<1>20. CASE RestoreTree
  <2>1. call' = call
    BY <1>20 DEF RestoreTree
  <2>2. \A d \in Contexts : ctx'[d].at = "called" => ctx'[d] = ctx[d]
    BY <1>20, ContextsSplit, FreshOK DEF RestoreTree, CtxsOK, CtxOK, CtxFields
  <2>. QED BY <2>1, <2>2 DEF OwnCalls
<1>21. CASE UNCHANGED ledgerVars
  BY <1>21 DEF ledgerVars, OwnCalls, CtxsOK, CtxOK, CtxFields, CallsOK, CallOK
<1>. QED BY <1>1, <1>2, <1>3, <1>4, <1>5, <1>6, <1>7, <1>8, <1>9, <1>10, <1>11, <1>12, <1>13, <1>14, <1>15, <1>16, <1>17, <1>18, <1>19, <1>20, <1>21 DEF LedgerNext

\* Only a reservation makes a call.
LEMMA MadeStep ==
  ASSUME CallsOK, CtxsOK, OwnCalls,
         [LedgerNext]_ledgerVars
  PROVE  Made' = Made \/ \E d \in Contexts : Reserve(d)
<1>1. ASSUME NEW t \in Tasks, Acquire(t) PROVE Made' = Made \/ \E d \in Contexts : Reserve(d)
  BY <1>1 DEF Acquire, Made
<1>2. ASSUME NEW t \in Tasks, EndStage(t) PROVE Made' = Made \/ \E d \in Contexts : Reserve(d)
  BY <1>2 DEF EndStage, Made
<1>3. ASSUME NEW t \in Tasks, Die(t) PROVE Made' = Made \/ \E d \in Contexts : Reserve(d)
  BY <1>3 DEF Die, Made
<1>4. ASSUME NEW t \in Tasks, ForkKids(t) PROVE Made' = Made \/ \E d \in Contexts : Reserve(d)
  BY <1>4 DEF ForkKids, Made
<1>5. ASSUME NEW t \in Tasks, Join(t) PROVE Made' = Made \/ \E d \in Contexts : Reserve(d)
  BY <1>5 DEF Join, Made
<1>6. ASSUME NEW t \in Tasks, Misbehave(t) PROVE Made' = Made \/ \E d \in Contexts : Reserve(d)
  BY <1>6 DEF Misbehave, Made
<1>7. ASSUME NEW t \in Tasks, CommitWrite(t) PROVE Made' = Made \/ \E d \in Contexts : Reserve(d)
  BY <1>7 DEF CommitWrite, Made
<1>8. ASSUME NEW c \in Contexts, RecoverLedger(c) PROVE Made' = Made \/ \E d \in Contexts : Reserve(d)
  <2>1. \A j \in CallIds : call'[j].state = "none" <=> call[j].state = "none"
    BY <1>8 DEF RecoverLedger, CallsOK, CallOK, CallFields, OwnCalls, Unreconciled, Made, Recovered, Final
  <2>. QED BY <2>1 DEF Made
<1>9. ASSUME NEW c \in Contexts, RefuseCall(c) PROVE Made' = Made \/ \E d \in Contexts : Reserve(d)
  BY <1>9 DEF RefuseCall, Made
<1>10. ASSUME NEW c \in Contexts, Reserve(c) PROVE Made' = Made \/ \E d \in Contexts : Reserve(d)
  BY <1>10
<1>11. ASSUME NEW c \in Contexts, RefuseRepeat(c) PROVE Made' = Made \/ \E d \in Contexts : Reserve(d)
  BY <1>11 DEF RefuseRepeat, Made
<1>12. ASSUME NEW c \in Contexts, Launch(c) PROVE Made' = Made \/ \E d \in Contexts : Reserve(d)
  <2>1. \A j \in CallIds : call'[j].state = "none" <=> call[j].state = "none"
    BY <1>12 DEF Launch, CallsOK, CallOK, CallFields, OwnCalls, Unreconciled, Made, Recovered, Final
  <2>. QED BY <2>1 DEF Made
<1>13. ASSUME NEW c \in Contexts, LaunchFails(c) PROVE Made' = Made \/ \E d \in Contexts : Reserve(d)
  <2>1. \A j \in CallIds : call'[j].state = "none" <=> call[j].state = "none"
    BY <1>13 DEF LaunchFails, CallsOK, CallOK, CallFields, OwnCalls, Unreconciled, Made, Recovered, Final
  <2>. QED BY <2>1 DEF Made
<1>14. ASSUME NEW c \in Contexts, Answer(c) PROVE Made' = Made \/ \E d \in Contexts : Reserve(d)
  <2>1. \A j \in CallIds : call'[j].state = "none" <=> call[j].state = "none"
    BY <1>14 DEF Answer, CallsOK, CallOK, CallFields, OwnCalls, Unreconciled, Made, Recovered, Final
  <2>. QED BY <2>1 DEF Made
<1>15. ASSUME NEW c \in Contexts, CallRaises(c) PROVE Made' = Made \/ \E d \in Contexts : Reserve(d)
  <2>1. \A j \in CallIds : call'[j].state = "none" <=> call[j].state = "none"
    BY <1>15 DEF CallRaises, CallsOK, CallOK, CallFields, OwnCalls, Unreconciled, Made, Recovered, Final
  <2>. QED BY <2>1 DEF Made
<1>16. ASSUME NEW c \in Contexts, Return(c) PROVE Made' = Made \/ \E d \in Contexts : Reserve(d)
  BY <1>16 DEF Return, Made
<1>17. ASSUME NEW c \in Contexts, NEW w \in BOOLEAN, NEW r \in Rounds, StartCall(c, w, r) PROVE Made' = Made \/ \E d \in Contexts : Reserve(d)
  BY <1>17 DEF StartCall, Made
<1>18. ASSUME NEW k \in CallIds, Bill(k) PROVE Made' = Made \/ \E d \in Contexts : Reserve(d)
  <2>1. \A j \in CallIds : call'[j].state = "none" <=> call[j].state = "none"
    BY <1>18 DEF Bill, CallsOK, CallOK, CallFields, OwnCalls, Unreconciled, Made, Recovered, Final
  <2>. QED BY <2>1 DEF Made
<1>19. ASSUME NEW k \in CallIds, Reconcile(k) PROVE Made' = Made \/ \E d \in Contexts : Reserve(d)
  <2>1. \A j \in CallIds : call'[j].state = "none" <=> call[j].state = "none"
    BY <1>19 DEF Reconcile, CallsOK, CallOK, CallFields, OwnCalls, Unreconciled, Made, Recovered, Final
  <2>. QED BY <2>1 DEF Made
<1>20. CASE RestoreTree
  BY <1>20 DEF RestoreTree, Made
<1>21. CASE UNCHANGED ledgerVars
  BY <1>21 DEF ledgerVars, Made
<1>. QED BY <1>1, <1>2, <1>3, <1>4, <1>5, <1>6, <1>7, <1>8, <1>9, <1>10, <1>11, <1>12, <1>13, <1>14, <1>15, <1>16, <1>17, <1>18, <1>19, <1>20, <1>21 DEF LedgerNext

\* Every step keeps the floor at the money of the stage log.
LEMMA FloorStep ==
  ASSUME CallsOK, CtxsOK, OwnersOnly, OwnCalls, FloorOK, [LedgerNext]_ledgerVars
  PROVE  FloorOK'
<1>1. era' = era /\ agentKind' = agentKind
  BY DEF LedgerNext, ledgerVars, Acquire, EndStage, Die, ForkKids, Join, Misbehave, CommitWrite, RecoverLedger, RefuseCall,
       Reserve, RefuseRepeat, Launch, LaunchFails, Answer, CallRaises, Return, StartCall, Bill, Reconcile, RestoreTree
<1>2. CASE floor # -1
  <2>1. floor' = floor
    <3>1. ASSUME NEW t \in Tasks, Acquire(t) PROVE floor' = floor
      BY <1>2, <3>1 DEF Acquire, AdoptedFloor
    <3>2. ASSUME ~\E t \in Tasks : Acquire(t) PROVE floor' = floor
      BY <3>2 DEF LedgerNext, ledgerVars, EndStage, Die, ForkKids, Join, Misbehave, CommitWrite, RecoverLedger, RefuseCall,
           Reserve, RefuseRepeat, Launch, LaunchFails, Answer, CallRaises, Return, StartCall, Bill, Reconcile, RestoreTree
    <3>. QED BY <3>1, <3>2
  <2>2. Made \subseteq Made'
    <3>1. ASSUME NEW c \in Contexts, Reserve(c) PROVE Made \subseteq Made'
      <4>1. PICK k \in CallIds \ Made : \A j \in CallIds \ {k} : call'[j] = call[j]
        BY <3>1 DEF Reserve, CallsOK
      <4>. QED BY <4>1 DEF Made
    <3>. QED BY <3>1, MadeStep
  <2>. QED BY <1>1, <1>2, <2>1, <2>2 DEF FloorOK, OldMoney, External
<1>3. CASE floor = -1
  <2>1. owner = NoTask /\ \A c \in Contexts : ctx[c].at = "away"
    BY <1>3, ContextsSplit DEF FloorOK, OwnersOnly
  <2>2. ~\E d \in Contexts : Reserve(d)
    BY <2>1 DEF Reserve
  <2>3. Made' = Made
    BY <2>2, MadeStep
  <2>4. ASSUME NEW t \in Tasks, Acquire(t) PROVE FloorOK'
    <3>1. floor' = OldMoney
      BY <2>4, FloorAdopted DEF Acquire
    <3>. QED BY <1>1, <2>3, <3>1, OldMoneyType DEF FloorOK, OldMoney, External
  <2>5. ASSUME ~\E t \in Tasks : Acquire(t) PROVE FloorOK'
    <3>1. \A t \in Tasks : ~EndStage(t) /\ ~Die(t)
      BY <2>1, ContextsSplit DEF EndStage, Die
    <3>2. floor' = floor /\ owner' = owner /\ stageLog' = stageLog
      BY <2>5, <3>1 DEF LedgerNext, ledgerVars, ForkKids, Join, Misbehave, CommitWrite, RecoverLedger, RefuseCall,
           Reserve, RefuseRepeat, Launch, LaunchFails, Answer, CallRaises, Return, StartCall, Bill, Reconcile, RestoreTree
    <3>. QED BY <1>1, <1>3, <2>3, <3>2 DEF FloorOK, OldMoney, External
  <2>. QED BY <2>4, <2>5
<1>. QED BY <1>2, <1>3

-----------------------------------------------------------------------------
\* What a context may still reserve without asking again.
ClaimIn(c, x) == IF x.at = "checked" THEN x.granted ELSE IF c \in Kids /\ x.at = "idle" THEN PerStage ELSE 0
ClaimOf(cx)   == [c \in Contexts |-> ClaimIn(c, cx[c])]

\* What is charged, and what contexts were promised and have not reserved yet, fits the ceiling.
Affords(cl, cx) == OldMoney + Count(CapOf(cl), CallIds) + Count(ClaimOf(cx), Contexts) <= MaxBudget

\* There are finitely many contexts.
LEMMA ContextsFinite == IsFiniteSet(Contexts) /\ IsFiniteSet(Kids)
  BY LedgerAssumption, FS_Union DEF Contexts

\* A claim is a number.
LEMMA Claims ==
  ASSUME CtxsOK, NEW c \in Contexts
  PROVE  ClaimOf(ctx)[c] \in Nat /\ ClaimOf(ctx)[c] = ClaimIn(c, ctx[c])
  BY LedgerAssumption DEF CtxsOK, CtxOK, ClaimOf, ClaimIn

\* What is charged up to the caps is within the persisted spend.
LEMMA CapsBelow ==
  ASSUME CallsOK, CtxsOK, FloorOK
  PROVE  OldMoney + Count(CapOf(call), CallIds) <= PersistedSpend
<1>1. Count(CapOf(call), CallIds) <= Count(ChargeOf(call), CallIds)
  BY CallNumbers, CountMonotone, CallIdsFinite
<1>2. Count(CapOf(call), CallIds) \in Nat /\ Count(ChargeOf(call), CallIds) \in Nat
  BY CallNumbers, UnitsFinite, CallIdsFinite
<1>. QED BY <1>1, <1>2, SpendBelief, OldMoneyType

\* Charges and claims add up to numbers.
LEMMA Counted ==
  ASSUME CallsOK, CtxsOK
  PROVE  Count(CapOf(call), CallIds) \in Nat /\ Count(ClaimOf(ctx), Contexts) \in Nat
  BY CallNumbers, Claims, UnitsFinite, CallIdsFinite, ContextsFinite

\* A step that charges no call more within its cap and promises no context more.
LEMMA AffordsLess ==
  ASSUME CallsOK, CtxsOK, CallsOK', CtxsOK', Affords(call, ctx), era' = era,
         \A k \in CallIds : CapIn(call'[k]) <= CapIn(call[k]),
         \A c \in Contexts : ClaimIn(c, ctx'[c]) <= ClaimIn(c, ctx[c])
  PROVE  Affords(call, ctx)'
<1>. DEFINE A == CapOf(call)
            B == CapOf(call')
            C == ClaimOf(ctx)
            D == ClaimOf(ctx')
<1>1. \A k \in CallIds : A[k] \in Nat /\ A[k] = CapIn(call[k])
  BY CallNumbers DEF CapOf
<1>2. \A k \in CallIds : B[k] \in Nat /\ B[k] = CapIn(call'[k])
  BY DEF CallsOK, CallOK, CapOf, CapIn, ChargeIn
<1>3. \A c \in Contexts : C[c] \in Nat /\ C[c] = ClaimIn(c, ctx[c])
  BY Claims
<1>4. \A c \in Contexts : D[c] \in Nat /\ D[c] = ClaimIn(c, ctx'[c])
  BY LedgerAssumption DEF CtxsOK, CtxOK, ClaimOf, ClaimIn
<1>. HIDE DEF A, B, C, D
<1>5. Count(B, CallIds) <= Count(A, CallIds)
  BY <1>1, <1>2, CallIdsFinite, CountMonotone
<1>6. Count(D, Contexts) <= Count(C, Contexts)
  BY <1>3, <1>4, ContextsFinite, CountMonotone
<1>7. Count(A, CallIds) \in Nat /\ Count(B, CallIds) \in Nat /\ Count(C, Contexts) \in Nat /\ Count(D, Contexts) \in Nat
  BY <1>1, <1>2, <1>3, <1>4, UnitsFinite, CallIdsFinite, ContextsFinite
<1>8. OldMoney + Count(A, CallIds) + Count(C, Contexts) <= MaxBudget
  BY DEF Affords, A, C
<1>9. OldMoney' = OldMoney
  BY DEF OldMoney
<1>10. OldMoney + Count(B, CallIds) + Count(D, Contexts) <= MaxBudget
  BY <1>5, <1>6, <1>7, <1>8, OldMoneyType, LedgerAssumption
<1>. QED BY <1>9, <1>10 DEF Affords, B, D

\* A reservation turns the promise of a context into the charge of a call.
LEMMA AffordsReserve ==
  ASSUME CallsOK, CtxsOK, CallsOK', CtxsOK', Affords(call, ctx), era' = era, NEW c \in Contexts, Reserve(c)
  PROVE  Affords(call, ctx)'
<1>. DEFINE A == CapOf(call)
            B == CapOf(call')
            C == ClaimOf(ctx)
            D == ClaimOf(ctx')
            v == ctx[c].granted
<1>1. PICK k \in CallIds \ Made :
        /\ call' = [call EXCEPT ![k] = [NoCall EXCEPT !.state = "reserved", !.granted = ctx[c].granted, !.round = ctx[c].round]]
        /\ ctx' = [ctx EXCEPT ![c].at = "called", ![c].call = k]
  BY DEF Reserve
<1>2. v \in Nat /\ ctx[c].at = "checked"
  BY DEF Reserve, CtxsOK, CtxOK
<1>3. \A j \in CallIds : A[j] \in Nat /\ (j \notin Made => A[j] = 0)
  BY CallNumbers
<1>4. B[k] = v /\ \A j \in CallIds \ {k} : B[j] = A[j]
  <2>1. call'[k].state = "reserved" /\ call'[k].granted = v /\ \A j \in CallIds \ {k} : call'[j] = call[j]
    BY <1>1 DEF CallsOK, NoCall
  <2>. QED BY <2>1 DEF CapOf, CapIn, ChargeIn
<1>5. C[c] = v /\ \A d \in Contexts : C[d] \in Nat
  BY <1>2, Claims DEF ClaimIn
<1>6. D[c] = 0 /\ \A d \in Contexts \ {c} : D[d] = C[d]
  <2>1. ctx'[c].at = "called" /\ \A d \in Contexts \ {c} : ctx'[d] = ctx[d]
    BY <1>1 DEF CtxsOK, CtxOK, CtxFields
  <2>. QED BY <2>1 DEF ClaimOf, ClaimIn
<1>. HIDE DEF A, B, C, D, v
<1>7. Count(A, CallIds) = A[k] + Count(A, CallIds \ {k}) /\ A[k] = 0
  BY <1>1, <1>3, CountSplits, CallIdsFinite
<1>8. Count(B, CallIds) = B[k] + Count(B, CallIds \ {k})
  <2>1. \A j \in CallIds : B[j] \in Nat
    BY <1>2, <1>3, <1>4
  <2>. QED BY <1>1, <2>1, CountSplits, CallIdsFinite
<1>9. Count(B, CallIds \ {k}) = Count(A, CallIds \ {k})
  BY <1>4, CountExtensional
<1>10. Count(C, Contexts) = C[c] + Count(C, Contexts \ {c})
  BY <1>5, CountSplits, ContextsFinite
<1>11. Count(D, Contexts) = D[c] + Count(D, Contexts \ {c})
  <2>1. \A d \in Contexts : D[d] \in Nat
    BY <1>5, <1>6
  <2>. QED BY <2>1, CountSplits, ContextsFinite
<1>12. Count(D, Contexts \ {c}) = Count(C, Contexts \ {c})
  BY <1>6, CountExtensional
<1>13. Count(A, CallIds \ {k}) \in Nat /\ Count(C, Contexts \ {c}) \in Nat
  <2>1. IsFiniteSet(CallIds \ {k}) /\ IsFiniteSet(Contexts \ {c})
    BY CallIdsFinite, ContextsFinite, FS_RemoveElement
  <2>. QED BY <1>3, <1>5, <2>1, UnitsFinite
<1>14. OldMoney + Count(A, CallIds) + Count(C, Contexts) <= MaxBudget
  BY DEF Affords, A, C
<1>15. OldMoney + Count(B, CallIds) + Count(D, Contexts) <= MaxBudget
  BY <1>2, <1>4, <1>5, <1>6, <1>7, <1>8, <1>9, <1>10, <1>11, <1>12, <1>13, <1>14, OldMoneyType, LedgerAssumption
<1>16. OldMoney' = OldMoney
  BY DEF OldMoney
<1>. QED BY <1>15, <1>16 DEF Affords, B, D

\* Contexts that claim nothing claim nothing together.
LEMMA NoClaims ==
  ASSUME CtxsOK, \A c \in Contexts : ClaimIn(c, ctx[c]) = 0
  PROVE  Count(ClaimOf(ctx), Contexts) = 0
<1>1. \A c \in Contexts : ClaimOf(ctx)[c] = 0
  BY Claims
<1>2. Count(ClaimOf(ctx), Contexts) = Count(ClaimOf(ctx), {})
  BY <1>1, CountOfSupport
<1>. QED BY <1>2, CountOfNone

\* The owner of a quiet run is promised what is left.
LEMMA AffordsStart ==
  ASSUME CallsOK, CtxsOK, CtxsOK', FloorOK, OwnersOnly, era' = era, call' = call,
         NEW c \in Tasks, NEW w, NEW r, StartCall(c, w, r)
  PROVE  Affords(call, ctx)'
<1>. DEFINE D == ClaimOf(ctx')
            v == Granted(c)
<1>1. SeededSpend(c) \in Nat /\ PersistedSpend <= SeededSpend(c) /\ OldMoney + Count(CapOf(call), CallIds) <= PersistedSpend /\ PersistedSpend \in Nat
  BY ContextsSplit, SpendBelief, CapsBelow
<1>2. v \in Nat /\ v <= MaxBudget - SeededSpend(c)
  BY <1>1, ContextsSplit, GrantedBounds DEF StartCall
<1>3. \A d \in Contexts \ {c} : ctx[d].at = "away"
  <2>1. ctx[c].at # "away" /\ ctx[c].at # "joining"
    BY DEF StartCall, Ready
  <2>. QED BY <2>1, ContextsSplit DEF OwnersOnly
<1>4. ctx'[c].at = "checked" /\ ctx'[c].granted = v /\ \A d \in Contexts \ {c} : ctx'[d] = ctx[d]
  BY ContextsSplit DEF StartCall, CtxsOK, CtxOK, CtxFields
<1>5. D[c] = v /\ \A d \in Contexts \ {c} : D[d] = 0
  BY <1>3, <1>4, ContextsSplit DEF ClaimOf, ClaimIn
<1>. HIDE DEF D, v
<1>6. Count(D, Contexts) = D[c] + Count(D, Contexts \ {c})
  <2>1. \A d \in Contexts : D[d] \in Nat
    BY <1>2, <1>5
  <2>. QED BY <2>1, CountSplits, ContextsFinite, ContextsSplit
<1>7. Count(D, Contexts \ {c}) = 0
  <2>1. Count(D, Contexts \ {c}) = Count(D, {})
    BY <1>5, CountOfSupport
  <2>. QED BY <2>1, CountOfNone
<1>8. Count(CapOf(call), CallIds) \in Nat
  BY Counted
<1>9. OldMoney + Count(CapOf(call), CallIds) + Count(D, Contexts) <= MaxBudget
  BY <1>1, <1>2, <1>5, <1>6, <1>7, <1>8, OldMoneyType, LedgerAssumption
<1>10. OldMoney' = OldMoney
  BY DEF OldMoney
<1>. QED BY <1>9, <1>10 DEF Affords, D

\* A wave promises every child its whole cap.
LEMMA AffordsFork ==
  ASSUME CallsOK, CtxsOK, CtxsOK', FloorOK, OwnersOnly, era' = era, call' = call, NEW t \in Tasks, ForkKids(t)
  PROVE  Affords(call, ctx)'
<1>. DEFINE D == ClaimOf(ctx')
<1>1. SeededSpend(t) \in Nat /\ PersistedSpend <= SeededSpend(t) /\ OldMoney + Count(CapOf(call), CallIds) <= PersistedSpend /\ PersistedSpend \in Nat
  BY ContextsSplit, SpendBelief, CapsBelow
<1>2. MaxBudget - SeededSpend(t) >= Cardinality(Kids) * PerStage
  BY DEF ForkKids, GateAffords
<1>3. ctx[t].at = "idle" /\ \A d \in Contexts \ {t} : d \notin Kids => ctx[d].at = "away"
  BY ContextsSplit DEF ForkKids, OwnersOnly
<1>4. /\ ctx'[t].at = "joining" /\ \A k \in Kids : ctx'[k].at = "idle"
      /\ \A d \in Contexts \ ({t} \cup Kids) : ctx'[d] = ctx[d]
  BY ContextsSplit DEF ForkKids, CtxsOK, CtxOK, CtxFields
<1>5. (\A k \in Kids : D[k] = PerStage) /\ \A d \in Contexts \ Kids : D[d] = 0
  BY <1>3, <1>4, ContextsSplit DEF ClaimOf, ClaimIn
<1>. HIDE DEF D
<1>6. Count(D, Contexts) = Count(D, Kids)
  BY <1>5, CountOfSupport, ContextsSplit
<1>7. Count(D, Kids) = Cardinality(Kids) * PerStage
  BY <1>5, CountOfConstant, ContextsFinite, LedgerAssumption
<1>8. Count(CapOf(call), CallIds) \in Nat /\ Cardinality(Kids) * PerStage \in Nat
  <2>1. Count(D, Kids) \in Nat
    BY <1>5, UnitsFinite, ContextsFinite, LedgerAssumption
  <2>. QED BY <1>7, <2>1, Counted
<1>9. OldMoney + Count(CapOf(call), CallIds) + Count(D, Contexts) <= MaxBudget
  <2>. DEFINE p == Cardinality(Kids) * PerStage
  <2>1. p \in Nat /\ MaxBudget - SeededSpend(t) >= p /\ Count(D, Contexts) = p
    BY <1>2, <1>6, <1>7, <1>8
  <2>. HIDE DEF p
  <2>. QED BY <1>1, <1>8, <2>1, OldMoneyType, LedgerAssumption
<1>10. OldMoney' = OldMoney
  BY DEF OldMoney
<1>. QED BY <1>9, <1>10 DEF Affords, D

\* Every step keeps charges and claims within the ceiling.
LEMMA AffordsStep ==
  ASSUME CallsOK, CtxsOK, OwnersOnly, OwnCalls, FloorOK, CallsOK', CtxsOK', Affords(call, ctx),
         [LedgerNext]_ledgerVars
  PROVE  Affords(call, ctx)'
<1>0. /\ \A k \in CallIds : CapIn(call[k]) \in Nat
      /\ \A d \in Contexts : ClaimIn(d, ctx[d]) \in Nat
  BY LedgerAssumption DEF CallsOK, CallOK, CapIn, ChargeIn, CtxsOK, CtxOK, ClaimIn
<1>1. ASSUME NEW t \in Tasks, Acquire(t) PROVE Affords(call, ctx)'
  <2>1. era' = era /\ \A j \in CallIds : CapIn(call'[j]) <= CapIn(call[j])
    BY <1>1, <1>0 DEF Acquire
  <2>2. \A d \in Contexts : ClaimIn(d, ctx'[d]) <= ClaimIn(d, ctx[d])
    BY <1>1, <1>0, ContextsSplit, FreshOK DEF Acquire, CtxsOK, CtxOK, CtxFields, ClaimIn
  <2>. QED BY <2>1, <2>2, AffordsLess
<1>2. ASSUME NEW t \in Tasks, EndStage(t) PROVE Affords(call, ctx)'
  <2>1. era' = era /\ \A j \in CallIds : CapIn(call'[j]) <= CapIn(call[j])
    BY <1>2, <1>0 DEF EndStage
  <2>2. \A d \in Contexts : ClaimIn(d, ctx'[d]) <= ClaimIn(d, ctx[d])
    BY <1>2, <1>0, ContextsSplit, FreshOK DEF EndStage, CtxsOK, CtxOK, CtxFields, ClaimIn
  <2>. QED BY <2>1, <2>2, AffordsLess
<1>3. ASSUME NEW t \in Tasks, Die(t) PROVE Affords(call, ctx)'
  <2>1. era' = era /\ \A j \in CallIds : CapIn(call'[j]) <= CapIn(call[j])
    BY <1>3, <1>0 DEF Die
  <2>2. \A d \in Contexts : ClaimIn(d, ctx'[d]) <= ClaimIn(d, ctx[d])
    BY <1>3, <1>0, ContextsSplit, FreshOK DEF Die, CtxsOK, CtxOK, CtxFields, ClaimIn
  <2>. QED BY <2>1, <2>2, AffordsLess
<1>4. ASSUME NEW t \in Tasks, ForkKids(t) PROVE Affords(call, ctx)'
  BY <1>4, AffordsFork DEF ForkKids
<1>5. ASSUME NEW t \in Tasks, Join(t) PROVE Affords(call, ctx)'
  <2>1. era' = era /\ \A j \in CallIds : CapIn(call'[j]) <= CapIn(call[j])
    BY <1>5, <1>0 DEF Join
  <2>2. \A d \in Contexts : ClaimIn(d, ctx'[d]) <= ClaimIn(d, ctx[d])
    BY <1>5, <1>0, ContextsSplit, FreshOK DEF Join, CtxsOK, CtxOK, CtxFields, ClaimIn
  <2>. QED BY <2>1, <2>2, AffordsLess
<1>6. ASSUME NEW t \in Tasks, Misbehave(t) PROVE Affords(call, ctx)'
  <2>1. era' = era /\ \A j \in CallIds : CapIn(call'[j]) <= CapIn(call[j])
    BY <1>6, <1>0 DEF Misbehave
  <2>2. \A d \in Contexts : ClaimIn(d, ctx'[d]) <= ClaimIn(d, ctx[d])
    BY <1>6, <1>0, ContextsSplit, FreshOK DEF Misbehave, CtxsOK, CtxOK, CtxFields, ClaimIn
  <2>. QED BY <2>1, <2>2, AffordsLess
<1>7. ASSUME NEW t \in Tasks, CommitWrite(t) PROVE Affords(call, ctx)'
  <2>1. era' = era /\ \A j \in CallIds : CapIn(call'[j]) <= CapIn(call[j])
    BY <1>7, <1>0 DEF CommitWrite
  <2>2. \A d \in Contexts : ClaimIn(d, ctx'[d]) <= ClaimIn(d, ctx[d])
    BY <1>7, <1>0, ContextsSplit, FreshOK DEF CommitWrite, CtxsOK, CtxOK, CtxFields, ClaimIn
  <2>. QED BY <2>1, <2>2, AffordsLess
<1>8. ASSUME NEW c \in Contexts, RecoverLedger(c) PROVE Affords(call, ctx)'
  <2>1. era' = era /\ \A j \in CallIds : CapIn(call'[j]) <= CapIn(call[j])
    <3>1. call' = Recovered /\ era' = era
      BY <1>8 DEF RecoverLedger
    <3>2. ASSUME NEW j \in CallIds PROVE CapIn(Recovered[j]) <= CapIn(call[j])
      <4>1. CallOK(call[j]) /\ CapIn(call[j]) \in Nat
        BY <1>0 DEF CallsOK
      <4>2. j \in Unreconciled => call[j].state # "settled"
        BY DEF Unreconciled
      <4>. QED BY <4>1, <4>2 DEF Recovered, CallOK, CallFields, CapIn, ChargeIn
    <3>. QED BY <3>1, <3>2
  <2>2. \A d \in Contexts : ClaimIn(d, ctx'[d]) <= ClaimIn(d, ctx[d])
    BY <1>8, <1>0, ContextsSplit, FreshOK DEF RecoverLedger, CtxsOK, CtxOK, CtxFields, ClaimIn
  <2>. QED BY <2>1, <2>2, AffordsLess
<1>9. ASSUME NEW c \in Contexts, RefuseCall(c) PROVE Affords(call, ctx)'
  <2>1. era' = era /\ \A j \in CallIds : CapIn(call'[j]) <= CapIn(call[j])
    BY <1>9, <1>0 DEF RefuseCall
  <2>2. \A d \in Contexts : ClaimIn(d, ctx'[d]) <= ClaimIn(d, ctx[d])
    BY <1>9, <1>0, ContextsSplit, FreshOK DEF RefuseCall, CtxsOK, CtxOK, CtxFields, ClaimIn
  <2>. QED BY <2>1, <2>2, AffordsLess
<1>10. ASSUME NEW c \in Contexts, Reserve(c) PROVE Affords(call, ctx)'
  BY <1>10, AffordsReserve DEF Reserve
<1>11. ASSUME NEW c \in Contexts, RefuseRepeat(c) PROVE Affords(call, ctx)'
  <2>1. era' = era /\ \A j \in CallIds : CapIn(call'[j]) <= CapIn(call[j])
    BY <1>11, <1>0 DEF RefuseRepeat
  <2>2. \A d \in Contexts : ClaimIn(d, ctx'[d]) <= ClaimIn(d, ctx[d])
    BY <1>11, <1>0, ContextsSplit, FreshOK DEF RefuseRepeat, CtxsOK, CtxOK, CtxFields, ClaimIn
  <2>. QED BY <2>1, <2>2, AffordsLess
<1>12. ASSUME NEW c \in Contexts, Launch(c) PROVE Affords(call, ctx)'
  <2>1. era' = era /\ \A j \in CallIds : CapIn(call'[j]) <= CapIn(call[j])
    BY <1>12, <1>0 DEF Launch, CallsOK, CallOK, CallFields, CapIn, ChargeIn
  <2>2. \A d \in Contexts : ClaimIn(d, ctx'[d]) <= ClaimIn(d, ctx[d])
    BY <1>12, <1>0, ContextsSplit, FreshOK DEF Launch, CtxsOK, CtxOK, CtxFields, ClaimIn
  <2>. QED BY <2>1, <2>2, AffordsLess
<1>13. ASSUME NEW c \in Contexts, LaunchFails(c) PROVE Affords(call, ctx)'
  <2>1. era' = era /\ \A j \in CallIds : CapIn(call'[j]) <= CapIn(call[j])
    BY <1>13, <1>0 DEF LaunchFails, CallsOK, CallOK, CallFields, CapIn, ChargeIn
  <2>2. \A d \in Contexts : ClaimIn(d, ctx'[d]) <= ClaimIn(d, ctx[d])
    BY <1>13, <1>0, ContextsSplit, FreshOK DEF LaunchFails, CtxsOK, CtxOK, CtxFields, ClaimIn
  <2>. QED BY <2>1, <2>2, AffordsLess
<1>14. ASSUME NEW c \in Contexts, Answer(c) PROVE Affords(call, ctx)'
  <2>1. era' = era /\ \A j \in CallIds : CapIn(call'[j]) <= CapIn(call[j])
    BY <1>14, <1>0 DEF Answer, CallsOK, CallOK, CallFields, CapIn, ChargeIn, OwnCalls, CtxsOK, CtxOK
  <2>2. \A d \in Contexts : ClaimIn(d, ctx'[d]) <= ClaimIn(d, ctx[d])
    BY <1>14, <1>0, ContextsSplit, FreshOK DEF Answer, CtxsOK, CtxOK, CtxFields, ClaimIn
  <2>. QED BY <2>1, <2>2, AffordsLess
<1>15. ASSUME NEW c \in Contexts, CallRaises(c) PROVE Affords(call, ctx)'
  <2>1. era' = era /\ \A j \in CallIds : CapIn(call'[j]) <= CapIn(call[j])
    BY <1>15, <1>0 DEF CallRaises, CallsOK, CallOK, CallFields, CapIn, ChargeIn, OwnCalls, CtxsOK, CtxOK
  <2>2. \A d \in Contexts : ClaimIn(d, ctx'[d]) <= ClaimIn(d, ctx[d])
    BY <1>15, <1>0, ContextsSplit, FreshOK DEF CallRaises, CtxsOK, CtxOK, CtxFields, ClaimIn
  <2>. QED BY <2>1, <2>2, AffordsLess
<1>16. ASSUME NEW c \in Contexts, Return(c) PROVE Affords(call, ctx)'
  <2>1. era' = era /\ \A j \in CallIds : CapIn(call'[j]) <= CapIn(call[j])
    BY <1>16, <1>0 DEF Return
  <2>2. \A d \in Contexts : ClaimIn(d, ctx'[d]) <= ClaimIn(d, ctx[d])
    BY <1>16, <1>0, ContextsSplit, FreshOK DEF Return, CtxsOK, CtxOK, CtxFields, ClaimIn
  <2>. QED BY <2>1, <2>2, AffordsLess
<1>17. ASSUME NEW c \in Contexts, NEW w \in BOOLEAN, NEW r \in Rounds, StartCall(c, w, r) PROVE Affords(call, ctx)'
  <2>1. CASE c \in Tasks
    BY <1>17, <2>1, AffordsStart DEF StartCall
  <2>2. CASE c \in Kids
    <3>1. era' = era /\ call' = call
      BY <1>17 DEF StartCall
    <3>2. SeededSpend(c) \in Nat
      BY SpendBelief
    <3>3. Granted(c) \in Nat /\ Granted(c) <= PerStage
      BY <1>17, <3>2, GrantedBounds DEF StartCall
    <3>4. /\ ctx'[c].at = "checked" /\ ctx'[c].granted = Granted(c) /\ ctx[c].at = "idle"
          /\ \A d \in Contexts \ {c} : ctx'[d] = ctx[d]
      BY <1>17, <2>2 DEF StartCall, CtxsOK, CtxOK, CtxFields, Ready, OwnersOnly
    <3>5. \A k \in CallIds : CapIn(call'[k]) <= CapIn(call[k])
      BY <3>1, <1>0
    <3>6. \A d \in Contexts : ClaimIn(d, ctx'[d]) <= ClaimIn(d, ctx[d])
      BY <1>0, <2>2, <3>3, <3>4 DEF ClaimIn
    <3>. QED BY <3>1, <3>5, <3>6, AffordsLess
  <2>. QED BY <2>1, <2>2, ContextsSplit
<1>18. ASSUME NEW k \in CallIds, Bill(k) PROVE Affords(call, ctx)'
  <2>1. era' = era /\ \A j \in CallIds : CapIn(call'[j]) <= CapIn(call[j])
    BY <1>18, <1>0 DEF Bill, CallsOK, CallOK, CallFields, CapIn, ChargeIn
  <2>2. \A d \in Contexts : ClaimIn(d, ctx'[d]) <= ClaimIn(d, ctx[d])
    BY <1>18, <1>0, ContextsSplit, FreshOK DEF Bill, CtxsOK, CtxOK, CtxFields, ClaimIn
  <2>. QED BY <2>1, <2>2, AffordsLess
<1>19. ASSUME NEW k \in CallIds, Reconcile(k) PROVE Affords(call, ctx)'
  <2>1. era' = era /\ \A j \in CallIds : CapIn(call'[j]) <= CapIn(call[j])
    BY <1>19, <1>0 DEF Reconcile, CallsOK, CallOK, CallFields, CapIn, ChargeIn, Final, Unreconciled, Made
  <2>2. \A d \in Contexts : ClaimIn(d, ctx'[d]) <= ClaimIn(d, ctx[d])
    BY <1>19, <1>0, ContextsSplit, FreshOK DEF Reconcile, CtxsOK, CtxOK, CtxFields, ClaimIn
  <2>. QED BY <2>1, <2>2, AffordsLess
<1>20. CASE RestoreTree
  <2>1. era' = era /\ \A j \in CallIds : CapIn(call'[j]) <= CapIn(call[j])
    BY <1>20, <1>0 DEF RestoreTree
  <2>2. \A d \in Contexts : ClaimIn(d, ctx'[d]) <= ClaimIn(d, ctx[d])
    BY <1>20, <1>0, ContextsSplit, FreshOK DEF RestoreTree, CtxsOK, CtxOK, CtxFields, ClaimIn
  <2>. QED BY <2>1, <2>2, AffordsLess
<1>21. CASE UNCHANGED ledgerVars
  BY <1>21 DEF ledgerVars, Affords, OldMoney
<1>. QED BY <1>1, <1>2, <1>3, <1>4, <1>5, <1>6, <1>7, <1>8, <1>9, <1>10, <1>11, <1>12, <1>13, <1>14, <1>15, <1>16, <1>17, <1>18, <1>19, <1>20, <1>21 DEF LedgerNext

\* The inductive invariant of the ledger.
LedgerInv == CallsOK /\ CtxsOK /\ OwnersOnly /\ OwnCalls /\ FloorOK /\ Affords(call, ctx)

\* The ledger starts with no call and no context.
LEMMA LedgerInitially == LedgerInit => LedgerInv
<1>. SUFFICES ASSUME LedgerInit PROVE LedgerInv
  OBVIOUS
<1>. DEFINE old == [NoCall EXCEPT !.state = "settled", !.granted = OldSpend, !.settled = OldSpend, !.real = OldSpend]
<1>1. 1 \in CallIds /\ OldSpend \in Nat /\ OldSpend <= MaxBudget
  BY LedgerAssumption DEF CallIds
<1>2. CallOK(NoCall) /\ CapIn(NoCall) = 0 /\ NoCall.state = "none"
  BY DEF NoCall, CallOK, CallFields, CapIn, ChargeIn
<1>3. CallOK(old) /\ CapIn(old) = OldSpend /\ old.state = "settled"
  BY <1>1 DEF NoCall, CallOK, CallFields, CapIn, ChargeIn
<1>4. call = [k \in CallIds |-> IF era = "rows" /\ k = 1 THEN old ELSE NoCall]
  BY DEF LedgerInit
<1>. HIDE DEF old
<1>5. CallsOK
  BY <1>2, <1>3, <1>4 DEF CallsOK
<1>6. CtxsOK /\ \A c \in Contexts : ctx[c] = Fresh
  BY FreshOK DEF LedgerInit, CtxsOK
<1>7. OwnersOnly /\ OwnCalls
  BY <1>6, FreshOK, ContextsSplit DEF LedgerInit, OwnersOnly, OwnCalls
<1>8. FloorOK
  BY <1>1, <1>2, <1>3, <1>4 DEF LedgerInit, FloorOK, Made, OldMoney
<1>9. Count(ClaimOf(ctx), Contexts) = 0
  BY <1>6, FreshOK, NoClaims DEF ClaimIn
<1>10. OldMoney + Count(CapOf(call), CallIds) <= MaxBudget
  <2>. DEFINE A == CapOf(call)
  <2>1. \A k \in CallIds : A[k] = IF era = "rows" /\ k = 1 THEN OldSpend ELSE 0
    BY <1>2, <1>3, <1>4 DEF CapOf
  <2>. HIDE DEF A
  <2>2. Count(A, CallIds \ {1}) = 0
    <3>1. Count(A, CallIds \ {1}) = Count(A, {})
      BY <2>1, CountOfSupport
    <3>. QED BY <3>1, CountOfNone
  <2>3. Count(A, CallIds) = A[1] + Count(A, CallIds \ {1})
    BY <1>1, <2>1, CountSplits, CallIdsFinite
  <2>4. OldMoney + A[1] = OldSpend
    BY <1>1, <2>1 DEF OldMoney, LedgerInit
  <2>5. A[1] \in Nat /\ OldMoney \in Nat
    BY <1>1, <2>1, OldMoneyType
  <2>. QED BY <1>1, <2>2, <2>3, <2>4, <2>5 DEF A
<1>11. Affords(call, ctx)
  <2>1. Count(CapOf(call), CallIds) \in Nat
    BY <1>5, <1>6, Counted
  <2>. QED BY <1>9, <1>10, <2>1, OldMoneyType DEF Affords
<1>. QED BY <1>5, <1>6, <1>7, <1>8, <1>11 DEF LedgerInv

\* The invariant holds for every set of tasks and fork children and every price.
THEOREM LedgerInvariant == LedgerSpec => []LedgerInv
<1>1. ASSUME LedgerInv, [LedgerNext]_ledgerVars PROVE LedgerInv'
  <2>1. CallsOK /\ CtxsOK /\ OwnersOnly /\ OwnCalls /\ FloorOK /\ Affords(call, ctx)
    BY <1>1 DEF LedgerInv
  <2>2. CallsOK' /\ CtxsOK'
    BY <1>1, <2>1, CallsStep, CtxsStep
  <2>3. OwnersOnly' /\ OwnCalls' /\ FloorOK'
    BY <1>1, <2>1, OwnersStep, OwnCallsStep, FloorStep
  <2>4. Affords(call, ctx)'
    BY <1>1, <2>1, <2>2, AffordsStep
  <2>. QED BY <2>2, <2>3, <2>4 DEF LedgerInv
<1>. QED BY <1>1, LedgerInitially, PTL DEF LedgerSpec

\* SpendAccounted for every set of tasks, fork children, prices and ceilings: the money really spent stays within
\* the ceiling, and what the ledger records is never less.
THEOREM LedgerAccounts == LedgerSpec => []SpendAccounted
<1>1. ASSUME LedgerInv PROVE SpendAccounted
  <2>1. CallsOK /\ CtxsOK /\ FloorOK /\ Affords(call, ctx)
    BY <1>1 DEF LedgerInv
  <2>2. /\ Count(WithinOf(call), CallIds) <= Count(CapOf(call), CallIds)
        /\ Count(KnownOf(call), CallIds) <= Count(ChargeOf(call), CallIds)
    BY <2>1, CallNumbers, CountMonotone, CallIdsFinite
  <2>3. MapThenSumSet(WithinCap, Made) = Count(WithinOf(call), CallIds) /\ Count(WithinOf(call), CallIds) \in Nat
    BY <2>1, WithinIsCount
  <2>4. MapThenSumSet(Knowable, Made) = Count(KnownOf(call), CallIds) /\ Count(KnownOf(call), CallIds) \in Nat
    BY <2>1, KnownIsCount
  <2>5. PersistedSpend = OldMoney + Count(ChargeOf(call), CallIds)
    BY <2>1, SpendBelief
  <2>6. /\ Count(CapOf(call), CallIds) \in Nat /\ Count(ClaimOf(ctx), Contexts) \in Nat
        /\ Count(ChargeOf(call), CallIds) \in Nat
    BY <2>1, Counted, CallNumbers, UnitsFinite, CallIdsFinite
  <2>7. OldMoney + Count(CapOf(call), CallIds) + Count(ClaimOf(ctx), Contexts) <= MaxBudget
    BY <2>1 DEF Affords
  <2>8. CapsWithinCeiling
    BY <2>2, <2>3, <2>6, <2>7, OldMoneyType, LedgerAssumption DEF CapsWithinCeiling
  <2>9. OldMoney + MapThenSumSet(Knowable, Made) <= PersistedSpend
    BY <2>2, <2>4, <2>5, <2>6, OldMoneyType
  <2>10. floor # -1 => floor = OldMoney
    BY <2>1 DEF FloorOK
  <2>. QED BY <2>8, <2>9, <2>10 DEF SpendAccounted, PersistedSpendIsSound
<1>. QED BY <1>1, LedgerInvariant, PTL

------------------------------------------------------------------------------
\* The tasks of a mapped job and its Cell.

\* What task instances, attempts, reports and the Cell are made of.
TaskStates == {"none", "running", "up_for_retry"} \cup Finals
Reports    == {"running", "success", "rejected", "failed", "cleaned"}
Replies    == {"none", "approve", "reject"}
CellEnds   == {"success", "rejected", "failed", "cancelled"}
Attempts   == [task : JobTasks \cup {"none"}, step : {"idle", "ctx", "work", "settle", "inspect", "replay"},
               phase : {"body", "callback", "closing"}, want : Reports \cup {"none"}, todo : Seq(Reports)]

\* The states of a job.
JobTypeOK ==
  /\ autonomous \in BOOLEAN /\ silent \in BOOLEAN
  /\ ti \in [JobTasks -> [state : TaskStates, try : Nat]]
  /\ attempt \in Attempts
  /\ debts \in [JobTasks -> Seq(Reports)]
  /\ jobCell \in [epoch : {1, 2}, state : CellLive \cup CellEnds, cleaned : BOOLEAN]
  /\ decision \in [answer : Replies, recorded : Replies]
  /\ shown \in {"none", "plain"} \cup (IF autonomous THEN {"merged"} ELSE {})
  /\ jobBox \in {"none", "live", "closed"}
  /\ dagRun \in {"open", "success", "failed"}
  /\ mishaps \in Nat

\* The state of the i-th task; the states of a task that has passed and of one under way; the
\* task whose report of success ends the Cell.
State(i) == ti[TaskLine[i]].state
TiDone   == {"success", "skipped"}
TiLive   == {"running", "up_for_retry"}
Reporter == IF autonomous THEN "merge" ELSE "deliver"

\* A task that counts for the run has failed for good.
TaskFailed == \E t \in JobTasks \ {"teardown"} : ti[t].state = "failed"

\* The tasks in the order of the DAG: what is scheduled has final tasks before it, what ran has passed ones.
InOrder ==
  /\ \A i \in 2 .. 8 : State(i) # "none" => State(i - 1) \in Finals
  /\ \A i \in 2 .. 7 : State(i) \in TiLive \cup TiDone \cup {"failed"} => State(i - 1) \in TiDone
  /\ \A t \in JobTasks : /\ ti[t].state = "skipped" => t \notin {"setup", "deliver", "merge", "metrics", "teardown"}
                         /\ ti[t].state = "upstream_failed" => t # "setup" /\ TaskFailed
                         /\ ti[t].state = "up_for_retry" => t \in {"setup", "deliver", "teardown"}
                         /\ ti[t].state = "running" => ti[t].try >= 1

\* The attempt is past its work and reports.
Reporting == attempt.step \in {"settle", "inspect", "replay"}

\* An attempt is of a running task, and each task reports only what its phase has to report.
AttemptKnown ==
  \/ attempt = Unclaimed
  \/ /\ attempt.task \in JobTasks /\ ti[attempt.task].state = "running" /\ attempt.step # "idle"
     /\ attempt.step = "replay" => attempt.todo # <<>>
     /\ attempt.phase = "callback" => Reporting /\ attempt.want = "failed" /\ attempt.task \notin {"approve", "teardown"}
     /\ attempt.phase = "closing" => attempt.task = "setup" /\ (Reporting => attempt.want = "cleaned")
     /\ attempt.phase = "body" /\ Reporting =>
          \/ attempt.task = "setup" /\ attempt.want = "running"
          \/ attempt.task = Reporter /\ attempt.want = "success"
          \/ attempt.task = "record" /\ attempt.want = "rejected"
          \/ attempt.task = "teardown" /\ attempt.want = "cleaned"

\* The gate's answer is recorded by the work of one task, once.
GateKnown ==
  /\ decision.recorded # "none" =>
       ti["record"].state # "none" /\ ~(attempt.task = "record" /\ attempt.step \in {"ctx", "work"})
  /\ autonomous => decision.answer # "reject"
  /\ decision.recorded = "reject" /\ ti["record"].state \in TiDone => jobCell.epoch = 2 \/ jobCell.state = "rejected"

\* What a report that is on its way, owed or taken says is true.
Claim(w) ==
  /\ w = "success" => shown = IF autonomous THEN "merged" ELSE "plain"
  /\ w = "rejected" => decision.recorded = "reject"
  /\ w = "failed" => attempt.phase # "body" \/ \E t \in JobTasks : ti[t].state = "failed"
  /\ w = "cleaned" => jobBox # "live" /\ (attempt.phase = "closing" \/ ti["setup"].state \in Finals)

\* Every report that is owed, replayed, under way or taken by the first epoch of the Cell is true.
ClaimsTrue ==
  /\ \A t \in JobTasks : \A i \in DOMAIN debts[t] : Claim(debts[t][i])
  /\ \A i \in DOMAIN attempt.todo : Claim(attempt.todo[i])
  /\ Reporting => Claim(attempt.want)
  /\ jobCell.epoch = 1 => Claim(jobCell.state) /\ (jobCell.cleaned => Claim("cleaned"))
  /\ jobCell.epoch = 2 => jobCell.state = "queued" /\ ~jobCell.cleaned

\* The Cell has ended, or the report that did not reach it is on record as lost.
CellOver == jobCell.epoch = 2 \/ jobCell.state \in CellEnds
Told     == silent \/ CellOver \/ \E t \in JobTasks \ {"teardown"} : debts[t] # <<>>

\* A failed task, a reported success and the end of the run are known to the Cell or on record.
EndsTold ==
  /\ TaskFailed \/ attempt.phase = "closing" => Told
  /\ ti[Reporter].state = "success" => Claim("success") /\ CellOver
  /\ dagRun # "open" => /\ \A t \in JobTasks : ti[t].state \in Finals
                        /\ dagRun = "success" <=> ti["metrics"].state = "success"

\* The inductive invariant of a mapped job.
JobInv == JobTypeOK /\ InOrder /\ AttemptKnown /\ GateKnown /\ ClaimsTrue /\ EndsTold

\* The tasks of a line, by place.
LEMMA LineFacts ==
  ASSUME autonomous \in BOOLEAN
  PROVE  /\ DOMAIN TaskLine = 1 .. 8
         /\ \A i \in 1 .. 8 : TaskLine[i] \in JobTasks
         /\ \A t \in JobTasks : \E i \in 1 .. 8 : t = TaskLine[i]
         /\ \A i, j \in 1 .. 8 : TaskLine[i] = TaskLine[j] => i = j
         /\ TaskLine[1] = "setup" /\ TaskLine[6] = Reporter /\ TaskLine[7] = "metrics" /\ TaskLine[8] = "teardown"
         /\ autonomous => TaskLine[3] = "record" /\ TaskLine[5] = "deliver" /\ "approve" \notin JobTasks
         /\ ~autonomous => TaskLine[4] = "record" /\ TaskLine[6] = "deliver" /\ "merge" \notin JobTasks
         /\ {"setup", "record", "deliver", "metrics", "teardown", Reporter} \subseteq JobTasks /\ "none" \notin JobTasks
<1>1. CASE autonomous
  <2>1. TaskLine = <<"setup", "stage", "record", "work", "deliver", "merge", "metrics", "teardown">>
    BY <1>1 DEF TaskLine
  <2>2. DOMAIN TaskLine = 1 .. 8
    BY <2>1
  <2>3. JobTasks = {"setup", "stage", "record", "work", "deliver", "merge", "metrics", "teardown"}
    BY <2>1, <2>2 DEF JobTasks
  <2>. QED BY <1>1, <2>1, <2>2, <2>3 DEF Reporter
<1>2. CASE ~autonomous
  <2>1. TaskLine = <<"setup", "stage", "approve", "record", "work", "deliver", "metrics", "teardown">>
    BY <1>2 DEF TaskLine
  <2>2. DOMAIN TaskLine = 1 .. 8
    BY <2>1
  <2>3. JobTasks = {"setup", "stage", "approve", "record", "work", "deliver", "metrics", "teardown"}
    BY <2>1, <2>2 DEF JobTasks
  <2>. QED BY <1>2, <2>1, <2>2, <2>3 DEF Reporter
<1>. QED BY <1>1, <1>2

\* Eight states in a row, each but the first after a final one: before one that is not none all are final.
LEMMA RowOfStates ==
  ASSUME NEW s, \A i \in 2 .. 8 : s[i] # "none" => s[i - 1] \in Finals
  PROVE  \A i, j \in 1 .. 8 : j < i /\ s[i] # "none" => s[j] \in Finals
<1>1. /\ s[2] # "none" => s[1] \in Finals
      /\ s[3] # "none" => s[2] \in Finals
      /\ s[4] # "none" => s[3] \in Finals
      /\ s[5] # "none" => s[4] \in Finals
      /\ s[6] # "none" => s[5] \in Finals
      /\ s[7] # "none" => s[6] \in Finals
      /\ s[8] # "none" => s[7] \in Finals
  BY 2 \in 2 .. 8, 3 \in 2 .. 8, 4 \in 2 .. 8, 5 \in 2 .. 8, 6 \in 2 .. 8, 7 \in 2 .. 8, 8 \in 2 .. 8, 2 - 1 = 1, 3 - 1 = 2, 4 - 1 = 3, 5 - 1 = 4, 6 - 1 = 5, 7 - 1 = 6, 8 - 1 = 7
<1>. QED BY <1>1 DEF Finals

\* Likewise: before one that ran all have passed.
LEMMA RowOfRuns ==
  ASSUME NEW s, \A i \in 2 .. 7 : s[i] \in TiLive \cup TiDone \cup {"failed"} => s[i - 1] \in TiDone
  PROVE  \A i, j \in 1 .. 7 : j < i /\ s[i] \in TiLive \cup TiDone \cup {"failed"} => s[j] \in TiDone
<1>1. /\ s[2] \in TiLive \cup TiDone \cup {"failed"} => s[1] \in TiDone
      /\ s[3] \in TiLive \cup TiDone \cup {"failed"} => s[2] \in TiDone
      /\ s[4] \in TiLive \cup TiDone \cup {"failed"} => s[3] \in TiDone
      /\ s[5] \in TiLive \cup TiDone \cup {"failed"} => s[4] \in TiDone
      /\ s[6] \in TiLive \cup TiDone \cup {"failed"} => s[5] \in TiDone
      /\ s[7] \in TiLive \cup TiDone \cup {"failed"} => s[6] \in TiDone
  BY 2 \in 2 .. 7, 3 \in 2 .. 7, 4 \in 2 .. 7, 5 \in 2 .. 7, 6 \in 2 .. 7, 7 \in 2 .. 7, 2 - 1 = 1, 3 - 1 = 2, 4 - 1 = 3, 5 - 1 = 4, 6 - 1 = 5, 7 - 1 = 6
<1>. QED BY <1>1

\* What the order of the line says of a task that is active.
LEMMA OrderFacts ==
  ASSUME JobTypeOK, InOrder
  PROVE  /\ \A t \in JobTasks : ti[t].state \in TiLive => \A u \in JobTasks \ {t} : ti[u].state \in Finals \cup {"none"}
         /\ \A t \in JobTasks \ {"teardown"} : ti[t].state \in TiLive =>
              \A u \in JobTasks \ {t} : ti[u].state \in TiDone \cup {"none"}
         /\ ti["deliver"].state \in TiLive => ti["record"].state \in TiDone
         /\ ti["setup"].state \in TiLive \cup {"none"} => \A u \in JobTasks \ {"setup"} : ti[u].state = "none"
         /\ ti["metrics"].state = "success" => ti[Reporter].state = "success"
<1>. DEFINE s == [i \in 1 .. 8 |-> State(i)]
<1>0. autonomous \in BOOLEAN
  BY DEF JobTypeOK
<1>1. \A i, j \in 1 .. 8 : j < i /\ s[i] # "none" => s[j] \in Finals
  <2>1. \A i \in 2 .. 8 : s[i] # "none" => s[i - 1] \in Finals
    BY DEF InOrder
  <2>. HIDE DEF s
  <2>. QED BY <2>1, RowOfStates
<1>2. \A i, j \in 1 .. 7 : j < i /\ s[i] \in TiLive \cup TiDone \cup {"failed"} => s[j] \in TiDone
  <2>1. \A i \in 2 .. 7 : s[i] \in TiLive \cup TiDone \cup {"failed"} => s[i - 1] \in TiDone
    BY DEF InOrder
  <2>. HIDE DEF s
  <2>. QED BY <2>1, RowOfRuns
<1>3. \A t \in JobTasks : \E i \in 1 .. 8 : t = TaskLine[i] /\ ti[t].state = s[i] /\ (i = 8 => t = "teardown") /\ (i = 1 <=> t = "setup")
  BY <1>0, LineFacts DEF State
<1>4. \A i \in 1 .. 8 : s[i] \in TaskStates
  BY <1>0, LineFacts DEF State, JobTypeOK
<1>5. s[1] = ti["setup"].state /\ s[6] = ti[Reporter].state /\ s[7] = ti["metrics"].state
  BY <1>0, LineFacts DEF State
<1>6. \E i, j \in 1 .. 7 : j < i /\ s[i] = ti["deliver"].state /\ s[j] = ti["record"].state
  <2>1. CASE autonomous
    BY <2>1, <1>0, LineFacts, 3 \in 1 .. 7, 5 \in 1 .. 7, 3 < 5 DEF State
  <2>2. CASE ~autonomous
    BY <2>2, <1>0, LineFacts, 4 \in 1 .. 7, 6 \in 1 .. 7, 4 < 6 DEF State
  <2>. QED BY <2>1, <2>2
<1>7. Reporter \in {"merge", "deliver"} /\ Reporter \in JobTasks
  BY <1>0, LineFacts DEF Reporter
<1>8. ti[Reporter].state # "skipped"
  BY <1>7 DEF InOrder
<1>. HIDE DEF s
<1>11. ASSUME NEW t \in JobTasks, ti[t].state \in TiLive, NEW u \in JobTasks \ {t}
       PROVE  ti[u].state \in Finals \cup {"none"}
  <2>1. PICK i \in 1 .. 8 : t = TaskLine[i] /\ ti[t].state = s[i]
    BY <1>3
  <2>2. PICK j \in 1 .. 8 : u = TaskLine[j] /\ ti[u].state = s[j]
    BY <1>3
  <2>3. i # j
    BY <2>1, <2>2
  <2>4. CASE j < i
    BY <2>1, <2>2, <2>4, <1>1, <1>11 DEF TiLive
  <2>5. CASE i < j
    BY <2>1, <2>2, <2>5, <1>1, <1>11 DEF TiLive, Finals
  <2>. QED BY <2>3, <2>4, <2>5
<1>12. ASSUME NEW t \in JobTasks \ {"teardown"}, ti[t].state \in TiLive, NEW u \in JobTasks \ {t}
       PROVE  ti[u].state \in TiDone \cup {"none"}
  <2>1. PICK i \in 1 .. 8 : t = TaskLine[i] /\ ti[t].state = s[i] /\ (i = 8 => t = "teardown")
    BY <1>3
  <2>2. PICK j \in 1 .. 8 : u = TaskLine[j] /\ ti[u].state = s[j]
    BY <1>3
  <2>3. i # j /\ i \in 1 .. 7
    BY <2>1, <2>2
  <2>4. CASE j < i
    <3>1. j \in 1 .. 7
      BY <2>4, <2>3
    <3>. QED BY <2>1, <2>2, <2>3, <2>4, <3>1, <1>2, <1>12
  <2>5. CASE i < j
    BY <2>1, <2>2, <2>5, <1>1, <1>12 DEF TiLive, Finals
  <2>. QED BY <2>3, <2>4, <2>5
<1>13. ti["deliver"].state \in TiLive => ti["record"].state \in TiDone
  BY <1>6, <1>2
<1>14. ASSUME ti["setup"].state \in TiLive \cup {"none"}, NEW u \in JobTasks \ {"setup"}
       PROVE  ti[u].state = "none"
  <2>1. PICK j \in 1 .. 8 : ti[u].state = s[j] /\ (j = 1 <=> u = "setup")
    BY <1>3
  <2>2. j > 1
    BY <2>1
  <2>. QED BY <2>1, <2>2, <1>1, <1>5, <1>14, 1 \in 1 .. 8 DEF TiLive, Finals
<1>15. ti["metrics"].state = "success" => ti[Reporter].state = "success"
  BY <1>5, <1>2, <1>8, 6 \in 1 .. 7, 7 \in 1 .. 7, 6 < 7 DEF TiDone
<1>. QED BY <1>11, <1>12, <1>13, <1>14, <1>15

\* Two rows in a row.
Chain2(x, y)    == x \o y
\* The function that joins the first i sequences of q.
IsFlatten(f, q) == f = [i \in 1 .. Len(q) |-> IF i = 1 THEN q[i] ELSE Chain2(f[i - 1], q[i])]

\* Some function solves it for eight rows.
LEMMA FlattenExists ==
  ASSUME NEW q, Len(q) = 8
  PROVE  \E f : IsFlatten(f, q)
<1>. DEFINE a2 == Chain2(q[1], q[2])  a3 == Chain2(a2, q[3])  a4 == Chain2(a3, q[4])  a5 == Chain2(a4, q[5])
            a6 == Chain2(a5, q[6])    a7 == Chain2(a6, q[7])  a8 == Chain2(a7, q[8])
            g == [i \in 1 .. 8 |-> IF i = 1 THEN q[1] ELSE IF i = 2 THEN a2 ELSE IF i = 3 THEN a3 ELSE IF i = 4 THEN a4
                                   ELSE IF i = 5 THEN a5 ELSE IF i = 6 THEN a6 ELSE IF i = 7 THEN a7 ELSE a8]
<1>1. /\ a2 = Chain2(q[1], q[2]) /\ a3 = Chain2(a2, q[3]) /\ a4 = Chain2(a3, q[4]) /\ a5 = Chain2(a4, q[5])
      /\ a6 = Chain2(a5, q[6]) /\ a7 = Chain2(a6, q[7]) /\ a8 = Chain2(a7, q[8])
  OBVIOUS
<1>. HIDE DEF a2, a3, a4, a5, a6, a7, a8
<1>2. g[1] = q[1] /\ g[2] = a2 /\ g[3] = a3 /\ g[4] = a4 /\ g[5] = a5 /\ g[6] = a6 /\ g[7] = a7 /\ g[8] = a8
  OBVIOUS
<1>3. DOMAIN g = 1 .. 8 /\ g = [i \in 1 .. 8 |-> g[i]]
  OBVIOUS
<1>. HIDE DEF g
<1>4. ASSUME NEW i \in 1 .. 8
      PROVE  g[i] = IF i = 1 THEN q[i] ELSE Chain2(g[i - 1], q[i])
  <2>1. CASE i = 1
    BY <2>1, <1>2
  <2>2. CASE i = 2
    BY <2>2, <1>1, <1>2, 2 - 1 = 1
  <2>3. CASE i = 3
    BY <2>3, <1>1, <1>2, 3 - 1 = 2
  <2>4. CASE i = 4
    BY <2>4, <1>1, <1>2, 4 - 1 = 3
  <2>5. CASE i = 5
    BY <2>5, <1>1, <1>2, 5 - 1 = 4
  <2>6. CASE i = 6
    BY <2>6, <1>1, <1>2, 6 - 1 = 5
  <2>7. CASE i = 7
    BY <2>7, <1>1, <1>2, 7 - 1 = 6
  <2>8. CASE i = 8
    BY <2>8, <1>1, <1>2, 8 - 1 = 7
  <2>. QED BY <2>1, <2>2, <2>3, <2>4, <2>5, <2>6, <2>7, <2>8
<1>5. g = [i \in 1 .. 8 |-> IF i = 1 THEN q[i] ELSE Chain2(g[i - 1], q[i])]
  BY <1>3, <1>4
<1>6. IsFlatten(g, q)
  BY <1>5 DEF IsFlatten
<1>. QED BY <1>6

\* Eight rows are flattened to a row of their elements.
LEMMA FlattenOfEight ==
  ASSUME NEW R, NEW q, Len(q) = 8, \A i \in 1 .. 8 : q[i] \in Seq(R)
  PROVE  FlattenSeq(q) \in Seq(R)
<1>. DEFINE h == CHOOSE f : IsFlatten(f, q)
<1>1. FlattenSeq(q) = h[8]
  BY DEF FlattenSeq, IsFlatten, Chain2
<1>3. IsFlatten(h, q)
  BY FlattenExists
<1>. HIDE DEF h
<1>5. h[1] = q[1]
  BY <1>3 DEF IsFlatten
<1>6. \A i \in 2 .. 8 : h[i] = Chain2(h[i - 1], q[i])
  BY <1>3 DEF IsFlatten
<1>7. \A i \in 2 .. 8 : h[i - 1] \in Seq(R) => h[i] \in Seq(R)
  <2>1. \A x, y \in Seq(R) : Chain2(x, y) \in Seq(R)
    BY DEF Chain2
  <2>2. \A i \in 2 .. 8 : q[i] \in Seq(R)
    OBVIOUS
  <2>. QED BY <1>6, <2>1, <2>2
<1>8. h[1] \in Seq(R)
  BY <1>5, 1 \in 1 .. 8
<1>9. h[2] \in Seq(R)
  BY <1>7, <1>8, 2 \in 2 .. 8, 2 - 1 = 1
<1>10. h[3] \in Seq(R)
  BY <1>7, <1>9, 3 \in 2 .. 8, 3 - 1 = 2
<1>11. h[4] \in Seq(R)
  BY <1>7, <1>10, 4 \in 2 .. 8, 4 - 1 = 3
<1>12. h[5] \in Seq(R)
  BY <1>7, <1>11, 5 \in 2 .. 8, 5 - 1 = 4
<1>13. h[6] \in Seq(R)
  BY <1>7, <1>12, 6 \in 2 .. 8, 6 - 1 = 5
<1>14. h[7] \in Seq(R)
  BY <1>7, <1>13, 7 \in 2 .. 8, 7 - 1 = 6
<1>15. h[8] \in Seq(R)
  BY <1>7, <1>14, 8 \in 2 .. 8, 8 - 1 = 7
<1>. QED BY <1>1, <1>15

\* The line of a job does not change.
LEMMA LineSteady ==
  ASSUME autonomous' = autonomous
  PROVE  TaskLine' = TaskLine /\ JobTasks' = JobTasks /\ Reporter' = Reporter
BY DEF TaskLine, JobTasks, Reporter

\* A task that runs ends: the line stays in order.
LEMMA OrderAfterEnd ==
  ASSUME JobTypeOK, InOrder, autonomous' = autonomous, NEW t \in JobTasks, ti[t].state = "running",
         NEW s \in {"up_for_retry", "failed", "success", "skipped"},
         s = "up_for_retry" => t \in {"setup", "deliver", "teardown"}, s = "skipped" => t = "record",
         ti' = [ti EXCEPT ![t].state = s]
  PROVE  InOrder' /\ ti' \in [JobTasks -> [state : TaskStates, try : Nat]]
<1>0. autonomous \in BOOLEAN /\ ti \in [JobTasks -> [state : TaskStates, try : Nat]]
  BY DEF JobTypeOK
<1>1. TaskLine' = TaskLine /\ JobTasks' = JobTasks
  BY LineSteady
<1>2. \A u \in JobTasks : /\ u # t => ti'[u] = ti[u]
                          /\ u = t => ti'[u].state = s /\ ti'[u].try = ti[u].try
  BY <1>0
<1>3. ti' \in [JobTasks -> [state : TaskStates, try : Nat]]
  BY <1>0 DEF TaskStates, Finals
<1>4. \A i \in 1 .. 8 : TaskLine[i] \in JobTasks
  BY <1>0, LineFacts
<1>5. \A i \in 1 .. 8 : State(i)' = IF TaskLine[i] = t THEN s ELSE State(i)
  BY <1>1, <1>2, <1>4 DEF State
<1>6. \A i \in 1 .. 8 : TaskLine[i] = t => State(i) = "running"
  BY DEF State
<1>7. \A i \in 2 .. 8 : i \in 1 .. 8 /\ i - 1 \in 1 .. 8
  OBVIOUS
<1>8. \A i \in 2 .. 8 : State(i)' # "none" => State(i - 1)' \in Finals
  BY <1>5, <1>6, <1>7 DEF InOrder, Finals
<1>9. \A i \in 2 .. 7 : State(i)' \in TiLive \cup TiDone \cup {"failed"} => State(i - 1)' \in TiDone
  <2>. SUFFICES ASSUME NEW i \in 2 .. 7, State(i)' \in TiLive \cup TiDone \cup {"failed"}
                PROVE  State(i - 1)' \in TiDone
    OBVIOUS
  <2>1. i \in 2 .. 8 /\ i \in 1 .. 8 /\ i - 1 \in 1 .. 8
    OBVIOUS
  <2>2. State(i) \in TiLive \cup TiDone \cup {"failed"}
    BY <2>1, <1>5, <1>6 DEF TiLive
  <2>3. State(i - 1) \in TiDone
    BY <2>2 DEF InOrder
  <2>4. State(i - 1) # "running"
    BY <2>3 DEF TiDone
  <2>. QED BY <2>1, <2>3, <2>4, <1>5, <1>6
<1>10. TaskFailed => TaskFailed'
  BY <1>1, <1>2 DEF TaskFailed
<1>11. ASSUME NEW u \in JobTasks
       PROVE  /\ ti'[u].state = "skipped" => u \notin {"setup", "deliver", "merge", "metrics", "teardown"}
              /\ ti'[u].state = "upstream_failed" => u # "setup" /\ TaskFailed'
              /\ ti'[u].state = "up_for_retry" => u \in {"setup", "deliver", "teardown"}
              /\ ti'[u].state = "running" => ti'[u].try >= 1
  BY <1>2, <1>10 DEF InOrder
<1>. QED BY <1>1, <1>3, <1>8, <1>9, <1>11 DEF InOrder

\* A task is scheduled: it runs, or is final at once with what its upstream says.
LEMMA OrderAfterSchedule ==
  ASSUME JobTypeOK, InOrder, NEW i \in DOMAIN TaskLine, ScheduleTask(i)
  PROVE  InOrder' /\ ti' \in [JobTasks -> [state : TaskStates, try : Nat]]
<1>. DEFINE t == TaskLine[i]
            v == IF i = 1 THEN "running" ELSE Triggered(t, ti[TaskLine[i - 1]].state)
            n == IF v = "running" THEN 1 ELSE 0
<1>0. autonomous \in BOOLEAN /\ ti \in [JobTasks -> [state : TaskStates, try : Nat]] /\ autonomous' = autonomous
  BY DEF JobTypeOK, ScheduleTask
<1>1. TaskLine' = TaskLine /\ JobTasks' = JobTasks
  BY <1>0, LineSteady
<1>2. i \in 1 .. 8 /\ t \in JobTasks /\ \A j \in 1 .. 8 : TaskLine[j] \in JobTasks /\ (TaskLine[j] = t => j = i)
  BY <1>0, LineFacts
<1>3. ti' = [ti EXCEPT ![t] = [state |-> v, try |-> n]] /\ State(i) = "none" /\ (i > 1 => State(i - 1) \in Finals)
  BY DEF ScheduleTask, State
<1>4. v \in {"running", "skipped", "upstream_failed"} /\ n \in Nat /\ (v = "running" => n = 1)
  BY DEF Triggered
<1>5. i > 1 => v = Triggered(t, State(i - 1))
  BY <1>2 DEF State
<1>6. i = 1 <=> t = "setup"
  BY <1>0, <1>2, LineFacts
<1>7. i = 8 <=> t = "teardown"
  BY <1>0, <1>2, LineFacts
<1>8. v = "skipped" => i > 1 /\ State(i - 1) = "skipped" /\ t \notin {"deliver", "metrics", "teardown"}
  BY <1>2, <1>5, <1>6 DEF Triggered
<1>9. t = "merge" => i = 6 /\ State(i - 1) # "skipped"
  <2>. SUFFICES ASSUME t = "merge" PROVE i = 6 /\ State(i - 1) # "skipped"
    OBVIOUS
  <2>1. autonomous
    BY <1>0, <1>2, LineFacts
  <2>2. TaskLine[6] = t /\ TaskLine[5] = "deliver" /\ "deliver" \in JobTasks
    BY <2>1, <1>0, LineFacts DEF Reporter
  <2>3. i = 6
    BY <2>2, <1>2, 6 \in 1 .. 8
  <2>4. ti["deliver"].state # "skipped"
    BY <2>2 DEF InOrder
  <2>. QED BY <2>2, <2>3, <2>4, 6 - 1 = 5 DEF State
<1>10. v = "upstream_failed" => TaskFailed /\ t # "setup"
  <2>. SUFFICES ASSUME v = "upstream_failed" PROVE TaskFailed /\ t # "setup"
    OBVIOUS
  <2>1. i > 1 /\ t # "setup"
    BY <1>2, <1>6
  <2>2. CASE t = "teardown"
    <3>1. ti["setup"].state # "success"
      BY <2>1, <2>2, <1>5 DEF Triggered
    <3>2. State(i) = "none" /\ State(i - 1) \in Finals /\ i = 8
      BY <1>3, <2>1, <2>2, <1>7
    <3>3. State(7) # "none"
      BY <3>2, 8 - 1 = 7 DEF Finals
    <3>4. ti["setup"].state \in Finals
      <4>. DEFINE r == [k \in 1 .. 8 |-> State(k)]
      <4>1. \A k \in 2 .. 8 : r[k] # "none" => r[k - 1] \in Finals
        BY DEF InOrder
      <4>2. r[7] # "none" /\ r[1] = ti["setup"].state
        BY <3>3, <1>0, LineFacts DEF State
      <4>. HIDE DEF r
      <4>3. \A k, j \in 1 .. 8 : j < k /\ r[k] # "none" => r[j] \in Finals
        BY <4>1, RowOfStates
      <4>. QED BY <4>2, <4>3, 1 \in 1 .. 8, 7 \in 1 .. 8, 1 < 7
    <3>5. "setup" \in JobTasks \ {"teardown"}
      BY <1>0, LineFacts
    <3>6. ti["setup"].state = "failed"
      BY <3>1, <3>4, <3>5 DEF InOrder, Finals
    <3>. QED BY <2>1, <3>5, <3>6 DEF TaskFailed
  <2>3. CASE t # "teardown"
    <3>1. State(i - 1) \in {"failed", "upstream_failed"}
      BY <2>1, <2>3, <1>5 DEF Triggered
    <3>2. i - 1 \in 1 .. 7 /\ TaskLine[i - 1] \in JobTasks /\ TaskLine[i - 1] # "teardown"
      <4>1. i - 1 \in 1 .. 7 /\ i - 1 \in 1 .. 8 /\ 8 \in 1 .. 8 /\ i - 1 # 8
        BY <2>1, <1>2
      <4>. QED BY <4>1, <1>0, LineFacts
    <3>. QED BY <2>1, <3>1, <3>2 DEF TaskFailed, InOrder, State
  <2>. QED BY <2>2, <2>3
<1>11. i \in 2 .. 7 /\ v \in {"running", "skipped"} => State(i - 1) \in TiDone
  <2>. SUFFICES ASSUME i \in 2 .. 7, v \in {"running", "skipped"} PROVE State(i - 1) \in TiDone
    OBVIOUS
  <2>1. State(i - 1) \in Finals /\ v = Triggered(t, State(i - 1)) /\ t # "teardown"
    BY <1>3, <1>5, <1>7
  <2>. QED BY <2>1 DEF Triggered, Finals, TiDone
<1>. HIDE DEF v, n, t
<1>12. \A u \in JobTasks : /\ u # t => ti'[u] = ti[u]
                           /\ u = t => ti'[u].state = v /\ ti'[u].try = n
  BY <1>0, <1>2, <1>3
<1>13. ti' \in [JobTasks -> [state : TaskStates, try : Nat]]
  BY <1>0, <1>2, <1>3, <1>4 DEF TaskStates, Finals
<1>14. \A j \in 1 .. 8 : State(j)' = IF j = i THEN v ELSE State(j)
  BY <1>1, <1>2, <1>12 DEF State, t
<1>15. ti[t].state = "none"
  BY <1>3 DEF State, t
<1>16. \A j \in 2 .. 8 : State(j)' # "none" => State(j - 1)' \in Finals
  <2>. SUFFICES ASSUME NEW j \in 2 .. 8, State(j)' # "none" PROVE State(j - 1)' \in Finals
    OBVIOUS
  <2>1. j \in 1 .. 8 /\ j - 1 \in 1 .. 8
    OBVIOUS
  <2>2. CASE j = i
    BY <2>1, <2>2, <1>3, <1>14
  <2>3. CASE j # i
    <3>1. State(j - 1) \in Finals
      BY <2>1, <2>3, <1>14 DEF InOrder
    <3>2. j - 1 # i
      BY <3>1, <1>3 DEF Finals
    <3>. QED BY <3>1, <3>2, <2>1, <1>14
  <2>. QED BY <2>2, <2>3
<1>17. \A j \in 2 .. 7 : State(j)' \in TiLive \cup TiDone \cup {"failed"} => State(j - 1)' \in TiDone
  <2>. SUFFICES ASSUME NEW j \in 2 .. 7, State(j)' \in TiLive \cup TiDone \cup {"failed"} PROVE State(j - 1)' \in TiDone
    OBVIOUS
  <2>1. j \in 1 .. 8 /\ j - 1 \in 1 .. 8 /\ j - 1 # j
    OBVIOUS
  <2>2. CASE j = i
    <3>1. v \in {"running", "skipped"}
      BY <2>1, <2>2, <1>4, <1>14 DEF TiLive, TiDone
    <3>. QED BY <3>1, <2>1, <2>2, <1>11, <1>14
  <2>3. CASE j # i
    <3>1. State(j - 1) \in TiDone
      BY <2>1, <2>3, <1>14 DEF InOrder
    <3>2. j - 1 # i
      BY <3>1, <1>3 DEF TiDone
    <3>. QED BY <3>1, <3>2, <2>1, <1>14
  <2>. QED BY <2>2, <2>3
<1>18. TaskFailed => TaskFailed'
  BY <1>1, <1>12, <1>15 DEF TaskFailed
<1>19. v = "skipped" => t \notin {"setup", "deliver", "merge", "metrics", "teardown"}
  BY <1>6, <1>8, <1>9, <1>2
<1>20. ASSUME NEW u \in JobTasks
       PROVE  /\ ti'[u].state = "skipped" => u \notin {"setup", "deliver", "merge", "metrics", "teardown"}
              /\ ti'[u].state = "upstream_failed" => u # "setup" /\ TaskFailed'
              /\ ti'[u].state = "up_for_retry" => u \in {"setup", "deliver", "teardown"}
              /\ ti'[u].state = "running" => ti'[u].try >= 1
  <2>1. CASE u = t
    BY <2>1, <1>4, <1>10, <1>12, <1>18, <1>19
  <2>2. CASE u # t
    BY <2>2, <1>12, <1>18 DEF InOrder
  <2>. QED BY <2>1, <2>2
<1>. QED BY <1>1, <1>13, <1>16, <1>17, <1>20 DEF InOrder

\* A retry leaves the line in order.
LEMMA OrderAfterRetry ==
  ASSUME JobTypeOK, InOrder, NEW t \in JobTasks, RetryTask(t)
  PROVE  InOrder' /\ ti' \in [JobTasks -> [state : TaskStates, try : Nat]]
<1>0. autonomous \in BOOLEAN /\ ti \in [JobTasks -> [state : TaskStates, try : Nat]] /\ autonomous' = autonomous
  BY DEF JobTypeOK, RetryTask
<1>1. TaskLine' = TaskLine /\ JobTasks' = JobTasks
  BY <1>0, LineSteady
<1>2. ti[t].state = "up_for_retry" /\ ti[t].try \in Nat /\ ti' = [ti EXCEPT ![t] = [state |-> "running", try |-> ti[t].try + 1]]
  BY <1>0 DEF RetryTask
<1>3. \A u \in JobTasks : /\ u # t => ti'[u] = ti[u]
                          /\ u = t => ti'[u].state = "running" /\ ti'[u].try = ti[t].try + 1
  BY <1>0, <1>2
<1>4. ti' \in [JobTasks -> [state : TaskStates, try : Nat]]
  BY <1>0, <1>2 DEF TaskStates, Finals
<1>5. \A i \in 1 .. 8 : TaskLine[i] \in JobTasks
  BY <1>0, LineFacts
<1>6. \A i \in 1 .. 8 : State(i)' = IF TaskLine[i] = t THEN "running" ELSE State(i)
  BY <1>1, <1>3, <1>5 DEF State
<1>7. \A i \in 1 .. 8 : TaskLine[i] = t => State(i) = "up_for_retry"
  BY <1>2 DEF State
<1>8. \A i \in 2 .. 8 : State(i)' # "none" => State(i - 1)' \in Finals
  <2>. SUFFICES ASSUME NEW i \in 2 .. 8, State(i)' # "none" PROVE State(i - 1)' \in Finals
    OBVIOUS
  <2>1. i \in 1 .. 8 /\ i - 1 \in 1 .. 8
    OBVIOUS
  <2>2. State(i) # "none"
    BY <2>1, <1>6, <1>7
  <2>3. State(i - 1) \in Finals /\ State(i - 1) # "up_for_retry"
    BY <2>2 DEF InOrder, Finals
  <2>. QED BY <2>1, <2>3, <1>6, <1>7
<1>9. \A i \in 2 .. 7 : State(i)' \in TiLive \cup TiDone \cup {"failed"} => State(i - 1)' \in TiDone
  <2>. SUFFICES ASSUME NEW i \in 2 .. 7, State(i)' \in TiLive \cup TiDone \cup {"failed"} PROVE State(i - 1)' \in TiDone
    OBVIOUS
  <2>1. i \in 1 .. 8 /\ i - 1 \in 1 .. 8
    OBVIOUS
  <2>2. State(i) \in TiLive \cup TiDone \cup {"failed"}
    BY <2>1, <1>6, <1>7 DEF TiLive
  <2>3. State(i - 1) \in TiDone /\ State(i - 1) # "up_for_retry"
    BY <2>2 DEF InOrder, TiDone
  <2>. QED BY <2>1, <2>3, <1>6, <1>7
<1>10. TaskFailed => TaskFailed'
  BY <1>1, <1>2, <1>3 DEF TaskFailed
<1>11. ASSUME NEW u \in JobTasks
       PROVE  /\ ti'[u].state = "skipped" => u \notin {"setup", "deliver", "merge", "metrics", "teardown"}
              /\ ti'[u].state = "upstream_failed" => u # "setup" /\ TaskFailed'
              /\ ti'[u].state = "up_for_retry" => u \in {"setup", "deliver", "teardown"}
              /\ ti'[u].state = "running" => ti'[u].try >= 1
  BY <1>2, <1>3, <1>10 DEF InOrder
<1>. QED BY <1>1, <1>4, <1>8, <1>9, <1>11 DEF InOrder

\* How a step may move the tasks and the phase of the attempt.
Moved ==
  \/ ti' = ti /\ attempt'.phase = attempt.phase
  \/ ti' = ti /\ attempt'.phase = "callback" /\ attempt.phase = "body"
  \/ ti' = ti /\ attempt'.phase = "closing" /\ attempt.phase = "callback"
  \/ /\ attempt.phase = "body" /\ attempt'.phase = "body"
     /\ \E t \in JobTasks : ti[t].state \notin Finals /\ \A u \in JobTasks \ {t} : ti'[u] = ti[u]
  \/ /\ attempt.task \in JobTasks /\ ti[attempt.task].state = "running" /\ attempt'.phase = "body"
     /\ ti'[attempt.task].state = "failed" /\ \A u \in JobTasks \ {attempt.task} : ti'[u] = ti[u]

\* What was true to say stays true.
LEMMA ClaimsStay ==
  ASSUME JobTypeOK, AttemptKnown, autonomous' = autonomous, Moved,
         Claim("success") => shown' = shown,
         decision.recorded = "reject" => decision'.recorded = "reject",
         Claim("cleaned") => jobBox' # "live"
  PROVE  \A w : Claim(w) => Claim(w)'
<1>0. JobTasks' = JobTasks /\ "setup" \in JobTasks
  BY LineSteady, LineFacts DEF JobTypeOK
<1>1. Claim("success") => Claim("success")'
  BY DEF Claim
<1>2. Claim("rejected") => Claim("rejected")'
  BY DEF Claim
<1>3. Claim("failed") => Claim("failed")'
  <2>. SUFFICES ASSUME attempt.phase # "body" \/ \E t \in JobTasks : ti[t].state = "failed"
                PROVE  attempt'.phase # "body" \/ \E t \in JobTasks : ti'[t].state = "failed"
    BY <1>0 DEF Claim
  <2>. QED BY DEF Moved, Finals
<1>4. Claim("cleaned") => Claim("cleaned")'
  <2>. SUFFICES ASSUME Claim("cleaned") PROVE attempt'.phase = "closing" \/ ti'["setup"].state \in Finals
    BY DEF Claim
  <2>1. attempt.phase = "closing" => attempt.task = "setup"
    BY DEF AttemptKnown, Unclaimed
  <2>2. attempt.phase = "closing" \/ ti["setup"].state \in Finals
    BY DEF Claim
  <2>. QED BY <1>0, <2>1, <2>2 DEF Moved, Finals
<1>. QED BY <1>1, <1>2, <1>3, <1>4 DEF Claim

\* What a report may do to the Cell.
CellMoves == jobCell' = jobCell \/ \E w \in Reports : Accepts(w) /\ Transitioned(w) /\ Claim(w)

\* The Cell takes only true reports, and stays ended.
LEMMA CellKeeps ==
  ASSUME JobTypeOK, ClaimsTrue, CellMoves, \A w : Claim(w) => Claim(w)'
  PROVE  /\ jobCell' \in [epoch : {1, 2}, state : CellLive \cup CellEnds, cleaned : BOOLEAN]
         /\ jobCell'.epoch = 1 => Claim(jobCell.state)' /\ (jobCell'.cleaned => Claim("cleaned")')
         /\ jobCell'.epoch = 2 => jobCell'.state = "queued" /\ ~jobCell'.cleaned
         /\ CellOver => CellOver'
         /\ jobCell.epoch = 2 \/ jobCell.state = "rejected" => jobCell'.epoch = 2 \/ jobCell'.state = "rejected"
<1>0. jobCell \in [epoch : {1, 2}, state : CellLive \cup CellEnds, cleaned : BOOLEAN]
  BY DEF JobTypeOK
<1>1. CASE jobCell' = jobCell
  BY <1>0, <1>1 DEF ClaimsTrue, CellOver
<1>2. ASSUME NEW w \in Reports, Accepts(w), Transitioned(w), Claim(w) PROVE
         /\ jobCell' \in [epoch : {1, 2}, state : CellLive \cup CellEnds, cleaned : BOOLEAN]
         /\ jobCell'.epoch = 1 => Claim(jobCell.state)' /\ (jobCell'.cleaned => Claim("cleaned")')
         /\ jobCell'.epoch = 2 => jobCell'.state = "queued" /\ ~jobCell'.cleaned
         /\ CellOver => CellOver'
         /\ jobCell.epoch = 2 \/ jobCell.state = "rejected" => jobCell'.epoch = 2 \/ jobCell'.state = "rejected"
  <2>1. jobCell.epoch = 1
    BY <1>2 DEF Accepts
  <2>2. CASE w = "cleaned"
    <3>1. jobCell' = [jobCell EXCEPT !.cleaned = TRUE]
      BY <2>2, <1>2 DEF Transitioned
    <3>2. jobCell'.epoch = 1 /\ jobCell'.state = jobCell.state
      BY <3>1, <2>1, <1>0
    <3>3. jobCell' \in [epoch : {1, 2}, state : CellLive \cup CellEnds, cleaned : BOOLEAN]
      BY <3>1, <1>0
    <3>. QED BY <2>1, <2>2, <3>2, <3>3, <1>2 DEF ClaimsTrue, CellOver
  <2>3. CASE w # "cleaned"
    <3>1. jobCell' = [jobCell EXCEPT !.state = w]
      BY <2>3, <1>2 DEF Transitioned
    <3>2. jobCell'.epoch = 1 /\ jobCell'.state = w /\ jobCell'.cleaned = jobCell.cleaned
      BY <3>1, <2>1, <1>0
    <3>3. jobCell' \in [epoch : {1, 2}, state : CellLive \cup CellEnds, cleaned : BOOLEAN]
      BY <3>1, <1>0, <2>3 DEF Reports, CellLive, CellEnds
    <3>4. CellOver => CellOver'
      BY <3>2, <1>2, <2>1, <2>3 DEF CellOver, Accepts, CellLive, CellEnds, Reports
    <3>5. jobCell.state = "rejected" => w = "rejected"
      BY <1>2, <2>3 DEF Accepts, CellLive
    <3>. QED BY <2>1, <3>2, <3>3, <3>4, <3>5, <1>2 DEF ClaimsTrue
  <2>. QED BY <2>2, <2>3
<1>. QED BY <1>1, <1>2 DEF CellMoves

\* What is owed is a row of true reports, and so is the list of all that is owed.
LEMMA OwedIsTrue ==
  ASSUME JobTypeOK, ClaimsTrue
  PROVE  LET owed == FlattenSeq([i \in DOMAIN TaskLine |-> debts[TaskLine[i]]]) IN
         owed \in Seq(Reports) /\ \A k \in DOMAIN owed : Claim(owed[k])
<1>. DEFINE R == {w \in Reports : Claim(w)}
            q == [i \in DOMAIN TaskLine |-> debts[TaskLine[i]]]
<1>0. autonomous \in BOOLEAN /\ debts \in [JobTasks -> Seq(Reports)]
  BY DEF JobTypeOK
<1>1. DOMAIN TaskLine = 1 .. 8 /\ \A i \in 1 .. 8 : TaskLine[i] \in JobTasks
  BY <1>0, LineFacts
<1>2. ASSUME NEW t \in JobTasks PROVE debts[t] \in Seq(R)
  <2>1. debts[t] \in Seq(Reports) /\ \A i \in DOMAIN debts[t] : debts[t][i] \in Reports /\ Claim(debts[t][i])
    BY <1>0 DEF ClaimsTrue
  <2>2. \A i \in 1 .. Len(debts[t]) : debts[t][i] \in R
    BY <2>1
  <2>. HIDE DEF R
  <2>. QED BY <2>1, <2>2
<1>3. q = [i \in 1 .. 8 |-> debts[TaskLine[i]]]
  BY <1>1
<1>4. \A i \in 1 .. 8 : q[i] \in Seq(R)
  BY <1>1, <1>2, <1>3
<1>5. Len(q) = 8
  BY <1>3
<1>. HIDE DEF R, q
<1>6. FlattenSeq(q) \in Seq(R)
  BY <1>4, <1>5, FlattenOfEight
<1>7. R \subseteq Reports /\ \A w \in R : Claim(w)
  BY DEF R
<1>8. FlattenSeq(q) \in Seq(Reports) /\ \A k \in DOMAIN FlattenSeq(q) : FlattenSeq(q)[k] \in R
  BY <1>6, <1>7
<1>. QED BY <1>7, <1>8 DEF q

-----------------------------------------------------------------------------
\* How a task may end badly, in each phase of its attempt.
Fails ==
  LET t == attempt.task IN
  \/ attempt.phase = "body" /\ t \in {"setup", "deliver", "teardown"} /\ Ended(t, "up_for_retry")
  \/ Ended(t, "failed")
  \/ /\ attempt.phase = "body" /\ t \notin {"approve", "teardown"} /\ ti' = ti
     /\ attempt' = [attempt EXCEPT !.phase = "callback", !.want = "failed", !.step = "settle"]
  \/ /\ attempt.phase = "callback" /\ t = "setup" /\ ti' = ti
     /\ attempt' = [attempt EXCEPT !.phase = "closing", !.step = "ctx"]

\* Where Airflow hands over to a callback or ends the task.
LEMMA RaisesFails ==
  ASSUME JobTypeOK, InOrder, AttemptKnown, attempt # Unclaimed, Raises(attempt.task)
  PROVE  /\ Fails
         /\ attempt.phase = "body" /\ attempt.task \notin {"approve", "teardown"} => ~Ended(attempt.task, "failed")
<1>0. /\ attempt.task \in JobTasks /\ ti[attempt.task].state = "running" /\ ti[attempt.task].try >= 1
      /\ ti[attempt.task].try \in Nat /\ ti \in [JobTasks -> [state : TaskStates, try : Nat]] /\ attempt \in Attempts
  BY DEF AttemptKnown, InOrder, JobTypeOK
<1>1. CASE attempt.phase = "body"
  <2>1. AttemptFails(attempt.task)
    BY <1>1 DEF Raises
  <2>2. CASE ti[attempt.task].try <= Retries(attempt.task)
    <3>1. Ended(attempt.task, "up_for_retry")
      BY <2>1, <2>2 DEF AttemptFails
    <3>2. attempt.task \in {"setup", "deliver", "teardown"}
      BY <2>2, <1>0 DEF Retries
    <3>3. ~Ended(attempt.task, "failed")
      <4>1. ti'[attempt.task].state = "up_for_retry"
        BY <3>1, <1>0 DEF Ended
      <4>2. Ended(attempt.task, "failed") => ti'[attempt.task].state = "failed"
        BY <1>0 DEF Ended
      <4>. QED BY <4>1, <4>2
    <3>. QED BY <1>1, <3>1, <3>2, <3>3 DEF Fails
  <2>3. CASE ~(ti[attempt.task].try <= Retries(attempt.task)) /\ attempt.task \in {"approve", "teardown"}
    BY <2>1, <2>3 DEF AttemptFails, Fails
  <2>4. CASE ~(ti[attempt.task].try <= Retries(attempt.task)) /\ attempt.task \notin {"approve", "teardown"}
    <3>1. ti' = ti /\ attempt' = [attempt EXCEPT !.phase = "callback", !.want = "failed", !.step = "settle"]
      BY <2>1, <2>4 DEF AttemptFails
    <3>2. ~Ended(attempt.task, "failed")
      <4>1. ti'[attempt.task].state = "running"
        BY <3>1, <1>0
      <4>2. Ended(attempt.task, "failed") => ti'[attempt.task].state = "failed"
        BY <1>0 DEF Ended
      <4>. QED BY <4>1, <4>2
    <3>. QED BY <1>1, <2>4, <3>1, <3>2 DEF Fails
  <2>. QED BY <2>2, <2>3, <2>4
<1>2. CASE attempt.phase # "body"
  <2>1. CallbackEnds(attempt.task)
    BY <1>2 DEF Raises
  <2>. QED BY <1>2, <2>1 DEF CallbackEnds, Fails
<1>. QED BY <1>1, <1>2

\* How debts may grow: by the report of the attempt.
DebtsGrow ==
  /\ debts' \in [JobTasks -> Seq(Reports)]
  /\ \A t \in JobTasks : debts[t] # <<>> => debts'[t] # <<>>
  /\ \A t \in JobTasks : \A i \in DOMAIN debts'[t] :
       \/ \E j \in DOMAIN debts[t] : debts'[t][i] = debts[t][j]
       \/ Reporting /\ debts'[t][i] = attempt.want

\* A report that fails is on record as a debt or as lost.
LEMMA ReportFailsGrows ==
  ASSUME JobTypeOK, AttemptKnown, Reporting, NEW n \in {0, 1}, ReportFails(n)
  PROVE  /\ DebtsGrow /\ Raises(attempt.task) /\ mishaps' \in Nat /\ silent' \in BOOLEAN /\ (silent => silent')
         /\ silent' \/ debts'[attempt.task] # <<>>
<1>0. /\ attempt \in Attempts /\ debts \in [JobTasks -> Seq(Reports)] /\ silent \in BOOLEAN /\ mishaps \in Nat
      /\ attempt.task \in JobTasks /\ attempt.want \in Reports
  <2>1. attempt # Unclaimed
    BY DEF Reporting, Unclaimed
  <2>2. attempt.want # "none"
    BY <2>1 DEF AttemptKnown, JobTypeOK, Attempts
  <2>. QED BY <2>1, <2>2 DEF AttemptKnown, JobTypeOK, Attempts
<1>1. Raises(attempt.task)
  BY DEF ReportFails
<1>2. CASE debts' = debts /\ silent' = TRUE /\ mishaps' = mishaps + n + 1
  BY <1>0, <1>1, <1>2 DEF DebtsGrow
<1>3. CASE /\ debts' = [debts EXCEPT ![attempt.task] = IF Contains(@, attempt.want) THEN @ ELSE Append(@, attempt.want)]
           /\ silent' = silent /\ mishaps' = mishaps + n
  <2>. DEFINE d == debts[attempt.task]
              e == IF Contains(d, attempt.want) THEN d ELSE Append(d, attempt.want)
  <2>1. debts' = [debts EXCEPT ![attempt.task] = e]
    BY <1>3
  <2>2. d \in Seq(Reports)
    BY <1>0
  <2>3. e \in Seq(Reports) /\ e # <<>> /\ \A i \in DOMAIN e : e[i] = attempt.want \/ \E j \in DOMAIN d : e[i] = d[j]
    <3>1. CASE Contains(d, attempt.want)
      <4>1. e = d
        BY <3>1
      <4>2. d # <<>>
        BY <3>1, <2>2 DEF Contains
      <4>. QED BY <4>1, <4>2, <2>2
    <3>2. CASE ~Contains(d, attempt.want)
      <4>1. e = Append(d, attempt.want)
        BY <3>2
      <4>. HIDE DEF d, e
      <4>2. DOMAIN e = 1 .. Len(d) + 1 /\ \A i \in 1 .. Len(d) + 1 : e[i] = IF i = Len(d) + 1 THEN attempt.want ELSE d[i]
        BY <4>1, <2>2
      <4>3. DOMAIN d = 1 .. Len(d) /\ Len(d) \in Nat
        BY <2>2
      <4>4. e \in Seq(Reports) /\ e # <<>>
        BY <4>1, <2>2, <1>0
      <4>. QED BY <4>2, <4>3, <4>4
    <3>. QED BY <3>1, <3>2
  <2>. HIDE DEF e
  <2>4. debts' \in [JobTasks -> Seq(Reports)] /\ debts'[attempt.task] = e /\ \A t \in JobTasks \ {attempt.task} : debts'[t] = debts[t]
    BY <2>1, <2>3, <1>0
  <2>5. DebtsGrow
    BY <2>3, <2>4 DEF DebtsGrow
  <2>. QED BY <1>0, <1>1, <1>3, <2>3, <2>4, <2>5
<1>. QED BY <1>2, <1>3 DEF ReportFails

\* The order of the line is about its tasks only.
LEMMA OrderSame ==
  ASSUME InOrder, autonomous' = autonomous, ti' = ti
  PROVE  InOrder'
<1>1. TaskLine' = TaskLine /\ JobTasks' = JobTasks
  BY LineSteady
<1>2. TaskFailed' = TaskFailed
  BY <1>1 DEF TaskFailed
<1>3. \A i \in 1 .. 8 : State(i)' = State(i)
  BY <1>1 DEF State
<1>4. \A i \in 2 .. 8 : i \in 1 .. 8 /\ i - 1 \in 1 .. 8
  OBVIOUS
<1>5. \A i \in 2 .. 8 : State(i)' # "none" => State(i - 1)' \in Finals
  BY <1>3, <1>4 DEF InOrder
<1>6. \A i \in 2 .. 7 : State(i)' \in TiLive \cup TiDone \cup {"failed"} => State(i - 1)' \in TiDone
  <2>1. \A i \in 2 .. 7 : i \in 1 .. 8 /\ i - 1 \in 1 .. 8
    OBVIOUS
  <2>. QED BY <1>3, <2>1 DEF InOrder
<1>. QED BY <1>1, <1>2, <1>5, <1>6 DEF InOrder

\* What is told stays told while nothing is retried.
LEMMA ToldStays ==
  ASSUME Told, JobTasks' = JobTasks, silent => silent', CellOver => CellOver',
         \A t \in JobTasks : debts[t] # <<>> => debts'[t] # <<>>
  PROVE  Told'
BY DEF Told

\* A try that ends badly leaves the invariant, if what fails for good is told.
LEMMA FailKeeps ==
  ASSUME JobInv, attempt # Unclaimed, Fails, UNCHANGED <<autonomous, decision, shown, dagRun>>,
         jobBox' \in {"none", "live", "closed"}, jobBox' = jobBox \/ (attempt.task = "setup" /\ attempt.phase = "body"),
         DebtsGrow, mishaps' \in Nat, silent' \in BOOLEAN, silent => silent', CellMoves,
         (attempt.phase = "callback" \/ (attempt.phase = "body" /\ attempt.task # "teardown" /\ Ended(attempt.task, "failed")))
           => silent' \/ CellOver' \/ debts'[attempt.task] # <<>>
  PROVE  JobInv'
<1>. DEFINE t == attempt.task
<1>0. /\ JobTypeOK /\ InOrder /\ AttemptKnown /\ GateKnown /\ ClaimsTrue /\ EndsTold
      /\ t \in JobTasks /\ ti[t].state = "running" /\ attempt \in Attempts
      /\ ti \in [JobTasks -> [state : TaskStates, try : Nat]]
  BY DEF JobInv, AttemptKnown, JobTypeOK
<1>1. TaskLine' = TaskLine /\ JobTasks' = JobTasks /\ Reporter' = Reporter /\ "record" \in JobTasks /\ Reporter \in JobTasks /\ "none" \notin JobTasks
  BY <1>0, LineSteady, LineFacts DEF JobTypeOK
<1>2. \/ attempt.phase = "body" /\ t \in {"setup", "deliver", "teardown"} /\ Ended(t, "up_for_retry")
      \/ Ended(t, "failed")
      \/ /\ attempt.phase = "body" /\ t \notin {"approve", "teardown"} /\ ti' = ti
         /\ attempt' = [attempt EXCEPT !.phase = "callback", !.want = "failed", !.step = "settle"]
      \/ /\ attempt.phase = "callback" /\ t = "setup" /\ ti' = ti
         /\ attempt' = [attempt EXCEPT !.phase = "closing", !.step = "ctx"]
  BY DEF Fails
<1>3. ASSUME NEW s \in {"up_for_retry", "failed"}, Ended(t, s)
      PROVE  /\ attempt' = Unclaimed /\ ti' = [ti EXCEPT ![t].state = s]
             /\ ti'[t].state = s /\ \A u \in JobTasks \ {t} : ti'[u] = ti[u]
             /\ attempt'.phase = "body" /\ attempt'.task = "none" /\ ~Reporting' /\ attempt'.todo = <<>>
  BY <1>0, <1>3 DEF Ended, Unclaimed, Reporting
<1>4. ASSUME ti' = ti, attempt' = [attempt EXCEPT !.phase = "callback", !.want = "failed", !.step = "settle"]
      PROVE  attempt' \in Attempts /\ attempt'.phase = "callback" /\ attempt'.want = "failed" /\ attempt'.step = "settle"
             /\ attempt'.task = t /\ attempt'.todo = attempt.todo
  BY <1>0, <1>4 DEF Attempts, Reports
<1>5. ASSUME ti' = ti, attempt' = [attempt EXCEPT !.phase = "closing", !.step = "ctx"]
      PROVE  attempt' \in Attempts /\ attempt'.phase = "closing" /\ attempt'.step = "ctx"
             /\ attempt'.task = t /\ attempt'.todo = attempt.todo /\ ~Reporting'
  BY <1>0, <1>5 DEF Attempts, Reporting
<1>6. Moved
  <2>1. CASE attempt.phase = "body" /\ Ended(t, "up_for_retry")
    BY <2>1, <1>0, <1>3 DEF Moved, Finals
  <2>2. CASE Ended(t, "failed")
    BY <2>2, <1>0, <1>3 DEF Moved
  <2>. QED BY <1>2, <1>4, <1>5, <2>1, <2>2 DEF Moved
<1>7. \A w : Claim(w) => Claim(w)'
  <2>1. Claim("cleaned") => jobBox' # "live"
    BY <1>0 DEF Claim, Finals
  <2>. QED BY <1>0, <1>6, <2>1, ClaimsStay
<1>8. /\ jobCell' \in [epoch : {1, 2}, state : CellLive \cup CellEnds, cleaned : BOOLEAN]
      /\ jobCell'.epoch = 1 => Claim(jobCell.state)' /\ (jobCell'.cleaned => Claim("cleaned")')
      /\ jobCell'.epoch = 2 => jobCell'.state = "queued" /\ ~jobCell'.cleaned
      /\ CellOver => CellOver'
      /\ jobCell.epoch = 2 \/ jobCell.state = "rejected" => jobCell'.epoch = 2 \/ jobCell'.state = "rejected"
  BY <1>0, <1>7, CellKeeps
<1>9. InOrder' /\ ti' \in [JobTasks -> [state : TaskStates, try : Nat]]
  <2>1. CASE ti' = ti
    BY <2>1, <1>0, OrderSame
  <2>2. CASE Ended(t, "failed")
    BY <2>2, <1>0, <1>3, OrderAfterEnd
  <2>3. CASE t \in {"setup", "deliver", "teardown"} /\ Ended(t, "up_for_retry")
    BY <2>3, <1>0, <1>3, OrderAfterEnd
  <2>. QED BY <1>2, <2>1, <2>2, <2>3
<1>10. JobTypeOK'
  <2>1. attempt' \in Attempts
    <3>1. Unclaimed \in Attempts
      BY DEF Unclaimed, Attempts
    <3>. QED BY <3>1, <1>2, <1>3, <1>4, <1>5
  <2>2. Attempts' = Attempts
    BY <1>1 DEF Attempts
  <2>. QED BY <1>0, <1>1, <1>8, <1>9, <2>1, <2>2 DEF JobTypeOK, DebtsGrow
<1>11. AttemptKnown'
  <2>1. CASE attempt' = Unclaimed
    BY <2>1 DEF AttemptKnown, Unclaimed
  <2>2. CASE ti' = ti /\ attempt' = [attempt EXCEPT !.phase = "callback", !.want = "failed", !.step = "settle"] /\ t \notin {"approve", "teardown"}
    BY <2>2, <1>0, <1>1, <1>4 DEF AttemptKnown, Reporting
  <2>3. CASE ti' = ti /\ attempt' = [attempt EXCEPT !.phase = "closing", !.step = "ctx"] /\ t = "setup"
    BY <2>3, <1>0, <1>1, <1>5 DEF AttemptKnown
  <2>. QED BY <1>2, <1>3, <2>1, <2>2, <2>3
<1>12. ti["record"].state # "none" => ti'["record"].state # "none"
  BY <1>0, <1>1, <1>2, <1>3
<1>13. \A u \in JobTasks : ti'[u].state \in TiDone => ti'[u] = ti[u]
  BY <1>0, <1>2, <1>3 DEF TiDone
<1>14. ~(attempt'.task = "record" /\ attempt'.step \in {"ctx", "work"})
  BY <1>2, <1>3, <1>4, <1>5
<1>15. GateKnown'
  BY <1>0, <1>1, <1>8, <1>12, <1>13, <1>14 DEF GateKnown
<1>16. ClaimsTrue'
  <2>1. ASSUME NEW u \in JobTasks, NEW i \in DOMAIN debts'[u] PROVE Claim(debts[u][i])'
    <3>1. \/ \E j \in DOMAIN debts[u] : debts'[u][i] = debts[u][j]
          \/ Reporting /\ debts'[u][i] = attempt.want
      BY <2>1 DEF DebtsGrow
    <3>2. Claim(debts'[u][i])
      BY <3>1, <1>0 DEF ClaimsTrue
    <3>. QED BY <3>2, <1>7
  <2>2. \A i \in DOMAIN attempt'.todo : Claim(attempt.todo[i])'
    <3>1. attempt'.todo = attempt.todo \/ attempt'.todo = <<>>
      BY <1>2, <1>3, <1>4, <1>5
    <3>. QED BY <3>1, <1>0, <1>7 DEF ClaimsTrue
  <2>3. Reporting' => Claim(attempt.want)'
    <3>1. CASE ti' = ti /\ attempt' = [attempt EXCEPT !.phase = "callback", !.want = "failed", !.step = "settle"]
      BY <3>1, <1>4 DEF Claim
    <3>. QED BY <1>2, <1>3, <1>5, <3>1
  <2>. QED BY <1>1, <1>8, <2>1, <2>2, <2>3 DEF ClaimsTrue
<1>17. Told => Told'
  BY <1>1, <1>8, ToldStays DEF DebtsGrow
<1>18. TaskFailed' \/ attempt'.phase = "closing" => Told'
  <2>1. CASE attempt.phase = "callback" /\ t # "teardown"
    BY <2>1, <1>0, <1>1 DEF Told
  <2>2. CASE attempt.phase = "body" /\ t # "teardown" /\ Ended(t, "failed")
    BY <2>2, <1>0, <1>1 DEF Told
  <2>3. CASE attempt.phase = "closing"
    BY <2>3, <1>0, <1>17 DEF EndsTold
  <2>4. CASE attempt.phase = "body" /\ ~Ended(t, "failed")
    <3>1. attempt'.phase # "closing"
      BY <2>4, <1>2, <1>3, <1>4
    <3>2. TaskFailed' => TaskFailed
      BY <2>4, <1>0, <1>1, <1>2, <1>3 DEF TaskFailed
    <3>. QED BY <3>1, <3>2, <1>0, <1>17 DEF EndsTold
  <2>5. CASE attempt.phase = "body" /\ t = "teardown" /\ Ended(t, "failed")
    <3>1. attempt'.phase # "closing"
      BY <2>5, <1>3
    <3>2. TaskFailed' => TaskFailed
      BY <2>5, <1>0, <1>1, <1>3 DEF TaskFailed
    <3>. QED BY <3>1, <3>2, <1>0, <1>17 DEF EndsTold
  <2>6. attempt.phase \in {"body", "callback", "closing"} /\ (attempt.phase = "callback" => t # "teardown")
    BY <1>0 DEF Attempts, AttemptKnown
  <2>. QED BY <2>1, <2>2, <2>3, <2>4, <2>5, <2>6
<1>19. ti'[Reporter].state = "success" => Claim("success")' /\ CellOver'
  <2>1. ti'[Reporter].state = "success" => ti[Reporter].state = "success"
    BY <1>1, <1>13 DEF TiDone
  <2>. QED BY <2>1, <1>0, <1>7, <1>8 DEF EndsTold
<1>20. dagRun' = "open"
  BY <1>0 DEF EndsTold, Finals
<1>21. EndsTold'
  BY <1>1, <1>18, <1>19, <1>20 DEF EndsTold
<1>. QED BY <1>9, <1>10, <1>11, <1>15, <1>16, <1>21 DEF JobInv

\* A step of an attempt that stays in its phase.
LEMMA GoOnKeeps ==
  ASSUME JobInv, attempt # Unclaimed, UNCHANGED <<autonomous, ti, debts, decision, shown, jobBox, dagRun, silent, mishaps>>,
         CellMoves, attempt' \in Attempts, attempt'.task = attempt.task, attempt'.phase = attempt.phase,
         attempt'.want = attempt.want, attempt'.step # "idle", attempt'.step = "replay" => attempt'.todo # <<>>,
         (Reporting /\ attempt'.step \in {"inspect", "replay"}) \/ (attempt.step = "ctx" /\ attempt'.step = "work"),
         \A i \in DOMAIN attempt'.todo : Claim(attempt'.todo[i])
  PROVE  JobInv'
<1>0. /\ JobTypeOK /\ InOrder /\ AttemptKnown /\ GateKnown /\ ClaimsTrue /\ EndsTold
      /\ attempt.task \in JobTasks /\ ti[attempt.task].state = "running"
  BY DEF JobInv, AttemptKnown
<1>1. TaskLine' = TaskLine /\ JobTasks' = JobTasks /\ Reporter' = Reporter /\ Attempts' = Attempts
  BY LineSteady DEF Attempts
<1>2. \A w : Claim(w) => Claim(w)'
  <2>1. Moved
    BY DEF Moved
  <2>2. Claim("cleaned") => jobBox' # "live"
    BY DEF Claim
  <2>. QED BY <1>0, <2>1, <2>2, ClaimsStay
<1>3. /\ jobCell' \in [epoch : {1, 2}, state : CellLive \cup CellEnds, cleaned : BOOLEAN]
      /\ jobCell'.epoch = 1 => Claim(jobCell.state)' /\ (jobCell'.cleaned => Claim("cleaned")')
      /\ jobCell'.epoch = 2 => jobCell'.state = "queued" /\ ~jobCell'.cleaned
      /\ CellOver => CellOver'
      /\ jobCell.epoch = 2 \/ jobCell.state = "rejected" => jobCell'.epoch = 2 \/ jobCell'.state = "rejected"
  BY <1>0, <1>2, CellKeeps
<1>4. JobTypeOK'
  BY <1>0, <1>1, <1>3 DEF JobTypeOK
<1>5. InOrder'
  BY <1>0, OrderSame
<1>6. AttemptKnown'
  <2>1. Reporting' => Reporting
    BY DEF Reporting
  <2>2. attempt.phase = "callback" => Reporting
    BY <1>0 DEF AttemptKnown, Unclaimed
  <2>3. attempt.phase = "callback" => Reporting'
    BY <2>2 DEF Reporting
  <2>. QED BY <1>0, <1>1, <2>1, <2>3 DEF AttemptKnown
<1>7. GateKnown'
  <2>1. attempt'.step \in {"ctx", "work"} => attempt.step \in {"ctx", "work"}
    BY DEF Reporting
  <2>. QED BY <1>0, <1>1, <1>3, <2>1 DEF GateKnown
<1>8. ClaimsTrue'
  <2>1. Reporting' => Claim(attempt.want)'
    <3>1. Reporting' => Reporting
      BY DEF Reporting
    <3>. QED BY <3>1, <1>0, <1>2 DEF ClaimsTrue
  <2>2. \A i \in DOMAIN attempt'.todo : Claim(attempt.todo[i])'
    BY <1>2
  <2>. QED BY <1>0, <1>1, <1>2, <1>3, <2>1, <2>2 DEF ClaimsTrue
<1>9. EndsTold'
  <2>1. TaskFailed' = TaskFailed
    BY <1>1 DEF TaskFailed
  <2>2. Told => Told'
    BY <1>1, <1>3, ToldStays
  <2>. QED BY <1>0, <1>1, <1>2, <1>3, <2>1, <2>2 DEF EndsTold
<1>. QED BY <1>4, <1>5, <1>6, <1>7, <1>8, <1>9 DEF JobInv

\* A body that ends well.
LEMMA DoneKeeps ==
  ASSUME JobInv, attempt # Unclaimed, attempt.phase = "body", NEW s \in {"success", "skipped"},
         s = "skipped" => attempt.task = "record", Ended(attempt.task, s),
         UNCHANGED <<autonomous, dagRun, debts, mishaps, silent>>, CellMoves,
         decision' \in [answer : Replies, recorded : Replies],
         decision.recorded = "reject" => decision'.recorded = "reject",
         autonomous => decision'.answer # "reject",
         attempt.task = "record" \/ decision'.recorded = decision.recorded,
         attempt.task = "record" /\ decision'.recorded = "reject" => jobCell'.epoch = 2 \/ jobCell'.state = "rejected",
         shown' \in {"none", "plain"} \cup (IF autonomous THEN {"merged"} ELSE {}), Claim("success") => shown' = shown,
         jobBox' \in {"none", "live", "closed"}, Claim("cleaned") => jobBox' # "live",
         attempt.task = Reporter => Claim("success")' /\ CellOver'
  PROVE  JobInv'
<1>. DEFINE t == attempt.task
<1>0. /\ JobTypeOK /\ InOrder /\ AttemptKnown /\ GateKnown /\ ClaimsTrue /\ EndsTold
      /\ t \in JobTasks /\ ti[t].state = "running" /\ attempt \in Attempts
      /\ ti \in [JobTasks -> [state : TaskStates, try : Nat]]
  BY DEF JobInv, AttemptKnown, JobTypeOK
<1>1. TaskLine' = TaskLine /\ JobTasks' = JobTasks /\ Reporter' = Reporter /\ Attempts' = Attempts /\ "record" \in JobTasks /\ Reporter \in JobTasks
  BY <1>0, LineSteady, LineFacts DEF JobTypeOK, Attempts
<1>2. /\ attempt' = Unclaimed /\ ti' = [ti EXCEPT ![t].state = s]
      /\ ti'[t].state = s /\ \A u \in JobTasks \ {t} : ti'[u] = ti[u]
      /\ attempt'.phase = "body" /\ attempt'.task = "none" /\ ~Reporting' /\ attempt'.todo = <<>>
  BY <1>0 DEF Ended, Unclaimed, Reporting
<1>3. Moved
  BY <1>0, <1>2 DEF Moved, Finals
<1>4. \A w : Claim(w) => Claim(w)'
  BY <1>0, <1>3, ClaimsStay
<1>5. /\ jobCell' \in [epoch : {1, 2}, state : CellLive \cup CellEnds, cleaned : BOOLEAN]
      /\ jobCell'.epoch = 1 => Claim(jobCell.state)' /\ (jobCell'.cleaned => Claim("cleaned")')
      /\ jobCell'.epoch = 2 => jobCell'.state = "queued" /\ ~jobCell'.cleaned
      /\ CellOver => CellOver'
      /\ jobCell.epoch = 2 \/ jobCell.state = "rejected" => jobCell'.epoch = 2 \/ jobCell'.state = "rejected"
  BY <1>0, <1>4, CellKeeps
<1>6. InOrder' /\ ti' \in [JobTasks -> [state : TaskStates, try : Nat]]
  BY <1>0, <1>2, OrderAfterEnd
<1>7. JobTypeOK'
  <2>1. Unclaimed \in Attempts
    BY DEF Unclaimed, Attempts
  <2>. QED BY <1>0, <1>1, <1>2, <1>5, <1>6, <2>1 DEF JobTypeOK
<1>8. AttemptKnown'
  BY <1>2 DEF AttemptKnown, Unclaimed
<1>9. GateKnown'
  <2>1. decision'.recorded # "none" => ti'["record"].state # "none" /\ attempt'.task # "record"
    <3>1. CASE t = "record"
      BY <3>1, <1>2
    <3>2. CASE t # "record"
      BY <3>2, <1>0, <1>1, <1>2 DEF GateKnown
    <3>. QED BY <3>1, <3>2
  <2>2. decision'.recorded = "reject" /\ ti'["record"].state \in TiDone => jobCell'.epoch = 2 \/ jobCell'.state = "rejected"
    <3>1. CASE t # "record"
      BY <3>1, <1>0, <1>1, <1>2, <1>5 DEF GateKnown
    <3>. QED BY <3>1
  <2>. QED BY <2>1, <2>2 DEF GateKnown
<1>10. ClaimsTrue'
  BY <1>0, <1>1, <1>2, <1>4, <1>5 DEF ClaimsTrue
<1>11. EndsTold'
  <2>1. TaskFailed' => TaskFailed
    BY <1>0, <1>1, <1>2 DEF TaskFailed
  <2>2. Told => Told'
    BY <1>1, <1>5, ToldStays
  <2>3. ti'[Reporter].state = "success" => Claim("success")' /\ CellOver'
    <3>1. CASE t = Reporter
      BY <3>1
    <3>2. CASE t # Reporter
      BY <3>2, <1>0, <1>1, <1>2, <1>4, <1>5 DEF EndsTold
    <3>. QED BY <3>1, <3>2
  <2>4. dagRun' = "open"
    BY <1>0 DEF EndsTold, Finals
  <2>. QED BY <1>0, <1>1, <1>2, <2>1, <2>2, <2>3, <2>4 DEF EndsTold
<1>. QED BY <1>6, <1>7, <1>8, <1>9, <1>10, <1>11 DEF JobInv

\* A step of the Cell alone.
LEMMA CellOnlyKeeps ==
  ASSUME JobInv, UNCHANGED <<autonomous, ti, attempt, debts, decision, shown, jobBox, dagRun, silent>>, mishaps' \in Nat,
         jobCell' \in [epoch : {1, 2}, state : CellLive \cup CellEnds, cleaned : BOOLEAN],
         jobCell'.epoch = 1 => Claim(jobCell'.state) /\ (jobCell'.cleaned => Claim("cleaned")),
         jobCell'.epoch = 2 => jobCell'.state = "queued" /\ ~jobCell'.cleaned,
         CellOver => CellOver',
         jobCell.epoch = 2 \/ jobCell.state = "rejected" => jobCell'.epoch = 2 \/ jobCell'.state = "rejected"
  PROVE  JobInv'
<1>0. JobTypeOK /\ InOrder /\ AttemptKnown /\ GateKnown /\ ClaimsTrue /\ EndsTold
  BY DEF JobInv
<1>1. TaskLine' = TaskLine /\ JobTasks' = JobTasks /\ Reporter' = Reporter /\ Attempts' = Attempts
  BY LineSteady DEF Attempts
<1>2. \A w : Claim(w) => Claim(w)'
  <2>1. Moved
    BY DEF Moved
  <2>2. Claim("cleaned") => jobBox' # "live"
    BY DEF Claim
  <2>. QED BY <1>0, <2>1, <2>2, ClaimsStay
<1>3. JobTypeOK'
  BY <1>0, <1>1 DEF JobTypeOK
<1>4. InOrder'
  BY <1>0, OrderSame
<1>5. AttemptKnown'
  BY <1>0, <1>1 DEF AttemptKnown, Reporting, Unclaimed
<1>6. GateKnown'
  BY <1>0, <1>1 DEF GateKnown
<1>7. ClaimsTrue'
  <2>1. Reporting' = Reporting
    BY DEF Reporting
  <2>. QED BY <1>0, <1>1, <1>2, <2>1 DEF ClaimsTrue
<1>8. EndsTold'
  <2>1. TaskFailed' = TaskFailed
    BY <1>1 DEF TaskFailed
  <2>2. Told => Told'
    BY <1>1, ToldStays
  <2>. QED BY <1>0, <1>1, <1>2, <2>1, <2>2 DEF EndsTold
<1>. QED BY <1>3, <1>4, <1>5, <1>6, <1>7, <1>8 DEF JobInv

-----------------------------------------------------------------------------
\* A report that fails, whatever the Cell made of it.
LEMMA ReportFailKeeps ==
  ASSUME JobInv, Reporting, NEW n \in {0, 1}, ReportFails(n), CellMoves,
         UNCHANGED <<autonomous, decision, shown, jobBox, dagRun>>
  PROVE  JobInv'
<1>1. attempt # Unclaimed /\ JobTypeOK /\ InOrder /\ AttemptKnown
  BY DEF JobInv, Reporting, Unclaimed
<1>2. /\ DebtsGrow /\ Raises(attempt.task) /\ mishaps' \in Nat /\ silent' \in BOOLEAN /\ (silent => silent')
      /\ silent' \/ debts'[attempt.task] # <<>>
  BY <1>1, ReportFailsGrows
<1>3. Fails
  BY <1>1, <1>2, RaisesFails
<1>4. jobBox' \in {"none", "live", "closed"}
  BY <1>1 DEF JobTypeOK
<1>. QED BY <1>1, <1>2, <1>3, <1>4, FailKeeps

\* A worker dies.
LEMMA DiesKeeps ==
  ASSUME JobInv, WorkerDies
  PROVE  JobInv'
<1>. DEFINE t == attempt.task
<1>1. /\ JobTypeOK /\ InOrder /\ AttemptKnown /\ attempt # Unclaimed /\ t \in JobTasks /\ ti[t].try >= 1 /\ ti[t].try \in Nat
  BY DEF JobInv, WorkerDies, AttemptKnown, InOrder, JobTypeOK
<1>2. Fails
  <2>1. attempt.phase = "body" /\ ti[t].try <= Retries(t) => t \in {"setup", "deliver", "teardown"}
    BY <1>1 DEF Retries
  <2>. QED BY <2>1 DEF WorkerDies, Fails
<1>3. CellMoves /\ silent' = TRUE /\ mishaps' \in Nat /\ UNCHANGED <<autonomous, debts, decision, shown, jobBox, dagRun>>
  BY <1>1 DEF WorkerDies, Mishap, CellMoves, JobTypeOK
<1>4. DebtsGrow /\ jobBox' \in {"none", "live", "closed"}
  BY <1>1, <1>3 DEF DebtsGrow, JobTypeOK
<1>. QED BY <1>1, <1>2, <1>3, <1>4, FailKeeps

\* A task reads the epoch of its Cell.
LEMMA ContextKeeps ==
  ASSUME JobInv, BuildContext
  PROVE  JobInv'
<1>1. /\ JobTypeOK /\ InOrder /\ AttemptKnown /\ ClaimsTrue /\ attempt.step = "ctx" /\ attempt # Unclaimed /\ attempt \in Attempts
      /\ UNCHANGED <<autonomous, debts, jobCell, decision, shown, jobBox, dagRun, silent>>
  BY DEF JobInv, BuildContext, Unclaimed, JobTypeOK
<1>2. CellMoves
  BY <1>1 DEF CellMoves
<1>3. CASE attempt' = [attempt EXCEPT !.step = "work"] /\ UNCHANGED <<ti, mishaps>>
  <2>1. /\ attempt' \in Attempts /\ attempt'.task = attempt.task /\ attempt'.phase = attempt.phase /\ attempt'.want = attempt.want
        /\ attempt'.step = "work" /\ attempt'.todo = attempt.todo
    BY <1>1, <1>3 DEF Attempts
  <2>2. \A i \in DOMAIN attempt'.todo : Claim(attempt'.todo[i])
    BY <1>1, <2>1 DEF ClaimsTrue
  <2>. QED BY <1>1, <1>2, <1>3, <2>1, <2>2, GoOnKeeps
<1>4. CASE attempt.task # "approve" /\ Raises(attempt.task) /\ (UNCHANGED mishaps \/ Mishap)
  <2>1. Fails /\ (attempt.phase = "body" /\ attempt.task \notin {"approve", "teardown"} => ~Ended(attempt.task, "failed"))
    BY <1>1, <1>4, RaisesFails
  <2>2. attempt.phase # "callback"
    BY <1>1 DEF AttemptKnown, Reporting, Unclaimed
  <2>3. DebtsGrow /\ jobBox' \in {"none", "live", "closed"} /\ mishaps' \in Nat /\ silent' \in BOOLEAN /\ (silent => silent')
    BY <1>1, <1>4 DEF DebtsGrow, JobTypeOK, Mishap
  <2>. QED BY <1>1, <1>2, <1>4, <2>1, <2>2, <2>3, FailKeeps
<1>. QED BY <1>3, <1>4 DEF BuildContext

\* The work of a task raises.
LEMMA WorkRaisesKeeps ==
  ASSUME JobInv, WorkRaises
  PROVE  JobInv'
<1>. DEFINE t == attempt.task
            refused == (t = "deliver" /\ ~MayPublish) \/ (t = "merge" /\ ~MayMerge)
<1>1. /\ JobTypeOK /\ InOrder /\ AttemptKnown /\ attempt.step = "work" /\ attempt # Unclaimed /\ Raises(t)
      /\ UNCHANGED <<autonomous, debts, jobCell, decision, shown, dagRun>>
  BY DEF JobInv, WorkRaises, Unclaimed
<1>2. IF refused THEN UNCHANGED <<mishaps, silent>> ELSE Mishap /\ silent' = (silent \/ t = "approve")
  BY DEF WorkRaises
<1>3. jobBox' = jobBox \/ (t = "setup" /\ attempt.phase = "body" /\ jobBox' = "live")
  BY DEF WorkRaises
<1>4. Fails /\ (attempt.phase = "body" /\ t \notin {"approve", "teardown"} => ~Ended(t, "failed"))
  BY <1>1, RaisesFails
<1>5. attempt.phase # "callback"
  BY <1>1 DEF AttemptKnown, Reporting, Unclaimed
<1>6. mishaps' \in Nat /\ silent' \in BOOLEAN /\ (silent => silent') /\ (t = "approve" => silent')
  <2>1. silent \in BOOLEAN /\ mishaps \in Nat
    BY <1>1 DEF JobTypeOK
  <2>2. CASE refused
    BY <2>1, <2>2, <1>2
  <2>3. CASE ~refused
    <3>1. Mishap /\ silent' = (silent \/ t = "approve")
      BY <2>3, <1>2
    <3>2. mishaps' \in Nat
      BY <2>1, <3>1 DEF Mishap
    <3>3. silent' \in BOOLEAN /\ (silent => silent') /\ (t = "approve" => silent')
      BY <3>1, Zenon
    <3>. QED BY <3>2, <3>3
  <2>. QED BY <2>2, <2>3
<1>7. DebtsGrow /\ CellMoves /\ jobBox' \in {"none", "live", "closed"}
  BY <1>1, <1>3 DEF DebtsGrow, CellMoves, JobTypeOK
<1>. QED BY <1>1, <1>3, <1>4, <1>5, <1>6, <1>7, FailKeeps

\* The debts are read, inspected and replayed.
LEMMA ReadKeeps ==
  ASSUME JobInv, ReadDebts
  PROVE  JobInv'
<1>. DEFINE owed == FlattenSeq([i \in DOMAIN TaskLine |-> debts[TaskLine[i]]])
<1>1. /\ JobTypeOK /\ ClaimsTrue /\ attempt.step = "settle" /\ attempt # Unclaimed /\ attempt \in Attempts /\ Reporting
      /\ UNCHANGED <<autonomous, ti, debts, jobCell, decision, shown, jobBox, dagRun, mishaps, silent>>
      /\ attempt' = [attempt EXCEPT !.step = "inspect", !.todo = owed]
  BY DEF JobInv, ReadDebts, Unclaimed, JobTypeOK, Reporting
<1>2. owed \in Seq(Reports) /\ \A k \in DOMAIN owed : Claim(owed[k])
  BY <1>1, OwedIsTrue
<1>. HIDE DEF owed
<1>3. /\ attempt' \in Attempts /\ attempt'.task = attempt.task /\ attempt'.phase = attempt.phase /\ attempt'.want = attempt.want
      /\ attempt'.step = "inspect" /\ attempt'.todo = owed
  BY <1>1, <1>2 DEF Attempts
<1>4. CellMoves
  BY <1>1 DEF CellMoves
<1>. QED BY <1>1, <1>2, <1>3, <1>4, GoOnKeeps

\* The rest of a row of true reports is one.
LEMMA TailIsTrue ==
  ASSUME NEW q \in Seq(Reports), q # <<>>, \A i \in DOMAIN q : Claim(q[i])
  PROVE  /\ Tail(q) \in Seq(Reports) /\ \A i \in DOMAIN Tail(q) : Claim(Tail(q)[i])
         /\ Head(q) \in Reports /\ Claim(Head(q))
<1>1. DOMAIN q = 1 .. Len(q) /\ Len(q) \in Nat /\ 1 \in DOMAIN q /\ Head(q) = q[1] /\ q[1] \in Reports
  OBVIOUS
<1>2. Tail(q) \in Seq(Reports) /\ DOMAIN Tail(q) = 1 .. Len(q) - 1 /\ \A i \in 1 .. Len(q) - 1 : Tail(q)[i] = q[i + 1]
  OBVIOUS
<1>3. \A i \in 1 .. Len(q) - 1 : i + 1 \in 1 .. Len(q)
  BY <1>1
<1>. QED BY <1>1, <1>2, <1>3

\* Each debt is inspected.
LEMMA InspectKeeps ==
  ASSUME JobInv, InspectDebt
  PROVE  JobInv'
<1>1. /\ JobTypeOK /\ ClaimsTrue /\ attempt.step = "inspect" /\ attempt # Unclaimed /\ attempt \in Attempts /\ Reporting
      /\ attempt.todo \in Seq(Reports) /\ attempt.todo # <<>>
      /\ UNCHANGED <<autonomous, jobCell, decision, shown, jobBox, dagRun>>
  BY DEF JobInv, InspectDebt, Unclaimed, JobTypeOK, Reporting, Attempts
<1>2. \A i \in DOMAIN attempt.todo : Claim(attempt.todo[i])
  BY <1>1 DEF ClaimsTrue
<1>3. CellMoves
  BY <1>1 DEF CellMoves
<1>4. CASE attempt' = [attempt EXCEPT !.step = "replay"] /\ UNCHANGED <<ti, debts, mishaps, silent>>
  <2>1. /\ attempt' \in Attempts /\ attempt'.task = attempt.task /\ attempt'.phase = attempt.phase /\ attempt'.want = attempt.want
        /\ attempt'.step = "replay" /\ attempt'.todo = attempt.todo
    BY <1>1, <1>4 DEF Attempts
  <2>. QED BY <1>1, <1>2, <1>3, <1>4, <2>1, GoOnKeeps
<1>5. CASE attempt' = [attempt EXCEPT !.todo = Tail(@)] /\ UNCHANGED <<ti, debts, mishaps, silent>>
  <2>0. Tail(attempt.todo) \in Seq(Reports) /\ \A i \in DOMAIN Tail(attempt.todo) : Claim(Tail(attempt.todo)[i])
    BY <1>1, <1>2, TailIsTrue
  <2>1. /\ attempt' \in Attempts /\ attempt'.task = attempt.task /\ attempt'.phase = attempt.phase /\ attempt'.want = attempt.want
        /\ attempt'.step = "inspect" /\ attempt'.todo = Tail(attempt.todo)
    BY <1>1, <1>5, <2>0 DEF Attempts
  <2>. QED BY <1>1, <1>3, <1>5, <2>0, <2>1, GoOnKeeps
<1>6. CASE ReportFails(1)
  BY <1>1, <1>3, <1>6, ReportFailKeeps
<1>. QED BY <1>4, <1>5, <1>6 DEF InspectDebt

\* A debt is replayed.
LEMMA ReplayKeeps ==
  ASSUME JobInv, ReplayDebt
  PROVE  JobInv'
<1>. DEFINE w == Head(attempt.todo)
            answered == attempt' = [attempt EXCEPT !.step = "inspect", !.todo = Tail(@)] /\ UNCHANGED ti
<1>1. /\ JobTypeOK /\ ClaimsTrue /\ AttemptKnown /\ attempt.step = "replay" /\ attempt # Unclaimed /\ attempt \in Attempts /\ Reporting
      /\ attempt.todo \in Seq(Reports)
      /\ UNCHANGED <<autonomous, decision, shown, jobBox, dagRun>>
  BY DEF JobInv, ReplayDebt, Unclaimed, JobTypeOK, Reporting, Attempts
<1>2. attempt.todo # <<>> /\ \A i \in DOMAIN attempt.todo : Claim(attempt.todo[i])
  BY <1>1 DEF ClaimsTrue, AttemptKnown
<1>3. /\ Tail(attempt.todo) \in Seq(Reports) /\ \A i \in DOMAIN Tail(attempt.todo) : Claim(Tail(attempt.todo)[i])
      /\ w \in Reports /\ Claim(w)
  BY <1>1, <1>2, TailIsTrue
<1>4. \/ Accepts(w) /\ Transitioned(w) /\ answered /\ UNCHANGED <<debts, mishaps, silent>>
      \/ Accepts(w) /\ Transitioned(w) /\ ReportFails(1)
      \/ ~Accepts(w) /\ ReportFails(0) /\ UNCHANGED jobCell
      \/ ReportFails(1) /\ UNCHANGED jobCell
  BY DEF ReplayDebt, Posts
<1>. HIDE DEF w
<1>5. CellMoves
  BY <1>3, <1>4 DEF CellMoves
<1>6. CASE answered /\ UNCHANGED <<debts, mishaps, silent>>
  <2>1. /\ attempt' \in Attempts /\ attempt'.task = attempt.task /\ attempt'.phase = attempt.phase /\ attempt'.want = attempt.want
        /\ attempt'.step = "inspect" /\ attempt'.todo = Tail(attempt.todo)
    BY <1>1, <1>3, <1>6 DEF Attempts
  <2>. QED BY <1>1, <1>3, <1>5, <1>6, <2>1, GoOnKeeps
<1>7. CASE ReportFails(0) \/ ReportFails(1)
  BY <1>1, <1>5, <1>7, ReportFailKeeps
<1>. QED BY <1>4, <1>6, <1>7

\* The report is posted.
LEMMA PostKeeps ==
  ASSUME JobInv, PostReport
  PROVE  JobInv'
<1>. DEFINE t == attempt.task
            w == attempt.want
            answered == IF attempt.phase # "body" THEN CallbackEnds(t)
                        ELSE Ended(t, IF w = "rejected" THEN "skipped" ELSE "success")
<1>1. /\ JobTypeOK /\ InOrder /\ ClaimsTrue /\ GateKnown /\ AttemptKnown /\ attempt.step = "inspect" /\ attempt # Unclaimed
      /\ attempt \in Attempts /\ Reporting
      /\ UNCHANGED <<autonomous, decision, shown, jobBox, dagRun>>
  BY DEF JobInv, PostReport, Unclaimed, JobTypeOK, Reporting
<1>2. w \in Reports /\ Claim(w) /\ t \in JobTasks /\ ti[t].state = "running"
  <2>1. w # "none"
    BY <1>1 DEF AttemptKnown, Attempts
  <2>. QED BY <1>1, <2>1 DEF AttemptKnown, Attempts, ClaimsTrue
<1>3. \/ Accepts(w) /\ Transitioned(w) /\ answered /\ UNCHANGED <<debts, mishaps, silent>>
      \/ Accepts(w) /\ Transitioned(w) /\ ReportFails(1)
      \/ ~Accepts(w) /\ ReportFails(0) /\ UNCHANGED jobCell
      \/ ReportFails(1) /\ UNCHANGED jobCell
  BY DEF PostReport, Posts
<1>4. CellMoves
  BY <1>2, <1>3 DEF CellMoves
<1>5. CASE ReportFails(0) \/ ReportFails(1)
  BY <1>1, <1>4, <1>5, ReportFailKeeps
<1>6. CASE attempt.phase # "body" /\ Accepts(w) /\ Transitioned(w) /\ CallbackEnds(t) /\ UNCHANGED <<debts, mishaps, silent>>
  <2>1. Fails
    BY <1>6 DEF CallbackEnds, Fails
  <2>2. attempt.phase = "callback" => CellOver'
    <3>. SUFFICES ASSUME attempt.phase = "callback" PROVE CellOver'
      OBVIOUS
    <3>1. w = "failed"
      BY <1>1 DEF AttemptKnown
    <3>2. jobCell' = [jobCell EXCEPT !.state = "failed"]
      BY <3>1, <1>6 DEF Transitioned
    <3>. QED BY <3>2, <1>1 DEF CellOver, CellEnds, JobTypeOK
  <2>3. DebtsGrow /\ jobBox' \in {"none", "live", "closed"} /\ mishaps' \in Nat /\ silent' \in BOOLEAN
    BY <1>1, <1>6 DEF DebtsGrow, JobTypeOK
  <2>. QED BY <1>1, <1>4, <1>6, <2>1, <2>2, <2>3, FailKeeps
<1>7. CASE attempt.phase = "body" /\ Accepts(w) /\ Transitioned(w) /\ UNCHANGED <<debts, mishaps, silent>>
           /\ Ended(t, IF w = "rejected" THEN "skipped" ELSE "success")
  <2>. DEFINE s == IF w = "rejected" THEN "skipped" ELSE "success"
  <2>1. \/ t = "setup" /\ w = "running"
        \/ t = Reporter /\ w = "success"
        \/ t = "record" /\ w = "rejected"
        \/ t = "teardown" /\ w = "cleaned"
    BY <1>1, <1>7 DEF AttemptKnown
  <2>2. Reporter \in {"deliver", "merge"}
    BY DEF Reporter
  <2>3. s \in {"success", "skipped"} /\ (s = "skipped" => t = "record") /\ Ended(t, s)
    BY <1>7, <2>1
  <2>4. w \in {"success", "rejected"} => jobCell'.state = w
    BY <1>1, <1>7 DEF Transitioned, JobTypeOK
  <2>5. t = "record" => jobCell'.state = "rejected"
    BY <2>1, <2>2, <2>4
  <2>6. t = Reporter => Claim("success")' /\ CellOver'
    <3>. SUFFICES ASSUME t = Reporter PROVE Claim("success")' /\ CellOver'
      OBVIOUS
    <3>1. w = "success"
      BY <2>1, <2>2
    <3>2. Claim("success")'
      BY <3>1, <1>1, <1>2 DEF Claim
    <3>. QED BY <3>1, <3>2, <2>4 DEF CellOver, CellEnds
  <2>7. Claim("cleaned") => jobBox' # "live"
    BY <1>1 DEF Claim
  <2>8. /\ decision' \in [answer : Replies, recorded : Replies] /\ (autonomous => decision'.answer # "reject")
        /\ shown' \in {"none", "plain"} \cup (IF autonomous THEN {"merged"} ELSE {}) /\ jobBox' \in {"none", "live", "closed"}
    BY <1>1 DEF JobTypeOK, GateKnown
  <2>. HIDE DEF s
  <2>. QED BY <1>1, <1>4, <1>7, <2>3, <2>5, <2>6, <2>7, <2>8, DoneKeeps
<1>. QED BY <1>3, <1>5, <1>6, <1>7

\* The work of a task is done.
LEMMA WorksKeeps ==
  ASSUME JobInv, NEW wanted \in {"approve", "reject"}, TaskWorks(wanted)
  PROVE  JobInv'
<1>. DEFINE t == attempt.task
            want == IF attempt.phase = "closing" THEN "cleaned" ELSE ReportOf(t)
<1>0. /\ JobTypeOK /\ InOrder /\ AttemptKnown /\ GateKnown /\ ClaimsTrue /\ EndsTold
      /\ attempt.step = "work" /\ attempt # Unclaimed /\ attempt \in Attempts /\ ~Reporting
      /\ UNCHANGED <<autonomous, debts, jobCell, dagRun, mishaps, silent>>
  BY DEF JobInv, TaskWorks, Unclaimed, Reporting, JobTypeOK
<1>1. /\ t \in JobTasks /\ ti[t].state = "running" /\ attempt.phase \in {"body", "closing"}
      /\ (attempt.phase = "closing" => t = "setup")
  BY <1>0 DEF AttemptKnown, Attempts
<1>2. /\ autonomous \in BOOLEAN /\ TaskLine' = TaskLine /\ JobTasks' = JobTasks /\ Reporter' = Reporter /\ Attempts' = Attempts
      /\ "record" \in JobTasks /\ Reporter \in JobTasks /\ "setup" \in JobTasks
      /\ (t = "merge" => autonomous) /\ (t = "approve" => ~autonomous)
  BY <1>0, <1>1, LineSteady, LineFacts DEF JobTypeOK, Attempts
<1>3. decision' = IF t = "approve" THEN [decision EXCEPT !.answer = wanted]
                  ELSE IF t = "record"
                       THEN [answer |-> IF autonomous THEN "approve" ELSE decision.answer,
                             recorded |-> IF autonomous THEN "approve" ELSE decision.answer]
                  ELSE decision
  BY DEF TaskWorks
<1>4. shown' = IF t = "deliver" /\ shown = "none"
               THEN IF decision.recorded = "reject" THEN "rejected" ELSE "plain"
               ELSE IF t = "merge" THEN "merged" ELSE shown
  BY DEF TaskWorks
<1>5. jobBox' = IF t = "setup" /\ attempt.phase = "body" THEN "live"
                ELSE IF t = "teardown" \/ attempt.phase = "closing" THEN "closed" ELSE jobBox
  BY DEF TaskWorks
<1>6. t = "deliver" /\ shown = "none" => decision.recorded # "reject"
  <2>. SUFFICES ASSUME t = "deliver", shown = "none" PROVE decision.recorded # "reject"
    OBVIOUS
  <2>1. jobCell.epoch = 1 /\ jobCell.state \in CellLive
    BY DEF TaskWorks, MayPublish
  <2>2. ti["record"].state \in TiDone
    BY <1>0, <1>1, OrderFacts DEF TiLive
  <2>. QED BY <2>1, <2>2, <1>0 DEF GateKnown, CellLive
<1>7. t = "record" => decision.recorded = "none"
  BY <1>0 DEF GateKnown
<1>8. decision \in [answer : Replies, recorded : Replies]
  BY <1>0 DEF JobTypeOK
<1>9. /\ decision' \in [answer : Replies, recorded : Replies] /\ (autonomous => decision'.answer # "reject")
      /\ (decision.recorded = "reject" => decision'.recorded = "reject")
      /\ (t = "record" \/ decision'.recorded = decision.recorded)
      /\ (t = "record" => decision'.recorded = IF autonomous THEN "approve" ELSE decision.answer)
  <2>1. CASE t = "approve"
    <3>1. decision' = [decision EXCEPT !.answer = wanted]
      BY <2>1, <1>3
    <3>2. decision' \in [answer : Replies, recorded : Replies] /\ decision'.recorded = decision.recorded
      BY <3>1, <1>8 DEF Replies
    <3>. QED BY <2>1, <3>2, <1>2
  <2>2. CASE t = "record"
    <3>1. decision' = [answer |-> IF autonomous THEN "approve" ELSE decision.answer,
                       recorded |-> IF autonomous THEN "approve" ELSE decision.answer]
      BY <2>2, <1>3
    <3>2. decision.answer \in Replies
      BY <1>8
    <3>. QED BY <2>2, <3>1, <3>2, <1>7 DEF Replies
  <2>3. CASE t \notin {"approve", "record"}
    BY <2>3, <1>0, <1>3, <1>8 DEF GateKnown
  <2>. QED BY <2>1, <2>2, <2>3
<1>10. shown' \in {"none", "plain"} \cup (IF autonomous THEN {"merged"} ELSE {})
  BY <1>0, <1>2, <1>4, <1>6 DEF JobTypeOK
<1>11. Claim("success") => shown' = shown
  BY <1>2, <1>4 DEF Claim
<1>12. jobBox' \in {"none", "live", "closed"} /\ (Claim("cleaned") => jobBox' # "live")
  <2>1. t = "setup" /\ attempt.phase = "body" => ~Claim("cleaned")
    BY <1>1 DEF Claim, Finals
  <2>2. jobBox \in {"none", "live", "closed"} /\ (Claim("cleaned") => jobBox # "live")
    BY <1>0 DEF Claim, JobTypeOK
  <2>. QED BY <2>1, <2>2, <1>5
<1>13. t = Reporter => shown' = IF autonomous THEN "merged" ELSE "plain"
  BY <1>0, <1>2, <1>4, <1>6 DEF Reporter, JobTypeOK
<1>14. CASE want = "none"
  <2>1. attempt.phase = "body" /\ ReportOf(t) = "none" /\ Ended(t, "success")
    BY <1>1, <1>14 DEF TaskWorks
  <2>2. t # Reporter
    BY <2>1 DEF Reporter, ReportOf
  <2>3. t = "record" => decision'.recorded # "reject"
    BY <2>1, <1>9 DEF ReportOf
  <2>4. CellMoves
    BY <1>0 DEF CellMoves
  <2>. QED BY <1>0, <1>9, <1>10, <1>11, <1>12, <2>1, <2>2, <2>3, <2>4, DoneKeeps
<1>15. CASE want # "none"
  <2>0. attempt' = [attempt EXCEPT !.want = want, !.step = "settle"] /\ ti' = ti
    BY <1>15 DEF TaskWorks
  <2>1. /\ want \in Reports
        /\ attempt.phase = "closing" => want = "cleaned" /\ t = "setup"
        /\ attempt.phase = "body" =>
             \/ t = "setup" /\ want = "running"
             \/ t = Reporter /\ want = "success"
             \/ t = "record" /\ want = "rejected" /\ decision.answer = "reject"
             \/ t = "teardown" /\ want = "cleaned"
    BY <1>1, <1>15 DEF ReportOf, Reporter, Reports
  <2>. HIDE DEF want
  <2>2. /\ attempt' \in Attempts /\ attempt'.task = t /\ attempt'.phase = attempt.phase /\ attempt'.want = want
        /\ attempt'.step = "settle" /\ attempt'.todo = attempt.todo /\ Reporting'
    BY <1>0, <2>0, <2>1 DEF Attempts, Reporting
  <2>3. \A w : Claim(w) => Claim(w)'
    <3>1. Moved
      BY <2>0, <2>2 DEF Moved
    <3>. QED BY <1>0, <1>9, <1>11, <1>12, <3>1, ClaimsStay
  <2>4. Claim(attempt.want)'
    <3>1. CASE want = "success"
      <4>1. t = Reporter
        BY <3>1, <1>1, <2>1
      <4>. QED BY <3>1, <4>1, <1>0, <1>13, <2>2 DEF Claim
    <3>2. CASE want = "rejected"
      <4>1. t = "record" /\ decision.answer = "reject"
        BY <3>2, <1>1, <2>1
      <4>2. decision'.recorded = "reject"
        BY <4>1, <1>0, <1>9 DEF GateKnown
      <4>. QED BY <3>2, <4>2, <2>2 DEF Claim
    <3>3. CASE want = "cleaned"
      <4>1. jobBox' # "live"
        BY <3>3, <1>1, <1>5, <2>1
      <4>2. attempt'.phase = "closing" \/ ti'["setup"].state \in Finals
        <5>1. CASE attempt.phase = "closing"
          BY <5>1, <2>2
        <5>2. CASE attempt.phase = "body"
          <6>1. t = "teardown" /\ t # "setup"
            BY <5>2, <3>3, <2>1
          <6>2. ti["setup"].state \notin TiLive \cup {"none"}
            BY <6>1, <1>0, <1>1, OrderFacts
          <6>3. ti["setup"].state \in TaskStates
            BY <1>0, <1>2 DEF JobTypeOK
          <6>. QED BY <6>2, <6>3, <2>0 DEF TaskStates, TiLive
        <5>. QED BY <5>1, <5>2, <1>1
      <4>. QED BY <3>3, <4>1, <4>2, <2>2 DEF Claim
    <3>4. CASE want = "running"
      BY <3>4, <2>2 DEF Claim
    <3>5. CASE want = "failed"
      BY <3>5, <1>1, <2>1
    <3>. QED BY <3>1, <3>2, <3>3, <3>4, <3>5, <2>1 DEF Reports
  <2>5. CellMoves
    BY <1>0 DEF CellMoves
  <2>6. /\ jobCell' \in [epoch : {1, 2}, state : CellLive \cup CellEnds, cleaned : BOOLEAN]
        /\ jobCell'.epoch = 1 => Claim(jobCell.state)' /\ (jobCell'.cleaned => Claim("cleaned")')
        /\ jobCell'.epoch = 2 => jobCell'.state = "queued" /\ ~jobCell'.cleaned
        /\ CellOver => CellOver'
    BY <1>0, <2>3, <2>5, CellKeeps
  <2>7. JobTypeOK'
    BY <1>0, <1>2, <1>9, <1>10, <1>12, <2>0, <2>2, <2>6 DEF JobTypeOK
  <2>8. InOrder'
    BY <1>0, <2>0, OrderSame
  <2>9. AttemptKnown'
    BY <1>1, <1>2, <2>0, <2>1, <2>2 DEF AttemptKnown
  <2>10. GateKnown'
    <3>1. decision'.recorded # "none" => ti'["record"].state # "none"
      BY <1>0, <1>1, <1>9, <2>0 DEF GateKnown
    <3>2. decision'.recorded = "reject" /\ ti'["record"].state \in TiDone => jobCell'.epoch = 2 \/ jobCell'.state = "rejected"
      <4>1. t = "record" => ti'["record"].state \notin TiDone
        BY <1>1, <2>0 DEF TiDone
      <4>. QED BY <4>1, <1>0, <1>9, <2>0 DEF GateKnown
    <3>. QED BY <3>1, <3>2, <1>0, <1>9, <2>2 DEF GateKnown
  <2>11. ClaimsTrue'
    BY <1>0, <1>2, <2>2, <2>3, <2>4, <2>6 DEF ClaimsTrue
  <2>12. EndsTold'
    <3>1. TaskFailed' = TaskFailed
      BY <1>2, <2>0 DEF TaskFailed
    <3>2. Told => Told'
      BY <1>0, <1>2, <2>6, ToldStays
    <3>. QED BY <1>0, <1>2, <2>0, <2>2, <2>3, <2>6, <3>1, <3>2 DEF EndsTold
  <2>. QED BY <2>7, <2>8, <2>9, <2>10, <2>11, <2>12 DEF JobInv
<1>. QED BY <1>14, <1>15

\* The attempt of a task that starts.
LEMMA Started ==
  ASSUME NEW t \in JobTasks, NEW a, a = [Unclaimed EXCEPT !.task = t, !.step = "ctx"]
  PROVE  /\ a \in Attempts /\ Unclaimed \in Attempts
         /\ a.task = t /\ a.step = "ctx" /\ a.phase = "body" /\ a.todo = <<>>
         /\ Unclaimed.task = "none" /\ Unclaimed.step = "idle" /\ Unclaimed.phase = "body" /\ Unclaimed.todo = <<>>
<1>1. a = [task |-> t, step |-> "ctx", phase |-> "body", want |-> "none", todo |-> <<>>]
  BY DEF Unclaimed
<1>2. <<>> \in Seq(Reports)
  OBVIOUS
<1>. QED BY <1>1, <1>2 DEF Attempts, Unclaimed

\* A task is scheduled.
LEMMA ScheduleKeeps ==
  ASSUME JobInv, NEW i \in DOMAIN TaskLine, ScheduleTask(i)
  PROVE  JobInv'
<1>. DEFINE t == TaskLine[i]
<1>0. /\ JobTypeOK /\ InOrder /\ AttemptKnown /\ GateKnown /\ ClaimsTrue /\ EndsTold /\ attempt = Unclaimed /\ dagRun = "open"
      /\ UNCHANGED <<autonomous, debts, jobCell, decision, shown, jobBox, dagRun, mishaps, silent>>
      /\ ti \in [JobTasks -> [state : TaskStates, try : Nat]]
  BY DEF JobInv, ScheduleTask, JobTypeOK
<1>1. /\ TaskLine' = TaskLine /\ JobTasks' = JobTasks /\ Reporter' = Reporter /\ Attempts' = Attempts
      /\ "record" \in JobTasks /\ Reporter \in JobTasks /\ t \in JobTasks
  BY <1>0, LineSteady, LineFacts DEF JobTypeOK, Attempts
<1>2. /\ ti[t].state = "none" /\ \A u \in JobTasks \ {t} : ti'[u] = ti[u]
      /\ ti'[t].state \in {"running", "skipped", "upstream_failed"}
      /\ attempt' = IF ti'[t].state = "running" THEN [Unclaimed EXCEPT !.task = t, !.step = "ctx"] ELSE Unclaimed
  <2>. DEFINE v == IF i = 1 THEN "running" ELSE Triggered(t, ti[TaskLine[i - 1]].state)
              n == IF v = "running" THEN 1 ELSE 0
  <2>1. /\ ti[t].state = "none" /\ ti' = [ti EXCEPT ![t] = [state |-> v, try |-> n]]
        /\ attempt' = IF v = "running" THEN [Unclaimed EXCEPT !.task = t, !.step = "ctx"] ELSE Unclaimed
    BY DEF ScheduleTask
  <2>2. v \in {"running", "skipped", "upstream_failed"}
    BY DEF Triggered
  <2>. HIDE DEF v, n
  <2>. QED BY <1>0, <1>1, <2>1, <2>2
<1>3. InOrder' /\ ti' \in [JobTasks -> [state : TaskStates, try : Nat]]
  BY <1>0, OrderAfterSchedule
<1>. HIDE DEF t
<1>4. /\ attempt' \in Attempts /\ attempt'.phase = "body" /\ attempt.phase = "body" /\ ~Reporting' /\ attempt'.todo = <<>>
      /\ attempt'.task \in {"none", t}
      /\ (attempt' = Unclaimed \/ (ti'[t].state = "running" /\ attempt'.task = t /\ attempt'.step = "ctx"))
  <2>1. CASE attempt' = Unclaimed
    BY <2>1, <1>0, <1>1, Started DEF Reporting
  <2>2. CASE attempt' = [Unclaimed EXCEPT !.task = t, !.step = "ctx"] /\ ti'[t].state = "running"
    BY <2>2, <1>0, <1>1, Started DEF Reporting
  <2>. QED BY <2>1, <2>2, <1>2
<1>5. \A w : Claim(w) => Claim(w)'
  <2>1. Moved
    BY <1>1, <1>2, <1>4 DEF Moved, Finals
  <2>2. Claim("cleaned") => jobBox' # "live"
    BY <1>0 DEF Claim
  <2>. QED BY <1>0, <2>1, <2>2, ClaimsStay
<1>6. JobTypeOK'
  BY <1>0, <1>1, <1>3, <1>4 DEF JobTypeOK
<1>7. AttemptKnown'
  <2>1. CASE attempt' = Unclaimed
    BY <2>1 DEF AttemptKnown, Unclaimed
  <2>2. CASE ti'[t].state = "running" /\ attempt'.task = t /\ attempt'.step = "ctx"
    BY <2>2, <1>1, <1>4 DEF AttemptKnown
  <2>. QED BY <1>4, <2>1, <2>2
<1>8. GateKnown'
  <2>1. t = "record" => decision.recorded = "none"
    BY <1>0, <1>2 DEF GateKnown
  <2>2. decision.recorded # "none" => ti'["record"] = ti["record"] /\ attempt'.task # "record"
    BY <2>1, <1>1, <1>2, <1>4
  <2>. QED BY <2>2, <1>0, <1>1 DEF GateKnown
<1>9. ClaimsTrue'
  BY <1>0, <1>1, <1>4, <1>5 DEF ClaimsTrue
<1>10. EndsTold'
  <2>1. TaskFailed' => TaskFailed
    BY <1>1, <1>2 DEF TaskFailed
  <2>2. Told => Told'
    BY <1>0, <1>1, ToldStays DEF CellOver
  <2>3. ti'[Reporter].state = "success" => ti[Reporter].state = "success"
    BY <1>1, <1>2
  <2>4. CellOver => CellOver'
    BY <1>0 DEF CellOver
  <2>. QED BY <1>0, <1>1, <1>4, <1>5, <2>1, <2>2, <2>3, <2>4 DEF EndsTold
<1>. QED BY <1>3, <1>6, <1>7, <1>8, <1>9, <1>10 DEF JobInv

\* A task is tried again.
LEMMA RetryKeeps ==
  ASSUME JobInv, NEW t \in JobTasks, RetryTask(t)
  PROVE  JobInv'
<1>0. /\ JobTypeOK /\ InOrder /\ AttemptKnown /\ GateKnown /\ ClaimsTrue /\ EndsTold
      /\ UNCHANGED <<autonomous, jobCell, decision, shown, jobBox, dagRun, mishaps, silent>>
      /\ ti \in [JobTasks -> [state : TaskStates, try : Nat]] /\ debts \in [JobTasks -> Seq(Reports)]
  BY DEF JobInv, RetryTask, JobTypeOK
<1>1. /\ TaskLine' = TaskLine /\ JobTasks' = JobTasks /\ Reporter' = Reporter /\ Attempts' = Attempts
      /\ "record" \in JobTasks /\ Reporter \in JobTasks
  BY <1>0, LineSteady, LineFacts DEF JobTypeOK, Attempts
<1>2. /\ ti[t].state = "up_for_retry" /\ t \in {"setup", "deliver", "teardown"}
      /\ ti'[t].state = "running" /\ \A u \in JobTasks \ {t} : ti'[u] = ti[u]
      /\ attempt' = [Unclaimed EXCEPT !.task = t, !.step = "ctx"]
  BY <1>0 DEF RetryTask, InOrder
<1>3. attempt = Unclaimed
  <2>1. \A u \in JobTasks : ti[u].state # "running"
    BY <1>0, <1>2, OrderFacts DEF TiLive, Finals
  <2>. QED BY <2>1, <1>0 DEF AttemptKnown
<1>4. /\ attempt' \in Attempts /\ attempt'.phase = "body" /\ attempt.phase = "body" /\ ~Reporting' /\ attempt'.todo = <<>>
      /\ attempt'.task = t /\ attempt'.step = "ctx"
  BY <1>2, <1>3, Started DEF Reporting
<1>5. \A w : Claim(w) => Claim(w)'
  <2>1. Moved
    BY <1>2, <1>4 DEF Moved, Finals
  <2>2. Claim("cleaned") => jobBox' # "live"
    BY <1>0 DEF Claim
  <2>. QED BY <1>0, <2>1, <2>2, ClaimsStay
<1>6. InOrder' /\ ti' \in [JobTasks -> [state : TaskStates, try : Nat]]
  BY <1>0, OrderAfterRetry
<1>7. debts' \in [JobTasks -> Seq(Reports)] /\ \A u \in JobTasks : debts'[u] = debts[u] \/ (u = t /\ debts'[u] = <<>>)
  <2>1. debts' = debts \/ debts' = [debts EXCEPT ![t] = <<>>]
    BY DEF RetryTask
  <2>2. <<>> \in Seq(Reports)
    OBVIOUS
  <2>. QED BY <2>1, <2>2, <1>0
<1>8. JobTypeOK'
  BY <1>0, <1>1, <1>4, <1>6, <1>7 DEF JobTypeOK
<1>9. AttemptKnown'
  BY <1>1, <1>2, <1>4 DEF AttemptKnown
<1>10. GateKnown'
  BY <1>0, <1>1, <1>2, <1>4 DEF GateKnown
<1>11. ClaimsTrue'
  <2>1. \A u \in JobTasks : \A i \in DOMAIN debts'[u] : Claim(debts[u][i])'
    BY <1>0, <1>5, <1>7 DEF ClaimsTrue
  <2>. QED BY <1>0, <1>1, <1>4, <1>5, <2>1 DEF ClaimsTrue
<1>12. EndsTold'
  <2>1. TaskFailed' => TaskFailed
    BY <1>1, <1>2 DEF TaskFailed
  <2>2. TaskFailed => t = "teardown"
    BY <1>0, <1>2, OrderFacts DEF TaskFailed, TiLive, TiDone
  <2>3. TaskFailed => Told'
    <3>. SUFFICES ASSUME TaskFailed PROVE Told'
      OBVIOUS
    <3>1. Told
      BY <1>0 DEF EndsTold
    <3>2. \A u \in JobTasks \ {"teardown"} : debts'[u] = debts[u]
      BY <2>2, <1>7
    <3>3. CellOver' = CellOver
      BY <1>0 DEF CellOver
    <3>. QED BY <3>1, <3>2, <3>3, <1>0, <1>1 DEF Told
  <2>4. ti'[Reporter].state = "success" => ti[Reporter].state = "success"
    BY <1>1, <1>2
  <2>5. CellOver => CellOver'
    BY <1>0 DEF CellOver
  <2>6. dagRun' = "open"
    BY <1>0, <1>2 DEF EndsTold, Finals
  <2>. QED BY <1>0, <1>1, <1>4, <1>5, <2>1, <2>3, <2>4, <2>5, <2>6 DEF EndsTold
<1>. QED BY <1>6, <1>8, <1>9, <1>10, <1>11, <1>12 DEF JobInv

\* Airflow closes the run.
LEMMA CloseKeeps ==
  ASSUME JobInv, CloseDagRun
  PROVE  JobInv'
<1>0. /\ JobTypeOK /\ InOrder /\ AttemptKnown /\ GateKnown /\ ClaimsTrue /\ EndsTold
      /\ UNCHANGED <<autonomous, ti, attempt, debts, jobCell, decision, shown, jobBox, mishaps, silent>>
      /\ \A t \in JobTasks : ti[t].state \in Finals
      /\ dagRun' = IF ti["metrics"].state \in {"success", "skipped"} THEN "success" ELSE "failed"
  BY DEF JobInv, CloseDagRun
<1>1. /\ TaskLine' = TaskLine /\ JobTasks' = JobTasks /\ Reporter' = Reporter /\ Attempts' = Attempts /\ "metrics" \in JobTasks
  BY <1>0, LineSteady, LineFacts DEF JobTypeOK, Attempts
<1>2. \A w : Claim(w) => Claim(w)'
  <2>1. Moved
    BY <1>0 DEF Moved
  <2>2. Claim("cleaned") => jobBox' # "live"
    BY <1>0 DEF Claim
  <2>. QED BY <1>0, <2>1, <2>2, ClaimsStay
<1>3. JobTypeOK'
  BY <1>0, <1>1 DEF JobTypeOK
<1>4. InOrder'
  BY <1>0, OrderSame
<1>5. AttemptKnown'
  BY <1>0, <1>1 DEF AttemptKnown, Reporting, Unclaimed
<1>6. GateKnown'
  BY <1>0, <1>1 DEF GateKnown
<1>7. ClaimsTrue'
  <2>1. Reporting' = Reporting
    BY <1>0 DEF Reporting
  <2>. QED BY <1>0, <1>1, <1>2, <2>1 DEF ClaimsTrue
<1>8. EndsTold'
  <2>1. TaskFailed' = TaskFailed /\ CellOver' = CellOver
    BY <1>0, <1>1 DEF TaskFailed, CellOver
  <2>2. Told => Told'
    BY <1>0, <1>1, <2>1, ToldStays
  <2>3. dagRun' = "success" <=> ti["metrics"].state = "success"
    BY <1>0, <1>1 DEF InOrder
  <2>. QED BY <1>0, <1>1, <1>2, <2>1, <2>2, <2>3 DEF EndsTold
<1>. QED BY <1>3, <1>4, <1>5, <1>6, <1>7, <1>8 DEF JobInv

\* What the end of a run tells is true.
LEMMA RunEndIsTrue ==
  ASSUME JobInv, dagRun # "open"
  PROVE  Claim(dagRun) /\ (dagRun = "success" => CellOver) /\ (dagRun = "failed" => Told)
<1>0. JobTypeOK /\ InOrder /\ EndsTold /\ dagRun \in {"success", "failed"} /\ "metrics" \in JobTasks
  BY LineFacts DEF JobInv, JobTypeOK
<1>1. CASE dagRun = "success"
  <2>1. ti["metrics"].state = "success"
    BY <1>0, <1>1 DEF EndsTold
  <2>2. ti[Reporter].state = "success"
    BY <1>0, <2>1, OrderFacts
  <2>. QED BY <1>0, <1>1, <2>2 DEF EndsTold
<1>2. CASE dagRun = "failed"
  <2>1. ti["metrics"].state \in {"failed", "upstream_failed"}
    BY <1>0, <1>2 DEF EndsTold, Finals, InOrder
  <2>2. TaskFailed
    BY <1>0, <2>1 DEF InOrder, TaskFailed
  <2>3. \E t \in JobTasks : ti[t].state = "failed"
    BY <2>2 DEF TaskFailed
  <2>. QED BY <1>0, <1>2, <2>2, <2>3 DEF Claim, EndsTold
<1>. QED BY <1>0, <1>1, <1>2

\* The backend, the operator and another order change the Cell.
LEMMA CellStepKeeps ==
  ASSUME JobInv, SettleLostReport \/ CancelCell \/ NextEpoch
  PROVE  JobInv'
<1>0. /\ JobTypeOK /\ ClaimsTrue /\ jobCell \in [epoch : {1, 2}, state : CellLive \cup CellEnds, cleaned : BOOLEAN]
      /\ mishaps \in Nat /\ dagRun \in {"open", "success", "failed"}
  BY DEF JobInv, JobTypeOK
<1>1. CASE SettleLostReport
  <2>1. /\ UNCHANGED <<autonomous, ti, attempt, debts, decision, shown, jobBox, dagRun, silent>> /\ mishaps' = mishaps
        /\ dagRun # "open" /\ jobCell.epoch = 1 /\ jobCell.state \in CellLive /\ jobCell' = [jobCell EXCEPT !.state = dagRun]
    BY <1>1 DEF SettleLostReport
  <2>2. /\ jobCell' \in [epoch : {1, 2}, state : CellLive \cup CellEnds, cleaned : BOOLEAN]
        /\ jobCell'.epoch = 1 /\ jobCell'.state = dagRun /\ jobCell'.cleaned = jobCell.cleaned
    BY <1>0, <2>1 DEF CellEnds
  <2>3. Claim(dagRun)
    BY <2>1, RunEndIsTrue
  <2>4. ~CellOver /\ jobCell.state # "rejected"
    BY <2>1 DEF CellOver, CellLive, CellEnds
  <2>. QED BY <1>0, <2>1, <2>2, <2>3, <2>4, CellOnlyKeeps DEF ClaimsTrue
<1>2. CASE CancelCell
  <2>1. /\ UNCHANGED <<autonomous, ti, attempt, debts, decision, shown, jobBox, dagRun, silent>> /\ mishaps' = mishaps + 1
        /\ jobCell.epoch = 1 /\ jobCell.state \in CellLive /\ jobCell' = [jobCell EXCEPT !.state = "cancelled"]
    BY <1>2 DEF CancelCell, Mishap
  <2>2. /\ jobCell' \in [epoch : {1, 2}, state : CellLive \cup CellEnds, cleaned : BOOLEAN]
        /\ jobCell'.epoch = 1 /\ jobCell'.state = "cancelled" /\ jobCell'.cleaned = jobCell.cleaned
    BY <1>0, <2>1 DEF CellEnds
  <2>3. Claim("cancelled")
    BY DEF Claim
  <2>4. ~CellOver /\ jobCell.state # "rejected" /\ mishaps' \in Nat
    BY <1>0, <2>1 DEF CellOver, CellLive, CellEnds
  <2>. QED BY <1>0, <2>1, <2>2, <2>3, <2>4, CellOnlyKeeps DEF ClaimsTrue
<1>3. CASE NextEpoch
  <2>1. /\ UNCHANGED <<autonomous, ti, attempt, debts, decision, shown, jobBox, dagRun, silent>> /\ mishaps' \in Nat
        /\ jobCell' = [epoch |-> 2, state |-> "queued", cleaned |-> FALSE]
    BY <1>0, <1>3 DEF NextEpoch, Mishap
  <2>2. /\ jobCell' \in [epoch : {1, 2}, state : CellLive \cup CellEnds, cleaned : BOOLEAN]
        /\ jobCell'.epoch = 2 /\ jobCell'.state = "queued" /\ ~jobCell'.cleaned
    BY <2>1 DEF CellLive
  <2>3. CellOver'
    BY <2>2 DEF CellOver
  <2>. QED BY <2>1, <2>2, <2>3, CellOnlyKeeps
<1>. QED BY <1>1, <1>2, <1>3

-----------------------------------------------------------------------------
\* A job starts with nothing run, owed or told.
LEMMA JobInitially == JobInit => JobInv
<1>. SUFFICES ASSUME JobInit PROVE JobInv
  OBVIOUS
<1>0. /\ autonomous \in BOOLEAN /\ ti = [t \in JobTasks |-> [state |-> "none", try |-> 0]] /\ attempt = Unclaimed
      /\ debts = [t \in JobTasks |-> <<>>] /\ jobCell = [epoch |-> 1, state |-> "queued", cleaned |-> FALSE]
      /\ decision = [answer |-> "none", recorded |-> "none"] /\ shown = "none" /\ jobBox = "none" /\ dagRun = "open"
      /\ mishaps = 0 /\ silent = FALSE
  BY DEF JobInit
<1>1. /\ {"setup", "record", "deliver", "metrics", "teardown", Reporter} \subseteq JobTasks
      /\ \A i \in 1 .. 8 : TaskLine[i] \in JobTasks
  BY <1>0, LineFacts
<1>2. \A t \in JobTasks : ti[t].state = "none"
  BY <1>0
<1>3. JobTypeOK
  <2>1. <<>> \in Seq(Reports)
    OBVIOUS
  <2>2. attempt \in Attempts
    BY <1>0, <1>1, Started
  <2>3. ti \in [JobTasks -> [state : TaskStates, try : Nat]]
    BY <1>0 DEF TaskStates
  <2>. QED BY <1>0, <2>1, <2>2, <2>3 DEF JobTypeOK, CellLive, Replies
<1>4. InOrder
  <2>1. \A i \in 1 .. 8 : State(i) = "none"
    BY <1>1, <1>2 DEF State
  <2>2. \A i \in 2 .. 8 : i \in 1 .. 8
    OBVIOUS
  <2>3. \A i \in 2 .. 7 : i \in 1 .. 8
    OBVIOUS
  <2>. QED BY <1>2, <2>1, <2>2, <2>3 DEF InOrder, TiLive, TiDone
<1>5. AttemptKnown
  BY <1>0 DEF AttemptKnown
<1>6. GateKnown
  BY <1>0 DEF GateKnown
<1>7. ClaimsTrue
  <2>1. Claim("queued") /\ ~Reporting /\ attempt.todo = <<>>
    BY <1>0 DEF Claim, Reporting, Unclaimed
  <2>. QED BY <1>0, <2>1 DEF ClaimsTrue
<1>8. EndsTold
  BY <1>0, <1>1, <1>2 DEF EndsTold, TaskFailed, Unclaimed
<1>. QED BY <1>3, <1>4, <1>5, <1>6, <1>7, <1>8 DEF JobInv

\* Nothing happens.
LEMMA JobStutters ==
  ASSUME JobInv, UNCHANGED jobVars
  PROVE  JobInv'
<1>1. UNCHANGED <<autonomous, ti, attempt, debts, jobCell, decision, shown, jobBox, dagRun, mishaps, silent>>
  BY DEF jobVars
<1>2. /\ jobCell \in [epoch : {1, 2}, state : CellLive \cup CellEnds, cleaned : BOOLEAN] /\ mishaps \in Nat /\ ClaimsTrue
  BY DEF JobInv, JobTypeOK
<1>3. CellOver' = CellOver
  BY <1>1 DEF CellOver
<1>. QED BY <1>1, <1>2, <1>3, CellOnlyKeeps DEF ClaimsTrue

\* The inductive invariant of a mapped job holds in every reachable state.
THEOREM JobInvariant == JobSpec => []JobInv
<1>1. JobInit => JobInv
  BY JobInitially
<1>2. JobInv /\ [JobNext]_jobVars => JobInv'
  <2>. SUFFICES ASSUME JobInv, [JobNext]_jobVars PROVE JobInv'
    OBVIOUS
  <2>1. CASE UNCHANGED jobVars
    BY <2>1, JobStutters
  <2>2. CASE \E i \in DOMAIN TaskLine : ScheduleTask(i)
    BY <2>2, ScheduleKeeps
  <2>3. CASE \E t \in JobTasks : RetryTask(t)
    BY <2>3, RetryKeeps
  <2>4. CASE WorkerDies
    BY <2>4, DiesKeeps
  <2>5. CASE BuildContext
    BY <2>5, ContextKeeps
  <2>6. CASE WorkRaises
    BY <2>6, WorkRaisesKeeps
  <2>7. CASE \E a \in {"approve", "reject"} : TaskWorks(a)
    BY <2>7, WorksKeeps
  <2>8. CASE ReadDebts
    BY <2>8, ReadKeeps
  <2>9. CASE InspectDebt
    BY <2>9, InspectKeeps
  <2>10. CASE ReplayDebt
    BY <2>10, ReplayKeeps
  <2>11. CASE PostReport
    BY <2>11, PostKeeps
  <2>12. CASE CloseDagRun
    BY <2>12, CloseKeeps
  <2>13. CASE SettleLostReport \/ CancelCell \/ NextEpoch
    BY <2>13, CellStepKeeps
  <2>. QED BY <2>1, <2>2, <2>3, <2>4, <2>5, <2>6, <2>7, <2>8, <2>9, <2>10, <2>11, <2>12, <2>13 DEF JobNext
<1>. QED BY <1>1, <1>2, PTL DEF JobSpec

\* What the Cell says of the job is true, and a run that is over left it ended or the loss on record: a report,
\* sent, owed or replayed, only ever says what has become true and stays so (cell_callback.report, settle, report_failure).
THEOREM CellIsTold == JobSpec => []CellTellsTheJob
<1>1. JobInv => CellTellsTheJob
  <2>. SUFFICES ASSUME JobInv PROVE CellTellsTheJob
    OBVIOUS
  <2>1. JobTypeOK /\ ClaimsTrue
    BY DEF JobInv
  <2>2. ASSUME jobCell.epoch = 1, dagRun # "open", jobCell.state \in CellLive
        PROVE  silent \/ \E t \in JobTasks : debts[t] # <<>>
    <3>1. ~CellOver
      BY <2>2 DEF CellOver, CellLive, CellEnds
    <3>2. Told
      BY <2>1, <2>2, <3>1, RunEndIsTrue DEF JobTypeOK
    <3>. QED BY <3>1, <3>2 DEF Told
  <2>3. jobCell.epoch = 1 => Claim(jobCell.state) /\ (jobCell.cleaned => Claim("cleaned"))
    BY <2>1 DEF ClaimsTrue
  <2>4. jobCell.epoch = 2 => jobCell.state = "queued" /\ ~jobCell.cleaned
    BY <2>1 DEF ClaimsTrue
  <2>5. jobCell.epoch \in {1, 2}
    BY <2>1 DEF JobTypeOK
  <2>. QED BY <2>2, <2>3, <2>4, <2>5 DEF CellTellsTheJob, Claim
<1>. QED BY <1>1, JobInvariant, PTL

==============================================================================
