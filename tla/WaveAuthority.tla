--------------------------- MODULE WaveAuthority ----------------------------
(***************************************************************************)
(* run_authoritative_wave and the command that publishes its result.  The  *)
(* stages run in order; a stage that fails is caught and recorded, and the *)
(* wave loop runs whatever the stages before it did.  The command fails    *)
(* closed on the provenance the stages left.                               *)
(*                                                                         *)
(* A mapping is known by how its formula compiles; what the other stages   *)
(* may come to is chosen as they run.                                      *)
(***************************************************************************)
EXTENDS WaveLoop

CONSTANTS
    Mappings,
    MappingSpecs   \* how the formula of a mapping may compile

ASSUME MappingAssumption ==
    MappingSpecs \subseteq [expect_failure : BOOLEAN,
                            output : BOOLEAN,      \* it names its output axis
                            composite : BOOLEAN,   \* whose dimension is composite
                            factor : BOOLEAN,      \* compile_factor_ir takes it
                            transform : BOOLEAN]   \* compile_axis_transform takes it

VARIABLES
    mapping,
    stage,
    components,    \* the stages recorded as called
    invoked,       \* the stages that ran
    compiled,      \* the legal mappings, each as a factor or a transform
    surface,       \* the mappings of the particle surface, or NoSurface
    replay,
    printed, exit_code

authority_vars == <<mapping, stage, components, invoked, compiled, surface, replay,
                    printed, exit_code>>
vars == <<wave_vars, authority_vars>>

NoSurface == {"none"}
NoReplay  == [ok |-> FALSE]

Components == {"joint_schema", "factor_ir", "particle_surface", "wave_diagnostics",
               "wave_loop", "wave_ledger", "wave_replay"}

Init ==
    /\ WaveInit
    /\ mapping \in [Mappings -> MappingSpecs]
    /\ stage = "expected failures"
    /\ components = {} /\ invoked = {}
    /\ compiled = [m \in {} |-> "factor"] /\ surface = NoSurface /\ replay = NoReplay
    /\ printed = "" /\ exit_code = -1

Legal == {m \in Mappings : ~mapping[m].expect_failure}

_record(component, called) ==
    components' = components \cup {c \in {component} : called}

Invokes(component) == invoked' = invoked \cup {component}

-----------------------------------------------------------------------------
\* Fault: one of the two compilations has to fail.
ExpectedFailuresFailOnce ==
    \A m \in Mappings \ Legal : ~mapping[m].factor \/ ~mapping[m].transform

\* Every mapping expected to fail is compiled both ways and must fail both.
ExpectedFailuresFail ==
    \A m \in Mappings \ Legal : ~mapping[m].factor /\ ~mapping[m].transform

ExpectedFailures ==
    /\ stage = "expected failures"
    /\ stage' = IF ExpectedFailuresFail THEN "schema" ELSE "authority error"
    /\ UNCHANGED <<wave_vars, mapping, components, invoked, compiled, surface, replay,
                   printed, exit_code>>

Schema ==
    /\ stage = "schema"
    /\ \E ok \in BOOLEAN : _record("joint_schema", ok)
    /\ Invokes("joint_schema")
    /\ stage' = "factor"
    /\ UNCHANGED <<wave_vars, mapping, compiled, surface, replay, printed, exit_code>>

\* A mapping with an output axis is a transform by intent; any other is a factor
\* if it can be, and a transform onto an axis of one dimension if not.
CompiledAs(m) ==
    IF m.output /\ m.transform THEN {"transform"}
    ELSE IF m.factor THEN {"factor"}
    ELSE IF ~m.composite /\ m.transform THEN {"transform"} ELSE {}

Compilable == {m \in Legal : CompiledAs(mapping[m]) # {}}

\* The first mapping that does not compile ends the stage.
FactorIR ==
    /\ stage = "factor"
    /\ \E done \in SUBSET Compilable :
           /\ Compilable = Legal => done = Legal
           /\ compiled' = [m \in done |-> CHOOSE k \in CompiledAs(mapping[m]) : TRUE]
           /\ _record("factor_ir", done = Legal)
    /\ Invokes("factor_ir")
    /\ stage' = "surface"
    /\ UNCHANGED <<wave_vars, mapping, surface, replay, printed, exit_code>>

\* The surface is compiled from the legal mappings, unless one did not compile.
ParticleSurface ==
    /\ stage = "surface"
    /\ \/ /\ "factor_ir" \in components
          /\ \E ok \in BOOLEAN : /\ surface' = IF ok THEN Legal ELSE NoSurface
                                 /\ _record("particle_surface", ok)
          /\ Invokes("particle_surface")
       \/ "factor_ir" \notin components /\ UNCHANGED <<surface, components, invoked>>
    /\ stage' = "diagnostics"
    /\ UNCHANGED <<wave_vars, mapping, compiled, replay, printed, exit_code>>

Diagnostics ==
    /\ stage = "diagnostics"
    /\ \/ surface # NoSurface /\ Invokes("wave_diagnostics")
              /\ \E ok \in BOOLEAN : _record("wave_diagnostics", ok)
       \/ surface = NoSurface /\ UNCHANGED <<components, invoked>>
    /\ stage' = "loop"
    /\ UNCHANGED <<wave_vars, mapping, compiled, surface, replay, printed, exit_code>>

\* run_wave_loop validates the payload by its own rules and raises when they fail.
LoopRaises ==
    /\ stage = "loop" /\ loop = "draft"
    /\ loop' = "raised"
    /\ UNCHANGED <<wave_inputs, ledger, actions, accepted, stop_reason, authority_vars>>

RunLoop == stage = "loop" /\ WaveNext /\ UNCHANGED authority_vars

LoopDone ==
    /\ stage = "loop" /\ loop \in {"ended", "raised"}
    /\ _record("wave_loop", loop = "ended") /\ Invokes("wave_loop")
    /\ stage' = "ledger"
    /\ UNCHANGED <<wave_vars, mapping, compiled, surface, replay, printed, exit_code>>

\* Without a loop result the ledger and the replay are empty objects.
Ledger ==
    /\ stage = "ledger"
    /\ _record("wave_ledger", TRUE)
    /\ invoked' = invoked \cup {c \in {"wave_ledger"} : loop = "ended"}
    /\ stage' = "replay"
    /\ UNCHANGED <<wave_vars, mapping, compiled, surface, replay, printed, exit_code>>

Replay ==
    /\ stage = "replay"
    /\ replay' = IF ledger = <<>> THEN NoReplay ELSE replay_wave_ledger(ledger)
    /\ _record("wave_replay", ledger = <<>> \/ replay'.ok)
    /\ invoked' = invoked \cup {c \in {"wave_replay"} : ledger # <<>>}
    /\ stage' = "publish"
    /\ UNCHANGED <<wave_vars, mapping, compiled, surface, printed, exit_code>>

\* The expected failures and the conversion of the payload to the domain models of
\* the surface stand outside every try: what they raise ends the command.
Uncaught ==
    /\ stage \in {"expected failures", "surface"}
    /\ exit_code' = 1
    /\ stage' = "exit"
    /\ UNCHANGED <<wave_vars, mapping, components, invoked, compiled, surface, replay, printed>>

-----------------------------------------------------------------------------
\* The command prints the verdict, and fails closed on a gap in the provenance
\* and on an empty ledger.
Publish ==
    /\ stage = "publish"
    /\ printed' = IF accepted THEN "result-found" ELSE "insufficient-information"
    /\ exit_code' = IF components # Components THEN 3 ELSE IF ledger = <<>> THEN 4 ELSE 0
    /\ stage' = "exit"
    /\ UNCHANGED <<wave_vars, mapping, components, invoked, compiled, surface, replay>>

\* Fault: the command tries again.
PublishErrorAndRetry ==
    /\ stage = "authority error"
    /\ printed' = "authority_error" /\ exit_code' = 2
    /\ stage' = "expected failures"
    /\ UNCHANGED <<wave_vars, mapping, components, invoked, compiled, surface, replay>>

PublishError ==
    /\ stage = "authority error"
    /\ printed' = "authority_error" /\ exit_code' = 2
    /\ stage' = "exit"
    /\ UNCHANGED <<wave_vars, mapping, components, invoked, compiled, surface, replay>>

Exited == stage = "exit" /\ UNCHANGED vars

Next == \/ ExpectedFailures \/ Schema \/ FactorIR \/ ParticleSurface \/ Diagnostics
        \/ LoopRaises \/ RunLoop \/ LoopDone \/ Ledger \/ Replay
        \/ Uncaught \/ Publish \/ PublishError \/ Exited

Spec == Init /\ [][Next]_vars

\* One thread that nothing blocks.
FairSpec == Spec /\ WF_vars(Next)

-----------------------------------------------------------------------------
\* A command that exits with success has run every stage, published a surface of
\* compiled legal mappings only, and its verdict is the one the ledger replays to.
SuccessIsComplete ==
    exit_code = 0 =>
        /\ invoked = Components
        /\ surface = Legal /\ DOMAIN compiled = Legal
        /\ \A m \in Mappings \ Legal : CompiledAs(mapping[m]) = {}
        /\ replay.ok /\ (printed = "result-found" <=> replay.accepted)

\* The command ends whichever of its stages fail.
CommandEnds == <>(stage = "exit")
=============================================================================
