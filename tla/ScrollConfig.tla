----------------------------- MODULE ScrollConfig -----------------------------
(***************************************************************************)
(* The parts of the EVM that depend on the fork, and when they follow it:  *)
(* the configuration (src/src/builder.rs, src/src/gas.rs) at once, the     *)
(* precompile provider (src/src/precompile/mod.rs) with the next           *)
(* transaction, the instruction table (src/src/instructions.rs) never.     *)
(***************************************************************************)
EXTENDS PrecompileSets

CONSTANTS
    InitialSpecs, LaterSpecs,   \* forks the EVM is built for, and forks it is moved to
    TX_GAS_LIMIT_CAP,           \* the cap of EIP-7825
    OwnCaps                     \* caps the owner may set, instead or before

ASSUME ConfigAssumption ==
    /\ InitialSpecs \subseteq ScrollSpecId /\ LaterSpecs \subseteq ScrollSpecId
    /\ TX_GAS_LIMIT_CAP \in Nat /\ OwnCaps \subseteq Nat /\ None \notin Nat

VARIABLES
    pc,         \* "idle", or what frames are running for: "transaction" or "system_call"
    cfg,        \* CfgEnv: spec, gasParams, tx_gas_limit_cap
    provider,   \* ScrollPrecompileProvider: inner and spec
    warm,       \* the precompile addresses the journal takes for warm
    table,      \* the instruction table
    ownCap,     \* history: the cap the owner has set, None if none
    highest,    \* history: the highest fork set since the owner last touched the cap
    seen        \* history: the fork of the last transaction, at first that of the construction

vars == <<pc, cfg, provider, warm, table, ownCap, highest, seen>>

-----------------------------------------------------------------------------
(* GasParams::new_scroll_spec, as far as it departs from Shanghai's (external). *)

ShanghaiGas == [perEmptyAccount |-> 0, authRefund |-> 0, floorPerToken |-> 0, floorBase |-> 0]
EIP7702Gas  == [perEmptyAccount |-> 25000, authRefund |-> 25000 - 12500]
EIP7623Gas  == [floorPerToken |-> 10, floorBase |-> 21000]

NewScrollSpec(spec) ==
    LET euclid == IF IsEnabledIn(spec, EUCLID) THEN Extend(ShanghaiGas, EIP7702Gas) ELSE ShanghaiGas
    IN  IF IsEnabledIn(spec, FEYNMAN) THEN Extend(euclid, EIP7623Gas) ELSE euclid

\* Variant with a mistake: the owner's cap is overwritten.
SetScrollSpecOverwriting(c, s) ==
    [spec |-> s, gasParams |-> NewScrollSpec(s),
     tx_gas_limit_cap |-> IF IsEnabledIn(s, TSUKI) THEN TX_GAS_LIMIT_CAP ELSE c.tx_gas_limit_cap]

SetScrollSpec(c, s) ==
    [spec |-> s, gasParams |-> NewScrollSpec(s),
     tx_gas_limit_cap |-> IF IsEnabledIn(s, TSUKI) /\ c.tx_gas_limit_cap = None
                          THEN TX_GAS_LIMIT_CAP ELSE c.tx_gas_limit_cap]

NewScroll(s) == SetScrollSpec([tx_gas_limit_cap |-> None], s)

-----------------------------------------------------------------------------
(* The precompile provider *)

\* Variant with a mistake: a change is not reported.
SetSpecUnreported(p, s) == [provider |-> NewWithSpec(s), changed |-> FALSE]

\* Variant with a mistake: a move back to an older fork is ignored.
SetSpecForwards(p, s) ==
    IF s <= p.spec THEN [provider |-> p, changed |-> FALSE]
    ELSE [provider |-> NewWithSpec(s), changed |-> TRUE]

\* set_spec: the new provider and what it returns.
SetSpec(p, s) ==
    IF s = p.spec THEN [provider |-> p, changed |-> FALSE]
    ELSE [provider |-> NewWithSpec(s), changed |-> TRUE]

-----------------------------------------------------------------------------
(* Instructions.  The table is revm's for an Ethereum fork with overrides, *)
(* which look at the configuration's fork when they run.                   *)

MakeScrollInstructionTable(spec) == [base |-> IntoEthSpecId(spec)]

Overrides == {"BLOCKHASH", "BASEFEE", "TSTORE", "TLOAD", "SELFDESTRUCT", "MCOPY", "DIFFICULTY", "CLZ"}

\* Overrides that halt with NotActivated: SELFDESTRUCT always, others before their fork.
NotActivated(op, c) ==
    \/ op = "SELFDESTRUCT"
    \/ op \in {"BASEFEE", "TSTORE", "TLOAD", "MCOPY"} /\ ~IsEnabledIn(c.spec, CURIE)
    \/ op = "CLZ" /\ ~IsEnabledIn(c.spec, GALILEO)

-----------------------------------------------------------------------------
\* A context for a fork, and ScrollEvm::new on it.
Init ==
    \E s \in InitialSpecs :
        /\ pc = "idle" /\ cfg = NewScroll(s) /\ provider = NewWithSpec(s)
        /\ warm = {} /\ table = MakeScrollInstructionTable(s)
        /\ ownCap = None /\ highest = s /\ seen = s

\* Between runs the owner moves the EVM to another fork, forwards or back, ...
MoveTo(s) ==
    /\ pc = "idle"
    /\ cfg' = SetScrollSpec(cfg, s)
    /\ highest' = IF s > highest THEN s ELSE highest
    /\ UNCHANGED <<pc, provider, warm, table, ownCap, seen>>

\* ... or sets or removes the cap.
SetCap(c) ==
    /\ pc = "idle"
    /\ cfg' = [cfg EXCEPT !.tx_gas_limit_cap = c] /\ ownCap' = c /\ highest' = 0
    /\ UNCHANGED <<pc, provider, warm, table, seen>>

\* A transaction reaches load_accounts (external), which tells the provider the fork and warms
\* its addresses if they are new.
Transact ==
    LET r == SetSpec(provider, cfg.spec)
    IN  /\ pc = "idle" /\ pc' = "transaction"
        /\ provider' = r.provider /\ seen' = cfg.spec
        /\ warm' = IF r.changed \/ warm = {} THEN DOMAIN r.provider.inner ELSE warm
        /\ UNCHANGED <<cfg, table, ownCap, highest>>

\* A system call goes to its frame without load_accounts.
SystemCall ==
    /\ pc = "idle" /\ pc' = "system_call"
    /\ UNCHANGED <<cfg, provider, warm, table, ownCap, highest, seen>>

End ==
    /\ pc # "idle" /\ pc' = "idle"
    /\ UNCHANGED <<cfg, provider, warm, table, ownCap, highest, seen>>

Next ==
    \/ \E s \in LaterSpecs : MoveTo(s)
    \/ \E c \in OwnCaps \cup {None} : SetCap(c)
    \/ Transact \/ SystemCall \/ End

Spec == Init /\ [][Next]_vars

-----------------------------------------------------------------------------
(* The fork schedule: since when an address has an implementation.  The    *)
(* forks of the precompiles are in their own files' constants (SHANGHAI,   *)
(* BERNOULLI, FEYNMAN, GALILEO, TSUKI) and comments.                       *)

Schedule ==
    {[address |-> a, since |-> SHANGHAI, impl |-> PreBernoulli[a]] : a \in DOMAIN PreBernoulli}
    \cup {[address |-> "SHA256",        since |-> BERNOULLI, impl |-> "sha256"],
          [address |-> "P256VERIFY",    since |-> EUCLID,    impl |-> "p256verify"],
          [address |-> "BN254_PAIRING", since |-> FEYNMAN,   impl |-> "pairing"],
          [address |-> "MODEXP",        since |-> GALILEO,   impl |-> "modexp_osaka"],
          [address |-> "P256VERIFY",    since |-> GALILEO,   impl |-> "p256verify_osaka"],
          [address |-> "RIPEMD160",     since |-> TSUKI,     impl |-> "ripemd160_32_bytes"],
          [address |-> "TRANSFER",      since |-> TSUKI,     impl |-> "transfer"]}

\* The forks of the opcodes; SELFDESTRUCT is never back.
OpcodeSchedule == {"BASEFEE", "TSTORE", "TLOAD", "MCOPY"} \X {CURIE} \cup {<<"CLZ", GALILEO>>}

\* What a fork should have: for every address the newest implementation that has begun.
Scheduled(spec) == {e \in Schedule :
    /\ e.since <= spec
    /\ \A f \in Schedule : f.address = e.address /\ f.since <= spec => f.since <= e.since}

Installed == {[address |-> a, impl |-> provider.inner[a]] : a \in DOMAIN provider.inner}
Due(spec) == {[address |-> e.address, impl |-> e.impl] : e \in Scheduled(spec)}

\* The code of a transaction finds the precompiles of its fork at their addresses and nothing
\* else, and exactly those addresses warm, wherever the EVM has been before.
TransactionsMeetTheirFork ==
    pc = "transaction" =>
        /\ Installed = Due(cfg.spec)
        /\ warm = {e.address : e \in Scheduled(cfg.spec)}

\* A system call skips load_accounts, so after a change of fork it sees precompiles of another
\* fork than its configuration's.  They are still those of one whole fork, the one of the last
\* transaction however many moves there were in between, and the warm addresses belong to that
\* same set: none before the first transaction, otherwise all.
SystemCallsMeetLastTransactionsFork ==
    pc = "system_call" =>
        /\ Installed = Due(seen)
        /\ warm \in {{}, DOMAIN provider.inner}

\* The instruction table of a run is the one of the run's fork, although it was made when the
\* EVM was built (this depends on all forks sharing Ethereum's Shanghai), and what the overrides
\* run is what has begun by that fork, system calls included.
InstructionsMeetTheirFork ==
    pc # "idle" =>
        /\ table = MakeScrollInstructionTable(cfg.spec)
        /\ {op \in Overrides : ~NotActivated(op, cfg)}
              = {"BLOCKHASH", "DIFFICULTY"}
                \cup {e[1] : e \in {x \in OpcodeSchedule : x[2] <= cfg.spec}}

\* Whatever forks the configuration has been through, its gas parameters are those of its fork
\* alone; a cap set by the owner stays, and otherwise the cap is there from the first fork that
\* has it on, going back included.
ConfigFollowsFork ==
    /\ cfg.gasParams.perEmptyAccount = IF cfg.spec >= EUCLID THEN 25000 ELSE 0
    /\ cfg.gasParams.floorPerToken   = IF cfg.spec >= FEYNMAN THEN 10 ELSE 0
    /\ cfg.tx_gas_limit_cap = IF ownCap # None THEN ownCap
                              ELSE IF highest >= TSUKI THEN TX_GAS_LIMIT_CAP ELSE None
=============================================================================
