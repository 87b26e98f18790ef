---------------------------- MODULE ChainTypeNames ----------------------------
(***************************************************************************)
(* The chain type enumeration and its names, src/util/chaintype.h and     *)
(* src/util/chaintype.cpp.                                                 *)
(*                                                                         *)
(* ChainTypeToString and ChainTypeFromString are two hand-written tables   *)
(* (a switch and an if-chain); ChainTypeMetaFrom builds the (type, name)   *)
(* pair a node runs under, either from the -chain name a user typed or     *)
(* from a chain type.  The state is the ChainTypeMeta a caller holds: a    *)
(* plain aggregate, so any (type, name) pair can be held, and each step is *)
(* a call of one of the two ChainTypeMetaFrom overloads that replaces it.  *)
(* Names are strings; ChainNames is the set of names a user may pass.      *)
(***************************************************************************)
EXTENDS TLC

CONSTANTS ChainNames   \* the -chain names the model passes in

(* enum class ChainType.                                                   *)
ChainTypes == {"MAIN", "TESTNET", "SIGNET", "REGTEST",
               "LIQUID1", "LIQUID1TEST", "LIQUIDTESTNET", "CUSTOM"}

VARIABLES
    meta,      \* the ChainTypeMeta the caller holds
    derived    \* whether meta was returned by ChainTypeMetaFrom

vars == <<meta, derived>>

(* A ChainTypeToString whose LIQUID1TEST case returns the LIQUID1 name.    *)
ChainTypeToStringCaseSlip(chain) ==
    IF chain = "LIQUID1TEST" THEN "liquidv1"
    ELSE ("MAIN" :> "main" @@ "TESTNET" :> "test" @@ "SIGNET" :> "signet"
          @@ "REGTEST" :> "regtest" @@ "LIQUID1" :> "liquidv1"
          @@ "LIQUID1TEST" :> "liquidv1test"
          @@ "LIQUIDTESTNET" :> "liquidtestnet" @@ "CUSTOM" :> "custom")[chain]

(* The switch of ChainTypeToString: every enumerator has a case, so the    *)
(* trailing assert(false) is unreachable for values of the enum.           *)
ChainTypeToString(chain) ==
    ("MAIN" :> "main" @@ "TESTNET" :> "test" @@ "SIGNET" :> "signet"
     @@ "REGTEST" :> "regtest" @@ "LIQUID1" :> "liquidv1"
     @@ "LIQUID1TEST" :> "liquidv1test"
     @@ "LIQUIDTESTNET" :> "liquidtestnet" @@ "CUSTOM" :> "custom")[chain]

(* A ChainTypeFromString whose if-chain lost the "liquidtestnet" branch.   *)
ChainTypeFromStringMissingBranch(chain) ==
    LET table == "main" :> "MAIN" @@ "test" :> "TESTNET" @@ "signet" :> "SIGNET"
                 @@ "regtest" :> "REGTEST" @@ "liquidv1" :> "LIQUID1"
                 @@ "liquidv1test" :> "LIQUID1TEST"
    IN  IF chain \in DOMAIN table THEN {table[chain]} ELSE {}

(* The if-chain of ChainTypeFromString; std::optional is a set of at most  *)
(* one type, {} for std::nullopt.  "custom" has no branch.                 *)
ChainTypeFromString(chain) ==
    LET table == "main" :> "MAIN" @@ "test" :> "TESTNET" @@ "signet" :> "SIGNET"
                 @@ "regtest" :> "REGTEST" @@ "liquidv1" :> "LIQUID1"
                 @@ "liquidv1test" :> "LIQUID1TEST"
                 @@ "liquidtestnet" :> "LIQUIDTESTNET"
    IN  IF chain \in DOMAIN table THEN {table[chain]} ELSE {}

(* ChainTypeMetaFrom(std::string): a known name keeps its type, any other *)
(* name is a CUSTOM chain of that name.                                    *)
ChainTypeMetaFromName(chain_name) ==
    LET chain == ChainTypeFromString(chain_name)
    IN  [chain_type |-> IF chain # {} THEN CHOOSE t \in chain : TRUE
                                      ELSE "CUSTOM",
         chain_name |-> chain_name]

(* ChainTypeMetaFrom(ChainType): the name is the type's string.           *)
ChainTypeMetaFromType(chain_type) ==
    [chain_type |-> chain_type, chain_name |-> ChainTypeToString(chain_type)]

TypeOK ==
    /\ meta \in [chain_type : ChainTypes, chain_name : ChainNames]
    /\ derived \in BOOLEAN

Init ==
    /\ meta \in [chain_type : ChainTypes, chain_name : ChainNames]
    /\ derived = FALSE

(* meta = ChainTypeMetaFrom(name), for a -chain name.                      *)
FromName ==
    \E n \in ChainNames :
        /\ meta' = ChainTypeMetaFromName(n)
        /\ derived' = TRUE

(* meta = ChainTypeMetaFrom(type), for a chain type.                       *)
FromType ==
    \E t \in ChainTypes :
        /\ meta' = ChainTypeMetaFromType(t)
        /\ derived' = TRUE

Next == FromName \/ FromType

Spec == Init /\ [][Next]_vars

(***************************************************************************)
(* The two overloads of ChainTypeMetaFrom agree, although they rest on two *)
(* tables kept in step by hand: a meta either overload returned parses     *)
(* back to itself from its name, and, unless it is a CUSTOM chain, is also *)
(* what the overload taking its type returns.  A CUSTOM chain is left out: *)
(* ChainTypeMetaFrom(CUSTOM) names it "custom", whatever name it had.      *)
(***************************************************************************)
MetaFromAgree ==
    derived =>
        /\ ChainTypeMetaFromName(meta.chain_name) = meta
        /\ meta.chain_type # "CUSTOM" =>
               ChainTypeMetaFromType(meta.chain_type) = meta
===============================================================================
