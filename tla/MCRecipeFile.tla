---------------------------- MODULE MCRecipeFile ----------------------------
(* Seven recipes for two chips, the second of which needs PEC: one like      *)
(* data.h, one that reads what it expects and modifies words, one whose      *)
(* first section verifies a chip and whose last record may fail, and four    *)
(* that fail unless a verify run ignores what they fail at: with nothing     *)
(* to verify, with an event, with a type and with meta data not known.      *)
(* Between them they have every type of record that the parser takes as it   *)
(* is declared.                                                            *)
EXTENDS RecipeFile

At2(t, address, command, pec, mask, value) ==
  [type |-> t, address |-> address, command |-> command, pec |-> pec, mask |-> mask,
   value |-> value]
Plain(t, command, value) == At2(t, 0, command, FALSE, {}, value)

Operation == <<48, 1>>
Config == <<48, 209>>
Secure == <<50, 209>>
Common == <<48, MfrCommon>>
Unlock == <<48, EeUnlock>>

MCRegisters == {Operation, Config, Secure, Common, Unlock, WriteProtect, BaseAddress}
MCInitial == [r \in MCRegisters |->
                CASE r = Operation -> {7} [] r = Config -> {0, 9} [] r = Secure -> {0, 7}
                  [] r = WriteProtect -> {7} [] OTHER -> {}]
MCStatus == {Common}
MCNeedPec == {50}

Programming ==
  <<Plain(24, 0, {}), Plain(27, 0, {1, 6}),
    At2(16, 91, 16, FALSE, {}, {14, 15}),
    At2(12, 48, 0, FALSE, {}, {3, 9}),
    At2(1, 48, EeErase, TRUE, {}, {5}), At2(15, 48, EeUnlock, FALSE, {}, {}),
    At2(10, 48, MfrCommon, TRUE, {6}, {6}),
    At2(9, 48, 191, TRUE, {}, {0, 9}), At2(30, 48, 191, TRUE, {}, {}),
    At2(15, 48, EeUnlock, FALSE, {}, {2}),
    Plain(24, ChipBeforeVerify, {}), At2(31, 48, 191, TRUE, {}, {}),
    At2(32, 50, 209, TRUE, {7}, {}),
    Plain(24, 19, {}), At2(33, 48, 209, FALSE, {1, 8, 9}, {1, 8}), Plain(24, AfterDone, {})>>

Expecting ==
  <<Plain(27, 1, {4}), At2(14, 48, 3, TRUE, {}, {}),
    At2(4, 48, 1, TRUE, {}, {7}), At2(25, 48, 209, FALSE, {0, 1}, {0, 5}),
    At2(33, 48, 209, FALSE, {2, 10}, {2, 3}), At2(21, 48, MfrCommon, FALSE, {6}, {}),
    At2(22, 48, MfrCommon, FALSE, {6, 9}, {0}), At2(11, 48, MfrCommon, TRUE, {6}, {6}),
    At2(2, 50, 209, TRUE, {}, {1, 7}), At2(19, 50, 209, FALSE, {}, {1, 7})>>

Failing == <<Plain(24, ChipBeforeVerify, {}), Plain(13, 10, {}),
             At2(33, 50, 209, TRUE, {3, 15}, {15}), At2(18, 48, 1, FALSE, {}, {7}),
             At2(5, 50, 209, TRUE, {}, {0, 7, 15})>>

NothingToVerify == <<Plain(7, 48, {}), Plain(8, 2, {}), At2(31, 48, 191, FALSE, {}, {})>>
UnknownEvent == <<At2(23, 48, 3, FALSE, {}, {}), Plain(24, 9, {})>>
UnknownType == <<Plain(24, 1, {}), At2(32, 48, 1, TRUE, {2}, {2}), Plain(17, 5, {2})>>
UnknownMeta == <<Plain(27, 7, {})>>

MCRecipes == {Programming, Expecting, Failing, NothingToVerify, UnknownEvent, UnknownType,
              UnknownMeta}

ASSUME MCRecipesObeyed == \A p \in MCRecipes : Obeyed(p) /\ ParsedAsDeclared(p)

(* A recipe with record 0x1A, and two with what makes Obeyed and             *)
(* ParsedAsDeclared false: 0x20 without PEC, and 0x1C.                     *)
ModifiesByte == {<<At2(32, 48, 1, FALSE, {6}, {6})>>}
ExpectsWord == {<<At2(26, 48, 209, FALSE, {0}, {})>>}
ModifiesWord == {<<At2(28, 48, 209, FALSE, {2, 10}, {2, 3})>>}
=============================================================================
