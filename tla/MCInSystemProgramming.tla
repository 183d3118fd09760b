----------------------- MODULE MCInSystemProgramming -----------------------
(* Recipes of the shape of the one in data.h, for two chips of two words.   *)
EXTENDS InSystemProgramming, TLC

CONSTANTS c1, c2

MCChips == {c1, c2}
MCWord == 0..2
MCWorn == {<<c1, 2>>}

Rec(t, c, m, d, w, e) == [type |-> t, chip |-> c, cmd |-> m, data |-> d, words |-> w, event |-> e]
NoImage == [i \in 1..NWords |-> Blank]
Simple(t, c) == Rec(t, c, "OTHER", "lock", NoImage, "AFTER_DONE")

Event(e) == Rec("EVENT", c1, "OTHER", "lock", NoImage, e)
Buffer(c, w) == Rec("NVM_DATA", c, "OTHER", "lock", w, "AFTER_DONE")
Unlock(c, d) == Rec("WRITE_BYTE", c, "EE_UNLOCK", d, NoImage, "AFTER_DONE")
Erase(c) == Rec("WRITE_BYTE", c, "EE_ERASE", "key1", NoImage, "AFTER_DONE")
Expect(c, d) == Rec("READ_EXPECT", c, "EE_UNLOCK", d, NoImage, "AFTER_DONE")
Header(c) == Rec("READ_EXPECT", c, "EE_DATA", "lock", NoImage, "AFTER_DONE")
Loop(c) == Simple("READ_LOOP", c)

(* lock, then open, then check that it is open.                            *)
Open(c) == <<Loop(c), Unlock(c, "lock"), Loop(c), Unlock(c, "key1"), Loop(c),
             Unlock(c, "key2"), Loop(c), Expect(c, "key2")>>

ProgramChip(c, w) ==
  <<Buffer(c, w), Simple("WRITE_BYTE", c)>> \o Open(c)
  \o <<Erase(c), Loop(c), Expect(c, "lock")>> \o Open(c)
  \o <<Simple("WRITE_EE_DATA", c), Expect(c, "lock"), Simple("POLL_ACK", c), Simple("SKIPPED", c)>>

VerifyChip(c) ==
  <<Event("INSYSTEM_CHIP_BEFORE_VERIFY"), Simple("WRITE_OTHER", c)>> \o Open(c)
  \o <<Header(c), Loop(c), Simple("VERIFY_EE_DATA", c), Expect(c, "lock")>>

Begin == <<Event("BEFORE_BEGIN"), Event("SYSTEM_BEFORE_PROGRAM")>>
End == <<Event("SYSTEM_AFTER_VERIFY"), Simple("WRITE_OTHER", c1), Simple("POLL_ACK", c1),
         Event("AFTER_DONE"), Simple("END_OF_RECORDS", c1)>>
Bracketed(c, w) == <<Event("INSYSTEM_CHIP_BEFORE_PROGRAM")>> \o ProgramChip(c, w)
                   \o VerifyChip(c) \o <<Event("INSYSTEM_CHIP_AFTER_VERIFY")>>

W1 == <<1, 2>>
W2 == <<2, 1>>

(* The layout of data.h: each chip is programmed and verified in turn.     *)
TwoChips == Begin \o Bracketed(c1, W1) \o Bracketed(c2, W2) \o End

(* An event opens the verification before the chip is programmed, so that a *)
(* verify run executes the records that program it.                        *)
AllVerified == <<Event("INSYSTEM_CHIP_BEFORE_VERIFY")>> \o ProgramChip(c1, W2)
               \o VerifyChip(c1) \o <<Simple("END_OF_RECORDS", c1)>>

(* A block is buffered, then a record the engine does not support.         *)
Broken == Begin \o <<Buffer(c2, W1), Event("INSYSTEM_CHIP_BEFORE_VERIFY"),
          Simple("UNSUPPORTED", c1)>> \o End

(* A recipe without events, as the engine ran before it knew of them.      *)
NoEvents == ProgramChip(c1, W1) \o Tail(VerifyChip(c1)) \o <<Simple("END_OF_RECORDS", c1)>>

(* An event of a newer format, after a block.                              *)
Newer == <<Buffer(c1, W1), Event("UNKNOWN"), Simple("END_OF_RECORDS", c1)>>

MCRecipes == {TwoChips, AllVerified, Broken, Newer}
MCUngoverned == {TwoChips, NoEvents}

ASSUME MCRecipesGoverned == \A r \in MCRecipes : Governed(r)
ASSUME MCRecipesPolled == \A r \in MCRecipes : Polled(r)
=============================================================================
