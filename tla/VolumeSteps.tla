------------------------------ MODULE VolumeSteps ------------------------------
(***************************************************************************)
(* The arithmetic of src/internal/volume: whole percent on one side, the   *)
(* steps of an audio device on the other.  A device has between one step   *)
(* and MaxPlausibleSteps; stepInfo refuses any other.  Apply merges what a  *)
(* request asks for into the state found.                                  *)
(***************************************************************************)
EXTENDS Integers

CONSTANT Nothing   \* a field a request leaves out, and a level not known

MinLevel == 0
MaxLevel == 100
MaxPlausibleSteps == 1000

Clamp(level) == IF level < MinLevel THEN MinLevel
                ELSE IF level > MaxLevel THEN MaxLevel ELSE level

\* Slip: truncated instead of rounded.
LevelFromStep_Truncated(step, stepCount) ==
    IF stepCount = 0 THEN 0
    ELSE IF stepCount = 1 THEN MaxLevel
    ELSE (step * MaxLevel) \div (stepCount - 1)

LevelFromStep(step, stepCount) ==
    IF stepCount = 0 THEN 0
    ELSE IF stepCount = 1 THEN MaxLevel
    ELSE LET top == stepCount - 1
             s   == IF step > top THEN top ELSE step
         IN  (s * MaxLevel + top \div 2) \div top

\* Slip: truncated instead of rounded.
StepFromLevel_Truncated(level, stepCount) ==
    IF stepCount <= 1 THEN 0
    ELSE (Clamp(level) * (stepCount - 1)) \div MaxLevel

StepFromLevel(level, stepCount) ==
    IF stepCount <= 1 THEN 0
    ELSE (Clamp(level) * (stepCount - 1) + MaxLevel \div 2) \div MaxLevel

State     == [level : MinLevel..MaxLevel, muted : BOOLEAN]
NoRequest == [level |-> Nothing, muted |-> Nothing]

\* Apply: a level change clears mute, an explicit mute wins.
Apply(current, r) ==
    [level |-> IF r.level = Nothing THEN current.level ELSE Clamp(r.level),
     muted |-> IF r.muted # Nothing THEN r.muted
               ELSE IF r.level # Nothing THEN FALSE
               ELSE current.muted]
=============================================================================
