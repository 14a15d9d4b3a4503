------------------------- MODULE SamplerEngineProofs -------------------------
(***************************************************************************)
(* Theorems about SamplerEngine, for every number of slots and keys, every *)
(* velocity range and any number of loads: the type invariant, and that    *)
(* the status of the voices is right as long as the calls of the engine do *)
(* not overlap.                                                            *)
(***************************************************************************)
EXTENDS SamplerEngine, TLAPS

-----------------------------------------------------------------------------
(* The inductive invariants *)

\* A caller that works on a voice, or on the flags of an instrument, has one.
HasInstrument ==
    \A t \in Callers :
        /\ inst[t] \in loaded \cup {NULL}
        /\ at[t] \notin {"idle", "stop_slots"} => inst[t] \in loaded
        /\ at[t] = "idle" => vslot[t] = 0

EngineInv == EngineTypeOK /\ HasInstrument

\* A descriptor that has never been in use has no voice in playback.
Fresh == \A d \in Descriptors \ loaded, k \in Key : current_status[<<d, k>>] = 0

Recording(t) == at[t] \in {"set_slot", "set_status"}

\* Every voice that plays is known, but for the one that t has just started.
OthersAreKnown(t) ==
    \A s \in Slots :
        hw[s] # NULL /\ ~(Recording(t) /\ s = vslot[t]) =>
            current_status[hw[s]] = 1 /\ current_slot[hw[s]] = s

\* The instrument was replaced during the call of t: nothing of the new one plays.
NewIsIdle(t) ==
    patch_descriptor \notin {NULL, inst[t]} =>
        \A k \in Key : current_status[<<patch_descriptor, k>>] = 0

\* What t has established at each place of its call.
KnownPlays(t) ==
    at[t] \in {"start_check", "start_voice", "stop_check", "stop_voice",
               "clear_slot", "set_slot", "set_status"} => KnownIsPlaying(inst[t])

StatusSeen(t) ==
    /\ at[t] \in {"start_voice", "clear_slot", "set_slot", "set_status", "all_slot"} =>
          current_status[Voice(t)] = 0
    /\ at[t] = "stop_voice" => current_status[Voice(t)] = 1

VoiceStarted(t) ==
    /\ Recording(t) => hw[vslot[t]] = Voice(t)
    /\ at[t] = "set_status" => current_slot[Voice(t)] = vslot[t]

VoiceStopped(t) ==
    at[t] = "clear_status" =>
        /\ \A s \in Slots : hw[s] # Voice(t)
        /\ \A k \in Key \ {key[t]} :
              current_status[<<inst[t], k>>] = 1 =>
                  hw[current_slot[<<inst[t], k>>]] = <<inst[t], k>>

SlotsStopped(t) ==
    /\ at[t] = "stop_slots" => key[t] = 0 /\ \A s \in Slots : s < vslot[t] => hw[s] = NULL
    /\ at[t] \in {"all_check", "all_status", "all_slot"} =>
          /\ \A s \in Slots : hw[s] = NULL
          /\ \A k \in Key : k < key[t] => current_status[<<inst[t], k>>] = 0

CallInv(t) ==
    /\ OthersAreKnown(t) /\ NewIsIdle(t) /\ KnownPlays(t) /\ StatusSeen(t)
    /\ VoiceStarted(t) /\ VoiceStopped(t) /\ SlotsStopped(t)

IdleInv == PlayingIsKnown /\ (patch_descriptor # NULL => KnownIsPlaying(patch_descriptor))

SerialInv ==
    ~overlapped =>
        /\ \A t, u \in Callers : Active(t) /\ Active(u) => t = u
        /\ \A t \in Callers : Active(t) => CallInv(t)
        /\ (\A t \in Callers : ~Active(t)) => IdleInv

-----------------------------------------------------------------------------
(* Type correctness *)

\* The first key and slot exist; NULL is no voice and no instrument; a voice is
\* an instrument and a key.
LEMMA Ranges ==
    /\ 0 \in Key /\ 0 \in Slots
    /\ NULL \notin Descriptors /\ NULL \notin Voices
    /\ \A d \in Descriptors, k \in Key : <<d, k>> \in Voices
  BY EngineAssumption DEF EngineAssumption, Key, Slots, Voices

LEMMA InitTyped == EngineInit => EngineInv
<1> SUFFICES ASSUME EngineInit PROVE EngineInv
  OBVIOUS
<1> USE Ranges DEF EngineInit
<1>1. overlapped \in BOOLEAN
  OBVIOUS
<1>2. /\ at \in [Callers -> Places] /\ inst \in [Callers -> Descriptors \cup {NULL}]
      /\ key \in [Callers -> Key] /\ vslot \in [Callers -> Slots]
  BY DEF Places
<1>3. EngineTypeOK
  BY <1>1, <1>2 DEF EngineTypeOK
<1>4. HasInstrument
  BY DEF HasInstrument
<1>5. QED
  BY <1>3, <1>4 DEF EngineInv

\* The two ways a step of a call moves on.
LEMMA GotoTyped ==
    ASSUME EngineInv, NEW t \in Callers, NEW place \in Places, Goto(t, place),
           UNCHANGED memVars,
           place # "idle" => at[t] # "idle" /\ inst[t] \in loaded
    PROVE  /\ at' \in [Callers -> Places] /\ inst' \in [Callers -> Descriptors \cup {NULL}]
           /\ key' \in [Callers -> Key] /\ vslot' \in [Callers -> Slots]
           /\ overlapped' \in BOOLEAN /\ HasInstrument'
  BY Ranges DEF EngineInv, EngineTypeOK, HasInstrument, Goto, memVars, localVars

LEMMA NextKeyTyped ==
    ASSUME EngineInv, NEW t \in Callers, NextKey(t), UNCHANGED memVars,
           inst[t] \in loaded, at[t] # "idle"
    PROVE  /\ at' \in [Callers -> Places] /\ inst' \in [Callers -> Descriptors \cup {NULL}]
           /\ key' \in [Callers -> Key] /\ vslot' \in [Callers -> Slots]
           /\ overlapped' \in BOOLEAN /\ HasInstrument'
<1>1. CASE key[t] < MAX_NUM_OF_KEYS - 1
  <2>1. key[t] + 1 \in Key
    BY <1>1, EngineAssumption DEF EngineInv, EngineTypeOK, Key, EngineAssumption
  <2>2. QED
    BY <1>1, <2>1 DEF NextKey, EngineInv, EngineTypeOK, HasInstrument, Places, memVars
<1>2. CASE ~(key[t] < MAX_NUM_OF_KEYS - 1)
  BY <1>2, GotoTyped DEF NextKey, Places
<1>3. QED
  BY <1>1, <1>2

LEMMA BeginTyped ==
    ASSUME EngineInv, NEW t \in Callers, NEW k \in Key, NEW place \in Places,
           Begin(t, k, place),
           place # "idle",
           place # "stop_slots" => patch_descriptor # NULL
    PROVE  EngineInv'
  BY Ranges DEF EngineInv, EngineTypeOK, HasInstrument, Begin, memVars, voiceVars

\* Every step of a call keeps the types.
LEMMA EngineStepTyped ==
    ASSUME EngineInv, NEW t \in Callers, EngineStep(t)
    PROVE  EngineInv'
<1> USE Ranges DEF EngineInv
<1>1. ASSUME at[t] \notin {"idle", "stop_slots"}
      PROVE  inst[t] \in loaded /\ Voice(t) \in Voices
  BY <1>1 DEF HasInstrument, Voice, EngineTypeOK
<1>2. CASE StopCheck(t)
  BY <1>1, <1>2, GotoTyped DEF StopCheck, memVars, voiceVars, EngineTypeOK, Places
<1>3. CASE StopVoice(t)
  BY <1>1, <1>3, GotoTyped
  DEF StopVoice, ulStopVoicePlayback, memVars, voiceVars, EngineTypeOK, Places
<1>4. CASE ClearStatus(t)
  BY <1>1, <1>4, GotoTyped DEF ClearStatus, memVars, EngineTypeOK, Places
<1>5. CASE ClearSlot(t)
  BY <1>1, <1>5, GotoTyped DEF ClearSlot, memVars, EngineTypeOK, Places
<1>6. CASE StartCheck(t)
  BY <1>1, <1>6, GotoTyped DEF StartCheck, memVars, voiceVars, EngineTypeOK, Places
<1>7. CASE StartVoice(t)
  BY <1>1, <1>7 DEF StartVoice, FreeSlots, memVars, voiceVars, EngineTypeOK, HasInstrument, Places
<1>8. CASE NoSlot(t)
  BY <1>1, <1>8, GotoTyped DEF NoSlot, memVars, voiceVars, EngineTypeOK, Places
<1>9. CASE SetSlot(t)
  BY <1>1, <1>9, GotoTyped DEF SetSlot, memVars, EngineTypeOK, Places
<1>10. CASE SetStatus(t)
  BY <1>1, <1>10, GotoTyped DEF SetStatus, memVars, EngineTypeOK, Places
<1>11. CASE StopSlot(t)
  <2>1. vslot[t] + 1 \in Slots
    BY <1>11, EngineAssumption DEF StopSlot, EngineTypeOK, Slots, EngineAssumption
  <2>2. QED
    BY <1>11, <2>1
    DEF StopSlot, ulStopVoicePlayback, memVars, voiceVars, EngineTypeOK, HasInstrument
<1>12. CASE StopLastSlot(t)
  <2>1. inst[t] \in loaded \cup {NULL}
    BY DEF HasInstrument
  <2>2. QED
    BY <2>1, <1>12, GotoTyped
    DEF StopLastSlot, ulStopVoicePlayback, memVars, voiceVars, EngineTypeOK, Places
<1>13. CASE AllSkip(t)
  BY <1>1, <1>13, NextKeyTyped DEF AllSkip, memVars, voiceVars, EngineTypeOK
<1>14. CASE AllCheck(t)
  BY <1>1, <1>14, GotoTyped DEF AllCheck, memVars, voiceVars, EngineTypeOK, Places
<1>15. CASE AllStatus(t)
  BY <1>1, <1>15, GotoTyped DEF AllStatus, memVars, EngineTypeOK, Places
<1>16. CASE AllSlot(t)
  BY <1>1, <1>16, NextKeyTyped DEF AllSlot, memVars, EngineTypeOK
<1>17. QED
  BY <1>2, <1>3, <1>4, <1>5, <1>6, <1>7, <1>8, <1>9, <1>10, <1>11, <1>12, <1>13,
     <1>14, <1>15, <1>16 DEF EngineStep

LEMMA EngineNextTyped == EngineInv /\ [EngineNext]_engineVars => EngineInv'
<1> SUFFICES ASSUME EngineInv, [EngineNext]_engineVars PROVE EngineInv'
  OBVIOUS
<1>1. ASSUME NEW t \in Callers, NEW k \in Key, NEW vel \in Velocity,
             ulPlayInstrumentKey(t, k, vel)
      PROVE  EngineInv' \/ UNCHANGED engineVars
  BY <1>1, BeginTyped
  DEF ulPlayInstrumentKey, PlayFails, PlayStart, PlayStop, HasVoice, Places
<1>2. ASSUME NEW t \in Callers, ulStopAllPlayback(t) PROVE EngineInv'
  <2>1. 0 \in Key /\ "stop_slots" \in Places /\ Begin(t, 0, "stop_slots")
    BY <1>2, Ranges DEF ulStopAllPlayback, Places
  <2>2. QED
    BY <2>1, BeginTyped
<1>3. ASSUME NEW d \in Descriptors, NEW ks \in SampledKeys, LoadPatch(d, ks)
      PROVE  EngineInv'
  BY <1>3, EngineAssumption
  DEF LoadPatch, EngineInv, EngineTypeOK, HasInstrument, voiceVars, localVars, EngineAssumption
<1>4. CASE LoadFails
  BY <1>4 DEF LoadFails, EngineInv, EngineTypeOK, HasInstrument, voiceVars, localVars
<1>5. CASE UNCHANGED engineVars
  BY <1>5 DEF engineVars, memVars, voiceVars, localVars, EngineInv, EngineTypeOK, HasInstrument
<1>6. QED
  BY <1>1, <1>2, <1>3, <1>4, <1>5, EngineStepTyped DEF EngineNext

\* Every variable stays in its type, and a call that works on a voice has an
\* instrument that is in memory.
THEOREM EngineTypeCorrect == EngineSpec => []EngineTypeOK
<1>1. EngineSpec => []EngineInv
  BY InitTyped, EngineNextTyped, PTL DEF EngineSpec
<1>2. EngineInv => EngineTypeOK
  BY DEF EngineInv
<1>3. QED
  BY <1>1, <1>2, PTL

-----------------------------------------------------------------------------
(* The status of the voices *)

\* The flag of one more voice is clear, and the call goes to the next key or ends.
LEMMA FlagsCleared ==
    ASSUME EngineInv, NEW t \in Callers, CallInv(t), NextKey(t),
           UNCHANGED <<patch_descriptor, current_status, hw>>,
           at[t] \in {"all_check", "all_slot"}, current_status[Voice(t)] = 0
    PROVE  /\ Active(t)' => CallInv(t)'
           /\ ~Active(t)' => IdleInv'
<1> USE Ranges DEF CallInv
<1>1. /\ inst[t] \in Descriptors /\ key[t] \in Key
      /\ at \in [Callers -> Places] /\ key \in [Callers -> Key]
  BY DEF EngineInv, EngineTypeOK, HasInstrument
<1>2. /\ \A s \in Slots : hw[s] = NULL
      /\ \A k \in Key : k < key[t] => current_status[<<inst[t], k>>] = 0
  BY DEF SlotsStopped
<1>3. \A k \in Key : k < key[t] + 1 => current_status[<<inst[t], k>>] = 0
  <2>1. ASSUME NEW k \in Key, k < key[t] + 1 PROVE k = key[t] \/ k < key[t]
    BY <1>1, <2>1, EngineAssumption DEF Key, EngineAssumption
  <2>2. QED
    BY <1>2, <2>1 DEF Voice
<1>4. CASE key[t] < MAX_NUM_OF_KEYS - 1
  <2>1. /\ at'[t] = "all_check" /\ key'[t] = key[t] + 1
        /\ UNCHANGED <<inst, vslot, overlapped>>
    BY <1>1, <1>4 DEF NextKey
  <2>2. SlotsStopped(t)' /\ OthersAreKnown(t)'
    BY <1>2, <1>3, <2>1 DEF SlotsStopped, OthersAreKnown
  <2>3. QED
    BY <2>1, <2>2
    DEF NewIsIdle, KnownPlays, StatusSeen, VoiceStarted, VoiceStopped, Recording, Active
<1>5. CASE ~(key[t] < MAX_NUM_OF_KEYS - 1)
  <2>1. at'[t] = "idle"
    BY <1>1, <1>5 DEF NextKey, Goto
  <2>2. \A k \in Key : current_status[<<inst[t], k>>] = 0
    <3>1. \A k \in Key : k < key[t] + 1
      BY <1>1, <1>5, EngineAssumption DEF Key, EngineAssumption
    <3>2. QED
      BY <1>3, <3>1
  <2>3. patch_descriptor # NULL =>
          \A k \in Key : current_status[<<patch_descriptor, k>>] = 0
    BY <2>2 DEF NewIsIdle
  <2>4. QED
    BY <1>2, <2>1, <2>3 DEF IdleInv, PlayingIsKnown, KnownIsPlaying, Active
<1>6. QED
  BY <1>4, <1>5

\* A step of the only call under way keeps what the call has established, and the
\* last one leaves the status right.
LEMMA CallStepSound ==
    ASSUME EngineInv, NEW t \in Callers, Active(t), CallInv(t), EngineStep(t)
    PROVE  /\ Active(t)' => CallInv(t)'
           /\ ~Active(t)' => IdleInv'
<1>a. /\ current_status \in [Voices -> 0 .. 1] /\ current_slot \in [Voices -> Slots]
      /\ hw \in [Slots -> Voices \cup {NULL}]
      /\ at \in [Callers -> Places] /\ inst \in [Callers -> Descriptors \cup {NULL}]
      /\ key \in [Callers -> Key] /\ vslot \in [Callers -> Slots]
      /\ patch_descriptor \in Descriptors \cup {NULL}
  BY DEF EngineInv, EngineTypeOK
<1>b. at[t] \notin {"idle", "stop_slots"} => inst[t] \in Descriptors
  BY DEF EngineInv, EngineTypeOK, HasInstrument
<1> USE <1>a, <1>b, Ranges
<1> USE DEF CallInv, OthersAreKnown, NewIsIdle, KnownPlays, StatusSeen, VoiceStarted,
            VoiceStopped, SlotsStopped, Recording, IdleInv, PlayingIsKnown,
            KnownIsPlaying, Voice, Active, memVars, voiceVars, localVars, Goto
<1>2. CASE StopCheck(t)
  BY <1>2 DEF StopCheck
<1>3. CASE StopVoice(t)
  BY <1>3 DEF StopVoice, ulStopVoicePlayback
<1>4. CASE ClearStatus(t)
  BY <1>4 DEF ClearStatus
<1>5. CASE ClearSlot(t)
  <2>1. /\ UNCHANGED <<current_status, hw, patch_descriptor>> /\ at'[t] = "idle"
        /\ current_slot' = [current_slot EXCEPT ![Voice(t)] = 0]
        /\ current_status[Voice(t)] = 0 /\ Voice(t) \in Voices
    BY <1>5 DEF ClearSlot
  <2>2. PlayingIsKnown'
    <3>1. ASSUME NEW s \in Slots, hw[s] # NULL
          PROVE  hw[s] \in Voices /\ current_status[hw[s]] = 1 /\ current_slot[hw[s]] = s
      BY <1>5, <3>1 DEF ClearSlot
    <3>2. QED
      BY <2>1, <3>1
  <2>3. ASSUME patch_descriptor # NULL PROVE KnownIsPlaying(patch_descriptor)'
    <3>1. CASE patch_descriptor = inst[t]
      BY <1>5, <2>1, <3>1 DEF ClearSlot
    <3>2. CASE patch_descriptor # inst[t]
      BY <1>5, <2>1, <2>3, <3>2
    <3>3. QED
      BY <3>1, <3>2
  <2>4. QED
    BY <2>1, <2>2, <2>3
<1>6. CASE StartCheck(t)
  BY <1>6 DEF StartCheck, AlreadyPlaying
<1>7. CASE StartVoice(t)
  BY <1>7 DEF StartVoice, FreeSlots
<1>8. CASE NoSlot(t)
  BY <1>8 DEF NoSlot
<1>9. CASE SetSlot(t)
  BY <1>9 DEF SetSlot
<1>10. CASE SetStatus(t)
  <2>1. /\ UNCHANGED <<current_slot, hw, patch_descriptor>> /\ at'[t] = "idle"
        /\ current_status' = [current_status EXCEPT ![Voice(t)] = 1]
        /\ Voice(t) \in Voices /\ vslot[t] \in Slots
        /\ hw[vslot[t]] = Voice(t) /\ current_slot[Voice(t)] = vslot[t]
    BY <1>10 DEF SetStatus
  <2>2. PlayingIsKnown'
    <3>1. ASSUME NEW s \in Slots, hw[s] # NULL, s # vslot[t]
          PROVE  hw[s] \in Voices /\ current_status[hw[s]] = 1 /\ current_slot[hw[s]] = s
      BY <1>10, <3>1 DEF SetStatus
    <3>2. QED
      BY <2>1, <3>1
  <2>3. ASSUME patch_descriptor # NULL PROVE KnownIsPlaying(patch_descriptor)'
    <3>1. CASE patch_descriptor = inst[t]
      BY <1>10, <2>1, <3>1 DEF SetStatus
    <3>2. CASE patch_descriptor # inst[t]
      BY <1>10, <2>1, <2>3, <3>2 DEF SetStatus
    <3>3. QED
      BY <3>1, <3>2
  <2>4. QED
    BY <2>1, <2>2, <2>3
<1>11. CASE StopSlot(t)
  <2>1. /\ UNCHANGED <<current_status, current_slot, patch_descriptor, at, inst, key>>
        /\ hw' = [hw EXCEPT ![vslot[t]] = NULL]
        /\ vslot' = [vslot EXCEPT ![t] = @ + 1] /\ at[t] = "stop_slots"
    BY <1>11 DEF StopSlot, ulStopVoicePlayback
  <2>2. OthersAreKnown(t)'
    BY <2>1
  <2>3. ASSUME NEW s \in Slots, s < vslot[t] + 1 PROVE hw'[s] = NULL
    <3>1. s = vslot[t] \/ s < vslot[t]
      BY <2>3 DEF Slots
    <3>2. QED
      BY <2>1, <3>1
  <2>4. SlotsStopped(t)'
    BY <2>1, <2>3
  <2>5. QED
    BY <2>1, <2>2, <2>4
<1>12. CASE StopLastSlot(t)
  <2>1. /\ UNCHANGED <<current_status, current_slot, patch_descriptor>>
        /\ hw' = [hw EXCEPT ![vslot[t]] = NULL]
        /\ at[t] = "stop_slots" /\ vslot[t] = MAX_VOICES - 1 /\ key[t] = 0
        /\ Goto(t, IF inst[t] = NULL THEN "idle" ELSE "all_check")
    BY <1>12 DEF StopLastSlot, ulStopVoicePlayback
  <2>2. ASSUME NEW s \in Slots PROVE hw'[s] = NULL
    <3>1. s = vslot[t] \/ s < vslot[t]
      BY <2>1, EngineAssumption DEF Slots, EngineAssumption
    <3>2. QED
      BY <2>1, <3>1
  <2>3. CASE inst[t] = NULL
    BY <2>1, <2>2, <2>3
  <2>4. CASE inst[t] # NULL
    <3>1. at'[t] = "all_check" /\ inst' = inst /\ key' = key
      BY <2>1, <2>4
    <3>2. ~\E k \in Key : k < key[t]
      BY <2>1 DEF Key
    <3>3. QED
      BY <2>1, <2>2, <3>1, <3>2
  <2>5. QED
    BY <2>3, <2>4
<1>13. CASE AllSkip(t)
  BY <1>13, FlagsCleared DEF AllSkip
<1>14. CASE AllCheck(t)
  BY <1>14 DEF AllCheck
<1>15. CASE AllStatus(t)
  BY <1>15 DEF AllStatus
<1>16. CASE AllSlot(t)
  BY <1>16, FlagsCleared DEF AllSlot
<1>17. QED
  BY <1>2, <1>3, <1>4, <1>5, <1>6, <1>7, <1>8, <1>9, <1>10, <1>11, <1>12, <1>13,
     <1>14, <1>15, <1>16 DEF EngineStep

\* A status is set only for a voice of an instrument that is in memory.
LEMMA FreshStep == EngineInv /\ Fresh /\ [EngineNext]_engineVars => Fresh'
<1> SUFFICES ASSUME EngineInv, Fresh, [EngineNext]_engineVars,
                    NEW d \in Descriptors, NEW k \in Key, d \notin loaded'
             PROVE  current_status'[<<d, k>>] = 0
  BY DEF Fresh
<1>1. loaded \subseteq loaded'
  BY DEF EngineNext, ulPlayInstrumentKey, PlayFails, PlayStart, PlayStop, ulStopAllPlayback,
         Begin, EngineStep, StopCheck, StopVoice, ClearStatus, ClearSlot, StartCheck, StartVoice,
         NoSlot, SetSlot, SetStatus, StopSlot, StopLastSlot, AllSkip, AllCheck, AllStatus, AllSlot,
         LoadPatch, LoadFails, engineVars, memVars
<1>2. current_status[<<d, k>>] = 0 /\ <<d, k>> \in Voices
  BY <1>1, Ranges DEF Fresh
<1>3. current_status \in [Voices -> 0 .. 1]
  BY DEF EngineInv, EngineTypeOK
<1>4. ASSUME NEW t \in Callers, ClearStatus(t) \/ AllStatus(t)
      PROVE  current_status'[<<d, k>>] = 0
  BY <1>2, <1>3, <1>4 DEF ClearStatus, AllStatus
<1>5. ASSUME NEW t \in Callers, SetStatus(t) PROVE current_status'[<<d, k>>] = 0
  <2>1. inst[t] \in loaded
    BY <1>5 DEF SetStatus, EngineInv, HasInstrument
  <2>2. Voice(t) # <<d, k>>
    BY <1>1, <2>1 DEF Voice
  <2>3. QED
    BY <1>2, <1>3, <1>5, <2>2 DEF SetStatus
<1>6. CASE current_status' = current_status
  BY <1>2, <1>6
<1>7. QED
  BY <1>4, <1>5, <1>6
  DEF EngineNext, ulPlayInstrumentKey, PlayFails, PlayStart, PlayStop, ulStopAllPlayback,
      Begin, EngineStep, StopCheck, StopVoice, ClearSlot, StartCheck, StartVoice,
      NoSlot, SetSlot, StopSlot, StopLastSlot, AllSkip, AllCheck, AllSlot,
      LoadPatch, LoadFails, engineVars, voiceVars

\* A call that begins while no other is under way finds the status right.
LEMMA BeginSound ==
    ASSUME EngineInv, SerialInv, NEW t \in Callers, NEW k \in Key,
           NEW place \in {"start_check", "stop_check", "stop_slots"},
           Begin(t, k, place),
           place = "stop_slots" => k = 0,
           place # "stop_slots" => patch_descriptor # NULL
    PROVE  SerialInv'
<1> SUFFICES ASSUME ~overlapped' PROVE SerialInv'
  BY DEF SerialInv
<1>1. ~overlapped /\ \A u \in Callers : ~Active(u)
  BY DEF Begin
<1>2. IdleInv
  BY <1>1 DEF SerialInv
<1>3. /\ \A u \in Callers \ {t} : ~Active(u)'
      /\ Active(t)' /\ at'[t] = place /\ inst'[t] = patch_descriptor /\ key'[t] = k
      /\ vslot'[t] = 0 /\ UNCHANGED <<patch_descriptor, current_status, current_slot, hw>>
  BY <1>1 DEF Begin, Active, EngineInv, EngineTypeOK, HasInstrument, memVars, voiceVars
<1>4. OthersAreKnown(t)' /\ NewIsIdle(t)' /\ KnownPlays(t)'
  BY <1>2, <1>3
  DEF OthersAreKnown, NewIsIdle, KnownPlays, IdleInv, PlayingIsKnown, KnownIsPlaying
<1>5. StatusSeen(t)' /\ VoiceStarted(t)' /\ VoiceStopped(t)'
  BY <1>3 DEF StatusSeen, VoiceStarted, VoiceStopped, Recording
<1>6. SlotsStopped(t)'
  BY <1>3 DEF SlotsStopped, Slots
<1>7. QED
  BY <1>3, <1>4, <1>5, <1>6 DEF SerialInv, CallInv

\* The step of a call, when it is the only one.
LEMMA StepSound ==
    ASSUME EngineInv, SerialInv, NEW t \in Callers, EngineStep(t)
    PROVE  SerialInv'
<1> SUFFICES ASSUME ~overlapped' PROVE SerialInv'
  BY DEF SerialInv
<1>1. /\ Active(t) /\ ~overlapped
      /\ \A u \in Callers \ {t} : at'[u] = at[u]
  BY DEF EngineStep, StopCheck, StopVoice, ClearStatus, ClearSlot, StartCheck, StartVoice,
         NoSlot, SetSlot, SetStatus, StopSlot, StopLastSlot, AllSkip, AllCheck, AllStatus, AllSlot,
         Goto, NextKey, Active, EngineInv, EngineTypeOK
<1>2. CallInv(t) /\ \A u \in Callers \ {t} : ~Active(u)
  BY <1>1 DEF SerialInv
<1>3. \A u \in Callers \ {t} : ~Active(u)'
  BY <1>1, <1>2 DEF Active
<1>4. (Active(t)' => CallInv(t)') /\ (~Active(t)' => IdleInv')
  BY <1>1, <1>2, CallStepSound
<1>5. QED
  BY <1>3, <1>4 DEF SerialInv

\* A load leaves nothing of the new instrument in playback.
LEMMA LoadSound ==
    ASSUME EngineInv, Fresh, SerialInv,
           LoadFails \/ \E d \in Descriptors, ks \in SampledKeys : LoadPatch(d, ks)
    PROVE  SerialInv'
<1>1. /\ UNCHANGED <<current_status, current_slot, hw, at, inst, key, vslot, overlapped>>
      /\ patch_descriptor' # NULL =>
            \A k \in Key : current_status[<<patch_descriptor', k>>] = 0
  BY Ranges DEF LoadFails, LoadPatch, Fresh, voiceVars, localVars
<1>2. ASSUME NEW t \in Callers, CallInv(t) PROVE CallInv(t)'
  <2>1. OthersAreKnown(t)' /\ NewIsIdle(t)'
    BY <1>1, <1>2 DEF CallInv, OthersAreKnown, NewIsIdle, Recording
  <2>2. KnownPlays(t)' /\ StatusSeen(t)' /\ VoiceStarted(t)'
    BY <1>1, <1>2
    DEF CallInv, KnownPlays, StatusSeen, VoiceStarted, KnownIsPlaying, Recording, Voice
  <2>3. VoiceStopped(t)' /\ SlotsStopped(t)'
    BY <1>1, <1>2 DEF CallInv, VoiceStopped, SlotsStopped, Voice
  <2>4. QED
    BY <2>1, <2>2, <2>3 DEF CallInv
<1>3. ASSUME IdleInv PROVE IdleInv'
  BY <1>1, <1>3 DEF IdleInv, PlayingIsKnown, KnownIsPlaying
<1>4. QED
  BY <1>1, <1>2, <1>3 DEF SerialInv, Active

LEMMA SerialStep == EngineInv /\ Fresh /\ SerialInv /\ [EngineNext]_engineVars => SerialInv'
<1> SUFFICES ASSUME EngineInv, Fresh, SerialInv, [EngineNext]_engineVars PROVE SerialInv'
  OBVIOUS
<1>1. CASE UNCHANGED engineVars
  <2>1. UNCHANGED <<patch_descriptor, current_status, current_slot, hw, at, inst, key, vslot,
                    overlapped>>
    BY <1>1 DEF engineVars, memVars, voiceVars, localVars
  <2>2. ASSUME NEW t \in Callers, CallInv(t) PROVE CallInv(t)'
    <3>1. OthersAreKnown(t)' /\ NewIsIdle(t)'
      BY <2>1, <2>2 DEF CallInv, OthersAreKnown, NewIsIdle, Recording
    <3>2. KnownPlays(t)' /\ StatusSeen(t)' /\ VoiceStarted(t)'
      BY <2>1, <2>2
      DEF CallInv, KnownPlays, StatusSeen, VoiceStarted, KnownIsPlaying, Recording, Voice
    <3>3. VoiceStopped(t)' /\ SlotsStopped(t)'
      BY <2>1, <2>2 DEF CallInv, VoiceStopped, SlotsStopped, Voice
    <3>4. QED
      BY <3>1, <3>2, <3>3 DEF CallInv
  <2>3. ASSUME IdleInv PROVE IdleInv'
    BY <2>1, <2>3 DEF IdleInv, PlayingIsKnown, KnownIsPlaying
  <2>4. QED
    BY <2>1, <2>2, <2>3 DEF SerialInv, Active
<1>2. ASSUME NEW t \in Callers, NEW k \in Key, NEW vel \in Velocity,
             ulPlayInstrumentKey(t, k, vel)
      PROVE  SerialInv'
  BY <1>1, <1>2, BeginSound DEF ulPlayInstrumentKey, PlayFails, PlayStart, PlayStop, HasVoice
<1>3. ASSUME NEW t \in Callers, ulStopAllPlayback(t) PROVE SerialInv'
  <2>1. 0 \in Key /\ Begin(t, 0, "stop_slots")
    BY <1>3, Ranges DEF ulStopAllPlayback
  <2>2. QED
    BY <2>1, BeginSound
<1>4. QED
  BY <1>1, <1>2, <1>3, StepSound, LoadSound DEF EngineNext

LEMMA InitSerial == EngineInit => Fresh /\ SerialInv
  BY Ranges DEF EngineInit, Fresh, SerialInv, Active, IdleInv, PlayingIsKnown

\* As long as calls of the engine do not overlap, the status of the voices tells what
\* plays, with any number of slots, keys and loads, and loads at any time.
THEOREM SerialUse == EngineSpec => []SerialUseIsSound
<1>1. EngineInit => EngineInv /\ Fresh /\ SerialInv
  BY InitTyped, InitSerial
<1>2. EngineInv /\ Fresh /\ SerialInv /\ [EngineNext]_engineVars
        => (EngineInv /\ Fresh /\ SerialInv)'
  BY EngineNextTyped, FreshStep, SerialStep
<1>3. SerialInv => SerialUseIsSound
  BY DEF SerialInv, SerialUseIsSound, StatusTellsPlayback, IdleInv
<1>4. QED
  BY <1>1, <1>2, <1>3, PTL DEF EngineSpec
=============================================================================
