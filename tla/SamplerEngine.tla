--------------------------- MODULE SamplerEngine ---------------------------
(***************************************************************************)
(* The sampler engine (source/common/fw/src/sampler/sampler_engine.c): the *)
(* voices of the instruments in memory, the slots of the DMA engine they   *)
(* play in, and the two functions that start and stop them.  Four tasks    *)
(* call these functions, with no lock.  A step is one access to memory or  *)
(* to the DMA engine, so a task can be preempted between any two.          *)
(*                                                                         *)
(* The patch loader fills velocity range 0 of a key only, so a voice is a  *)
(* pair <<instrument, key>>.                                               *)
(***************************************************************************)
EXTENDS Integers

CONSTANTS MAX_VOICES,       \* slots of the DMA engine
          MAX_NUM_OF_KEYS,
          Velocity,         \* velocities a message may carry
          VelMin, VelMax,   \* range of each key's sample
          Descriptors,      \* addresses of patch descriptors
          SampledKeys,      \* sets of keys an instrument may have samples for
          NULL

Callers == {"key", "stop", "midi", "listener"}
Slots == 0 .. MAX_VOICES - 1
Key == 0 .. MAX_NUM_OF_KEYS - 1
Voices == Descriptors \X Key

ASSUME EngineAssumption ==
    /\ MAX_VOICES \in Nat \ {0} /\ MAX_NUM_OF_KEYS \in Nat \ {0}
    /\ Velocity \subseteq Nat
    /\ VelMin \in [Key -> Nat] /\ VelMax \in [Key -> Nat]
    /\ SampledKeys \subseteq SUBSET Key
    /\ NULL \notin Descriptors /\ NULL \notin Voices

VARIABLES
    patch_descriptor,   \* the instrument all tasks use
    loaded,             \* descriptors that have been in use; none is ever freed
    sampled,            \* the keys of each that have a sample
    current_status, current_slot,   \* of each voice
    hw,                 \* DMA engine: the voice playing in each slot
    at, inst, key, vslot,           \* each caller's place in the code and locals
    overlapped          \* history: a call began while another was under way

memVars == <<patch_descriptor, loaded, sampled>>
voiceVars == <<current_status, current_slot>>
localVars == <<inst, key, vslot>>
engineVars == <<memVars, voiceVars, hw, at, localVars, overlapped>>

Places == {"idle", "stop_check", "stop_voice", "clear_status", "clear_slot",
           "start_check", "start_voice", "set_slot", "set_status",
           "stop_slots", "all_check", "all_status", "all_slot"}

EngineInit ==
    /\ patch_descriptor = NULL /\ loaded = {} /\ sampled = [d \in Descriptors |-> {}]
    /\ current_status = [v \in Voices |-> 0] /\ current_slot = [v \in Voices |-> 0]
    /\ hw = [s \in Slots |-> NULL]
    /\ at = [t \in Callers |-> "idle"]
    /\ inst = [t \in Callers |-> NULL]
    /\ key = [t \in Callers |-> 0] /\ vslot = [t \in Callers |-> 0]
    /\ overlapped = FALSE

Active(t) == at[t] # "idle"
Voice(t) == <<inst[t], key[t]>>

-----------------------------------------------------------------------------
(* Calls.  The instrument is the value of the global at the call.          *)

\* The locals are forgotten at the return, so that calls leave no trace.
Goto(t, place) ==
    /\ at' = [at EXCEPT ![t] = place]
    /\ UNCHANGED overlapped
    /\ IF place = "idle"
       THEN /\ inst' = [inst EXCEPT ![t] = NULL]
            /\ key' = [key EXCEPT ![t] = 0] /\ vslot' = [vslot EXCEPT ![t] = 0]
       ELSE UNCHANGED localVars

Begin(t, k, place) ==
    /\ ~Active(t)
    /\ at' = [at EXCEPT ![t] = place]
    /\ inst' = [inst EXCEPT ![t] = patch_descriptor]
    /\ key' = [key EXCEPT ![t] = k]
    /\ overlapped' = (overlapped \/ \E u \in Callers : Active(u))
    /\ UNCHANGED <<memVars, voiceVars, hw, vslot>>

\* Otherwise ulPlayInstrumentKey gives up: no instrument, or no sample for the key.
HasVoice(k) == patch_descriptor # NULL /\ k \in sampled[patch_descriptor]

\* "Check if requested velocity falls within the range": both tests must fail
\* for a range to be passed over.
Excluded(k, vel) == vel <= VelMin[k] /\ vel >= VelMax[k]

PlayFails(t, k, vel) ==
    /\ ~Active(t)
    /\ HasVoice(k) => vel # 0 /\ Excluded(k, vel)
    /\ UNCHANGED engineVars

PlayStart(t, k, vel) == HasVoice(k) /\ vel # 0 /\ ~Excluded(k, vel) /\ Begin(t, k, "start_check")

PlayStop(t, k, vel) == HasVoice(k) /\ vel = 0 /\ Begin(t, k, "stop_check")

ulPlayInstrumentKey(t, k, vel) == PlayFails(t, k, vel) \/ PlayStart(t, k, vel) \/ PlayStop(t, k, vel)

ulStopAllPlayback(t) == Begin(t, 0, "stop_slots")

-----------------------------------------------------------------------------
(* The DMA engine (external): start takes any free slot.                   *)

ulStopVoicePlayback(s) == hw' = [hw EXCEPT ![s] = NULL]
FreeSlots == {s \in Slots : hw[s] = NULL}

-----------------------------------------------------------------------------
(* Velocity 0: stop the voice.                                             *)

StopCheck(t) ==
    /\ at[t] = "stop_check"
    /\ Goto(t, IF current_status[Voice(t)] # 0 THEN "stop_voice" ELSE "idle")
    /\ UNCHANGED <<memVars, voiceVars, hw>>

StopVoice(t) ==
    /\ at[t] = "stop_voice"
    /\ ulStopVoicePlayback(current_slot[Voice(t)])
    /\ Goto(t, "clear_status")
    /\ UNCHANGED <<memVars, voiceVars>>

ClearStatus(t) ==
    /\ at[t] = "clear_status"
    /\ current_status' = [current_status EXCEPT ![Voice(t)] = 0]
    /\ Goto(t, "clear_slot")
    /\ UNCHANGED <<memVars, current_slot, hw>>

ClearSlot(t) ==
    /\ at[t] = "clear_slot"
    /\ current_slot' = [current_slot EXCEPT ![Voice(t)] = 0]
    /\ Goto(t, "idle")
    /\ UNCHANGED <<memVars, current_status, hw>>

-----------------------------------------------------------------------------
(* Any other velocity: start it.                                           *)

\* Mutant: the check is missing.
AlreadyPlayingMut(t) == FALSE
AlreadyPlaying(t) == current_status[Voice(t)] # 0

StartCheck(t) ==
    /\ at[t] = "start_check"
    /\ Goto(t, IF AlreadyPlaying(t) THEN "idle" ELSE "start_voice")
    /\ UNCHANGED <<memVars, voiceVars, hw>>

StartVoice(t) ==
    /\ at[t] = "start_voice"
    /\ \E s \in FreeSlots :
          /\ hw' = [hw EXCEPT ![s] = Voice(t)]
          /\ vslot' = [vslot EXCEPT ![t] = s]
    /\ at' = [at EXCEPT ![t] = "set_slot"]
    /\ UNCHANGED <<memVars, voiceVars, inst, key, overlapped>>

NoSlot(t) ==
    /\ at[t] = "start_voice" /\ FreeSlots = {}
    /\ Goto(t, "idle")
    /\ UNCHANGED <<memVars, voiceVars, hw>>

SetSlot(t) ==
    /\ at[t] = "set_slot"
    /\ current_slot' = [current_slot EXCEPT ![Voice(t)] = vslot[t]]
    /\ Goto(t, "set_status")
    /\ UNCHANGED <<memVars, current_status, hw>>

SetStatus(t) ==
    /\ at[t] = "set_status"
    /\ current_status' = [current_status EXCEPT ![Voice(t)] = 1]
    /\ Goto(t, "idle")
    /\ UNCHANGED <<memVars, current_slot, hw>>

-----------------------------------------------------------------------------
(* Stop all: first every slot, then the flags of the instrument's voices.  *)

StopSlot(t) ==
    /\ at[t] = "stop_slots" /\ vslot[t] < MAX_VOICES - 1
    /\ ulStopVoicePlayback(vslot[t])
    /\ vslot' = [vslot EXCEPT ![t] = @ + 1]
    /\ UNCHANGED <<memVars, voiceVars, at, inst, key, overlapped>>

StopLastSlot(t) ==
    /\ at[t] = "stop_slots" /\ vslot[t] = MAX_VOICES - 1
    /\ ulStopVoicePlayback(vslot[t])
    /\ Goto(t, IF inst[t] = NULL THEN "idle" ELSE "all_check")
    /\ UNCHANGED <<memVars, voiceVars>>

\* Mutant: one key too many.
NextKeyMut(t) ==
    IF key[t] <= MAX_NUM_OF_KEYS - 1
    THEN /\ at' = [at EXCEPT ![t] = "all_check"]
         /\ key' = [key EXCEPT ![t] = @ + 1]
         /\ UNCHANGED <<inst, vslot, overlapped>>
    ELSE Goto(t, "idle")
NextKey(t) ==
    IF key[t] < MAX_NUM_OF_KEYS - 1
    THEN /\ at' = [at EXCEPT ![t] = "all_check"]
         /\ key' = [key EXCEPT ![t] = @ + 1]
         /\ UNCHANGED <<inst, vslot, overlapped>>
    ELSE Goto(t, "idle")

\* Keys and ranges without information are skipped; their status is never set.
AllSkip(t) ==
    /\ at[t] = "all_check" /\ current_status[Voice(t)] = 0
    /\ NextKey(t)
    /\ UNCHANGED <<memVars, voiceVars, hw>>

AllCheck(t) ==
    /\ at[t] = "all_check" /\ current_status[Voice(t)] # 0
    /\ Goto(t, "all_status")
    /\ UNCHANGED <<memVars, voiceVars, hw>>

AllStatus(t) ==
    /\ at[t] = "all_status"
    /\ current_status' = [current_status EXCEPT ![Voice(t)] = 0]
    /\ Goto(t, "all_slot")
    /\ UNCHANGED <<memVars, current_slot, hw>>

AllSlot(t) ==
    /\ at[t] = "all_slot"
    /\ current_slot' = [current_slot EXCEPT ![Voice(t)] = 0]
    /\ NextKey(t)
    /\ UNCHANGED <<memVars, current_status, hw>>

EngineStep(t) ==
    \/ StopCheck(t) \/ StopVoice(t) \/ ClearStatus(t) \/ ClearSlot(t)
    \/ StartCheck(t) \/ StartVoice(t) \/ NoSlot(t) \/ SetSlot(t) \/ SetStatus(t)
    \/ StopSlot(t) \/ StopLastSlot(t)
    \/ AllSkip(t) \/ AllCheck(t) \/ AllStatus(t) \/ AllSlot(t)

-----------------------------------------------------------------------------
(* A load puts a new descriptor in the global, or NULL when it fails.  The *)
(* old descriptor stays in memory, for the callers that hold it.           *)

LoadPatch(d, ks) ==
    /\ d \notin loaded
    /\ patch_descriptor' = d
    /\ loaded' = loaded \cup {d}
    /\ sampled' = [sampled EXCEPT ![d] = ks]
    /\ UNCHANGED <<voiceVars, hw, at, localVars, overlapped>>

LoadFails ==
    /\ patch_descriptor' = NULL
    /\ UNCHANGED <<loaded, sampled, voiceVars, hw, at, localVars, overlapped>>

EngineNext ==
    \/ \E t \in Callers :
          \/ \E k \in Key, vel \in Velocity : ulPlayInstrumentKey(t, k, vel)
          \/ t = "stop" /\ ulStopAllPlayback(t)
          \/ EngineStep(t)
    \/ \E d \in Descriptors, ks \in SampledKeys : LoadPatch(d, ks)
    \/ LoadFails

EngineSpec == EngineInit /\ [][EngineNext]_engineVars

-----------------------------------------------------------------------------
EngineTypeOK ==
    /\ patch_descriptor \in loaded \cup {NULL} /\ loaded \subseteq Descriptors
    /\ sampled \in [Descriptors -> SUBSET Key]
    /\ current_status \in [Voices -> 0 .. 1] /\ current_slot \in [Voices -> Slots]
    /\ hw \in [Slots -> Voices \cup {NULL}]
    /\ at \in [Callers -> Places] /\ inst \in [Callers -> Descriptors \cup {NULL}]
    /\ key \in [Callers -> Key] /\ vslot \in [Callers -> Slots]
    /\ overlapped \in BOOLEAN

\* What sounds is known: the voice in a slot says so, so a note-off finds it.
PlayingIsKnown ==
    \A s \in Slots : hw[s] # NULL => current_status[hw[s]] = 1 /\ current_slot[hw[s]] = s

\* What instrument d takes for playing does play, in the slot it takes it for.
KnownIsPlaying(d) ==
    \A k \in Key : current_status[<<d, k>>] = 1 => hw[current_slot[<<d, k>>]] = <<d, k>>

\* current_status is 1 when the voice is in playback and 0 when it is idle
\* (sampler_cfg.h:112): between calls the status of the voices agrees with the DMA
\* engine.
StatusTellsPlayback ==
    (\A t \in Callers : ~Active(t)) =>
        /\ PlayingIsKnown
        /\ patch_descriptor # NULL => KnownIsPlaying(patch_descriptor)

\* As long as no call of the engine began while another was under way, the status
\* agrees, whatever loads replaced the instrument in between or during the calls.
SerialUseIsSound == ~overlapped => StatusTellsPlayback
=============================================================================
