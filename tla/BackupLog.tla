------------------------------ MODULE BackupLog ------------------------------
(***************************************************************************)
(* What the system-proxy transaction promises, without registry writes,    *)
(* routines, failures or crashes: one slot on disk remembers settings.  It *)
(* is only ever filled with the settings in force, the settings are only   *)
(* changed by the application while it is full, and it is only emptied     *)
(* when the settings in force are again the remembered ones.               *)
(***************************************************************************)
CONSTANTS Setting, NoSetting

VARIABLES
  inForce,   \* the settings in force
  saved      \* the slot: remembered settings, or NoSetting

Init == inForce \in Setting /\ saved = NoSetting

\* An empty slot, or one whose settings are back in force, may be (re)filled.
Save == /\ saved \in {NoSetting, inForce}
        /\ saved' = inForce
        /\ UNCHANGED inForce

\* The application changes settings it can give back.
Change == /\ saved # NoSetting
          /\ inForce' \in Setting
          /\ UNCHANGED saved

Forget == /\ saved = inForce
          /\ saved' = NoSetting
          /\ UNCHANGED inForce

\* The user changes settings the application holds no claim on.
Choose == /\ saved = NoSetting
          /\ inForce' \in Setting
          /\ UNCHANGED saved

Next == Save \/ Change \/ Forget \/ Choose

Spec == Init /\ [][Next]_<<inForce, saved>>
=============================================================================
