-------------------------------- MODULE Leds -------------------------------
(***************************************************************************)
(* The LEDs of the demo tasks (gpio.c and the app tasks of kernel.c).  The *)
(* three LEDs are bits of one register, and each task toggles its own with *)
(* GPIO_PORTF_DATA_R ^= LED, which the CPU executes as a load, a change    *)
(* and a store; a task may be preempted between the load and the store.    *)
(***************************************************************************)
EXTENDS TaskLayer

LedOf == [t \in AppTasks |-> CASE t = 1 -> "GREEN_LED"
                               [] t = 2 -> "RED_LED"
                               [] t = 3 -> "BLUE_LED"]

VARIABLES
  GPIO_PORTF_DATA_R,   \* the LEDs that are on
  loaded,              \* what t has loaded from the register
  pc,                  \* where t is in its loop
  on                   \* history: has t toggled its LED an odd number of times?

ledVars == <<layerVars, GPIO_PORTF_DATA_R, loaded, pc, on>>

(* gpio_init has switched the LEDs off.                                    *)
LedInit ==
  /\ LayerInit
  /\ GPIO_PORTF_DATA_R = {}
  /\ loaded = [t \in AppTasks |-> {}]
  /\ pc = [t \in AppTasks |-> "load"]
  /\ on = [t \in AppTasks |-> FALSE]

(* The bit of an LED, inverted.                                            *)
Flip(register, led) ==
  IF led \in register THEN register \ {led} ELSE register \cup {led}

(* gpio_toggle_green_led, gpio_toggle_red_led, gpio_toggle_blue_led        *)
Load(t) ==
  /\ Executing(t)
  /\ pc[t] = "load"
  /\ loaded' = [loaded EXCEPT ![t] = GPIO_PORTF_DATA_R]
  /\ pc' = [pc EXCEPT ![t] = "store"]
  /\ UNCHANGED <<layerVars, GPIO_PORTF_DATA_R, on>>

Store(t) ==
  /\ Executing(t)
  /\ pc[t] = "store"
  /\ GPIO_PORTF_DATA_R' = Flip(loaded[t], LedOf[t])
  /\ on' = [on EXCEPT ![t] = ~@]
  /\ pc' = [pc EXCEPT ![t] = "sleep"]
  /\ UNCHANGED <<layerVars, loaded>>

Sleep(t) ==
  /\ os_sleep(t)
  /\ pc[t] = "sleep"
  /\ pc' = [pc EXCEPT ![t] = "load"]
  /\ UNCHANGED <<GPIO_PORTF_DATA_R, loaded, on>>

LedNext ==
  \/ CoreNext /\ UNCHANGED <<GPIO_PORTF_DATA_R, loaded, pc, on>>
  \/ \E t \in AppTasks : Load(t) \/ Store(t) \/ Sleep(t)

LedSpec == LedInit /\ [][LedNext]_ledVars

-----------------------------------------------------------------------------
(***************************************************************************)
(* Each task toggles its LED: "app_task_1: Toggle green LED", 500 ms       *)
(* (README.md:323), and so on, so an LED is on after an odd number of      *)
(* toggles of its own task, whatever the other tasks do.                   *)
(***************************************************************************)
EachTaskTogglesItsLed ==
  \A t \in AppTasks : LedOf[t] \in GPIO_PORTF_DATA_R <=> on[t]
=============================================================================
