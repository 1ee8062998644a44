----------------------------- MODULE TofLifecycle -----------------------------
(***************************************************************************)
(* Loading, probing, removing and unloading of stmvl53l5cx_module.c: which   *)
(* resources it holds after every step that may fail, which of them its      *)
(* static flags say it holds, and what an open file or an interrupt that      *)
(* comes in between finds. An open file keeps the module from being unloaded *)
(* (fops.owner); the driver core probes once per load.                       *)
(***************************************************************************)
EXTENDS Integers

CONSTANTS MaxFiles   \* bound: files open at the same time

Resources == {"driver", "buffer", "misc", "gpio", "wq", "irq"}
ProbeSteps == {"allocate", "ids", "misc", "gpio", "direction", "own", "queue", "irq", "undo"}
ExitSteps == {"deregister", "delete", "free_irq", "put_gpio"}

VARIABLES at,        \* "out" of the kernel, a step of probe or of exit, or "in"
          held,      \* what is allocated, registered or initialised
          owned,     \* what the static flags say: i2c_driver_added, misc_registered,
                     \* intr_gpio_owned, irq_handler_registered
          wanted,    \* intr_gpio_nb # -1
          bound,     \* the driver core has a device bound to the driver
          files,     \* open files
          misused,   \* what was released without being held
          failed,    \* history: the step the probe of this load failed at, or "none"
          unbound    \* history: the device was unbound from the loaded driver
vars == <<at, held, owned, wanted, bound, files, misused, failed, unbound>>

TypeOK ==
  /\ at \in {"out", "in"} \cup ProbeSteps \cup ExitSteps
  /\ held \subseteq Resources /\ owned \subseteq Resources \ {"buffer", "wq"}
  /\ misused \subseteq Resources
  /\ files \in 0 .. MaxFiles
  /\ {wanted, bound, unbound} \subseteq BOOLEAN
  /\ failed \in {"none"} \cup ProbeSteps

Init ==
  /\ at = "out" /\ held = {} /\ owned = {} /\ wanted = TRUE /\ bound = FALSE
  /\ files = 0 /\ misused = {} /\ failed = "none" /\ unbound = FALSE
-----------------------------------------------------------------------------
Go(step, next) == at = step /\ at' = next

Take(r) == held' = held \cup {r} /\ UNCHANGED misused

Release(r) ==
  /\ held' = held \ {r}
  /\ misused' = IF r \in held THEN misused ELSE misused \cup {r}

\* probe returns to the driver core: only a probe that returned 0 is bound, and
\* will be removed.
Returns(rc) == bound' = (rc = 0) /\ failed' = IF rc = 0 THEN "none" ELSE at

\* st_tof_module_init with the device in the tree: i2c_add_driver probes, whatever
\* the probe returns. What an earlier load lost stays lost; the new one starts from
\* its own static variables.
Load ==
  /\ Go("out", "allocate")
  /\ held' = {"driver"} /\ owned' = {"driver"}
  /\ wanted' \in BOOLEAN
  /\ bound' = FALSE /\ failed' = "none" /\ unbound' = FALSE
  /\ UNCHANGED <<files, misused>>

\* i2c_add_driver fails, and a driver that was not added is deleted.
LoadFails ==
  /\ at = "out"
  /\ misused' = misused \cup {"driver"}
  /\ UNCHANGED <<at, held, owned, wanted, bound, files, failed, unbound>>

Allocate ==
  /\ \/ Go("allocate", "ids") /\ Take("buffer") /\ UNCHANGED <<bound, failed>>
     \/ Go("allocate", "in") /\ Returns(-1) /\ UNCHANGED <<held, misused>>
  /\ UNCHANGED <<owned, wanted, files, unbound>>

\* A sensor with other identities ends the probe with what the I2C messages
\* returned: 0 when they went well.
CheckIds ==
  /\ \/ Go("ids", "misc") /\ UNCHANGED <<bound, failed>>
     \/ \E rc \in {0, -1} : Go("ids", "in") /\ Returns(rc)
  /\ UNCHANGED <<held, owned, wanted, files, misused, unbound>>

RegisterMisc ==
  /\ \/ /\ Go("misc", "gpio") /\ Take("misc")
        /\ owned' = owned \cup {"misc"} /\ UNCHANGED <<bound, failed>>
     \/ Go("misc", "in") /\ Returns(-1) /\ UNCHANGED <<held, owned, misused>>
  /\ UNCHANGED <<wanted, files, unbound>>

\* get_gpio, or the end of the probe when no gpio is wanted.
RequestGpio ==
  /\ \/ wanted /\ Go("gpio", "direction") /\ Take("gpio") /\ UNCHANGED <<bound, failed>>
     \/ wanted /\ Go("gpio", "in") /\ Returns(-1) /\ UNCHANGED <<held, misused>>
     \/ ~wanted /\ Go("gpio", "in") /\ Returns(0) /\ UNCHANGED <<held, misused>>
  /\ UNCHANGED <<owned, wanted, files, unbound>>

SetDirection ==
  /\ \/ Go("direction", "own") /\ UNCHANGED <<held, misused, bound, failed>>
     \/ Go("direction", "in") /\ Release("gpio") /\ Returns(-1)
  /\ UNCHANGED <<owned, wanted, files, unbound>>

OwnGpio ==
  /\ Go("own", "queue") /\ owned' = owned \cup {"gpio"}
  /\ UNCHANGED <<held, wanted, bound, files, misused, failed, unbound>>

InitQueue ==
  /\ Go("queue", "irq") /\ Take("wq")
  /\ UNCHANGED <<owned, wanted, bound, files, failed, unbound>>

\* Mutant: a handler that could not be registered is no reason to fail.
RequestIrqLenient ==
  /\ \/ Go("irq", "in") /\ Take("irq") /\ owned' = owned \cup {"irq"} /\ Returns(0)
     \/ Go("irq", "in") /\ Release("buffer") /\ Returns(0) /\ UNCHANGED owned
  /\ UNCHANGED <<wanted, files, unbound>>

RequestIrq ==
  /\ \/ Go("irq", "in") /\ Take("irq") /\ owned' = owned \cup {"irq"} /\ Returns(0)
     \/ /\ Go("irq", "undo") /\ Release("buffer") /\ failed' = "irq"
        /\ UNCHANGED <<owned, bound>>
  /\ UNCHANGED <<wanted, files, unbound>>

\* Mutant: misc_registered stays up.
UndoForgotten ==
  /\ Go("undo", "in") /\ Release("misc")
  /\ UNCHANGED <<owned, wanted, bound, files, failed, unbound>>

\* misc_deregister of a probe that could not register the handler; files that are
\* open stay open.
Undo ==
  /\ Go("undo", "in") /\ Release("misc")
  /\ owned' = owned \ {"misc"}
  /\ UNCHANGED <<wanted, bound, files, failed, unbound>>
-----------------------------------------------------------------------------
\* A process opens the device, as soon as it is registered, or closes it.
Open ==
  /\ "misc" \in held /\ at \notin ExitSteps /\ files < MaxFiles
  /\ files' = files + 1
  /\ UNCHANGED <<at, held, owned, wanted, bound, misused, failed, unbound>>

Close ==
  /\ files > 0 /\ files' = files - 1
  /\ UNCHANGED <<at, held, owned, wanted, bound, misused, failed, unbound>>

\* stmvl53l5cx_remove frees the buffer if the pointer was ever set: a bound device
\* has one.
Remove == Release("buffer") /\ bound' = FALSE

\* The device is unbound while the module stays, and with it the misc device.
Unbind ==
  /\ at = "in" /\ bound /\ Remove /\ unbound' = TRUE
  /\ UNCHANGED <<at, owned, wanted, files, failed>>

\* st_tof_module_exit begins: nobody has the device open.
Unload ==
  /\ files = 0 /\ Go("in", "deregister")
  /\ UNCHANGED <<held, owned, wanted, bound, files, misused, failed, unbound>>

\* A step of the exit: what the flag says is held is released.
Drop(r) == IF r \in owned THEN Release(r) ELSE UNCHANGED <<held, misused>>

Deregister ==
  /\ Go("deregister", "delete") /\ Drop("misc") /\ owned' = owned \ {"misc"}
  /\ UNCHANGED <<wanted, bound, files, failed, unbound>>

\* i2c_del_driver, which removes the device that is bound.
DeleteDriver ==
  /\ Go("delete", "free_irq") /\ owned' = owned \ {"driver"} /\ bound' = FALSE
  /\ held' = held \ (IF bound THEN {"driver", "buffer"} ELSE {"driver"})
  /\ misused' = IF bound /\ "buffer" \notin held THEN misused \cup {"buffer"} ELSE misused
  /\ UNCHANGED <<wanted, files, failed, unbound>>

FreeIrq ==
  /\ Go("free_irq", "put_gpio") /\ Drop("irq")
  /\ UNCHANGED <<owned, wanted, bound, files, failed, unbound>>

PutGpio ==
  /\ Go("put_gpio", "out") /\ Drop("gpio")
  /\ UNCHANGED <<owned, wanted, bound, files, failed, unbound>>

Next ==
  \/ Load \/ LoadFails \/ Allocate \/ CheckIds \/ RegisterMisc \/ RequestGpio \/ SetDirection
  \/ OwnGpio \/ InitQueue \/ RequestIrq \/ Undo
  \/ Open \/ Close \/ Unbind
  \/ Unload \/ Deregister \/ DeleteDriver \/ FreeIrq \/ PutGpio

Spec == Init /\ [][Next]_vars
-----------------------------------------------------------------------------
(* Properties                                                               *)

\* However the probe ended, the unloaded module has nothing registered or requested
\* and has released nothing twice but the driver that could not be added. It has
\* lost the buffer exactly if the probe returned, with an error, at the identities
\* (339), at misc_register (351) or with what get_gpio returned (359-361 and 395):
\* those returns free nothing and leave no device bound that remove would free.
ReleasedAtExit ==
  /\ misused \subseteq {"driver"}
  /\ at = "out" => /\ held \cap {"driver", "misc", "gpio", "irq"} = {}
                   /\ "buffer" \in held <=> failed \in {"ids", "misc", "gpio", "direction"}

\* Whoever uses the resources of the driver, at whatever step. An interrupt finds
\* the queue initialised and the gpio requested, from the registration of the
\* handler to its release. An open file, whether the probe runs, failed or is undone:
\* a TRANSFER finds no buffer exactly if the device was unbound (398-403) or the
\* handler could not be registered (380, before and after the deregistration in
\* 381), and a WAIT an uninitialised queue exactly if no interrupt is wanted, the
\* probe is between 348 and 367, or get_gpio failed (359-361).
FoundByUsers ==
  /\ "irq" \in held => {"wq", "gpio"} \subseteq held
  /\ files > 0 =>
       /\ "buffer" \notin held <=> unbound \/ failed = "irq"
       /\ "wq" \notin held <=> \/ ~wanted
                              \/ at \in {"gpio", "direction", "own", "queue"}
                              \/ failed \in {"gpio", "direction"}
=============================================================================
