-------------------------------- MODULE Devices --------------------------------
(***************************************************************************)
(* The device registry (drv_device.c): a list of device objects, each with *)
(* a name and a status, which drivers are registered in, found by name,    *)
(* opened and closed.  Registering, opening, ... return the registry that  *)
(* results; when they return an error code it is the same one.             *)
(***************************************************************************)
EXTENDS Sequences, SequencesExt

CONSTANT Devs   \* the device objects of the drivers

NULL == "NULL"

ASSUME DevicesAssumption == NULL \notin Devs

Status == {"UNREGISTER", "REGISTERED", "OPENED", "CLOSED"}

(* head lists the registered devices, the last one registered first.       *)
Registry(Names) ==
    [head : Seq(Devs), name : [Devs -> Names], status : [Devs -> Status]]

(* Where the list has this name; the search takes the first.                *)
Places(reg, name) == {i \in DOMAIN reg.head : reg.name[reg.head[i]] = name}

device_find(reg, name) ==
    IF Places(reg, name) = {} THEN NULL ELSE reg.head[Min(Places(reg, name))]

device_register(reg, dev, name) ==
    IF dev \in Range(reg.head) THEN reg
    ELSE [head   |-> <<dev>> \o reg.head,
          name   |-> [reg.name EXCEPT ![dev] = name],
          status |-> [reg.status EXCEPT ![dev] = "REGISTERED"]]

device_unregister(reg, name) ==
    IF Places(reg, name) = {} THEN reg
    ELSE [reg EXCEPT !.head = RemoveAt(@, Min(Places(reg, name))),
                     !.status[device_find(reg, name)] = "UNREGISTER"]

MayOpen(reg, dev) == dev # NULL /\ reg.status[dev] \in {"REGISTERED", "CLOSED"}

device_open(reg, dev) ==
    IF MayOpen(reg, dev) THEN [reg EXCEPT !.status[dev] = "OPENED"] ELSE reg

(* Reading and writing do nothing unless the device is open.               *)
IsOpen(reg, dev) == reg.status[dev] = "OPENED"

device_close(reg, dev) ==
    IF IsOpen(reg, dev) THEN [reg EXCEPT !.status[dev] = "CLOSED"] ELSE reg
=============================================================================
