---------------------------- MODULE MCDispatcher ----------------------------
(* Small configurations of Dispatcher: batches that fit the model, batches *)
(* that split evenly and unevenly, single tensors, an invalid batch.       *)
EXTENDS Dispatcher

Config(cpu, batch, model) == [cpu |-> cpu, batch |-> batch, model |-> model]

Batched == {Config("DEV", 2, 3), Config("DEV", 4, 2), Config("DEV", 5, 2),
            Config("DEV", 0, 2), Config("MLA", 0, 0)}
AllCpus == Batched \cup {Config("DEV", 1, 2), Config("EVXX", 0, 0)}
SingleTensor == {Config("DEV", 1, 2)}
=============================================================================
