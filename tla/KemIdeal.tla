-------------------------------- MODULE KemIdeal -------------------------------
(***************************************************************************)
(* What a key encapsulation promises, without saying how: a table.         *)
(* Encapsulating to a key invents a ciphertext and a secret.  Opening a    *)
(* ciphertext that was issued for the key returns the secret that went     *)
(* with it.  Opening anything else returns a secret nobody has, the same   *)
(* one each time.                                                          *)
(***************************************************************************)
VARIABLES issued,   (* [pk, ct, ss]: results of encapsulation              *)
          opened    (* [pk, ct, ss]: results of decapsulation              *)

idealVars == <<issued, opened>>

Known == {e.ss : e \in issued} \cup {o.ss : o \in opened}

IdealInit == issued = {} /\ opened = {}

IdealEncaps ==
  /\ \E e \in issued' \ issued :
       /\ issued' = issued \cup {e}
       /\ e.ss \notin Known
       /\ \A f \in issued : f.ct # e.ct
  /\ UNCHANGED opened

IdealDecaps ==
  /\ \E o \in opened' \ opened :
       /\ opened' = opened \cup {o}
       /\ \A p \in opened : (p.pk = o.pk /\ p.ct = o.ct) => p.ss = o.ss
       /\ IF \E e \in issued : e.pk = o.pk /\ e.ct = o.ct
            THEN \A e \in issued : (e.pk = o.pk /\ e.ct = o.ct) => o.ss = e.ss
            ELSE o.ss \notin Known
  /\ UNCHANGED issued

IdealSpec == IdealInit /\ [][IdealEncaps \/ IdealDecaps]_idealVars
================================================================================
