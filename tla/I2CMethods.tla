------------------------------ MODULE I2CMethods ------------------------------
(***************************************************************************)
(* The methods of I2CController one after another, on a bus on which       *)
(* nothing fails: what each puts on the bus, and a register of the device  *)
(* that write16() or write32() set and read16() or read32() read back.     *)
(***************************************************************************)
EXTENDS I2CTransfers

CONSTANT Counts   \* numbers of bytes of read(), write() and writeRead()

ASSUME CountsAssumption == Counts \subseteq Nat

VARIABLES onBus,      \* the transfers of the last method
          readCount,  \* history: the bytes it asks read() for, 1 if it does not call it
          register,   \* its bytes, in the order on the bus
          wordSent, wordRead, wordOrder    \* the caller's words and byteorder_t

methodVars == <<onBus, readCount, register, wordSent, wordRead, wordOrder>>

MethodsInit ==
    /\ onBus = <<>> /\ readCount = 1 /\ register = <<>>
    /\ wordSent = 0 /\ wordRead = 0 /\ wordOrder = FALSE

CallMethod ==
    /\ \/ /\ \/ onBus' \in BurstMethods(TRUE, TRUE) \cup RegisterMethods(TRUE, TRUE)
             \/ onBus' \in WriteMethods(Counts, TRUE, TRUE)
          /\ readCount' = 1
       \/ \E n \in Counts :
             /\ onBus' \in ReadMethods(n, Counts, TRUE, TRUE)
             /\ readCount' = n
    /\ UNCHANGED <<register, wordSent, wordRead, wordOrder>>

SendWord(v, n, bigEndian) ==
    /\ onBus' = IF n = 2 THEN Write16(TRUE, TRUE) ELSE Write32(TRUE, TRUE)
    /\ readCount' = 1
    /\ register' = BytesSent(v, n, bigEndian)
    /\ wordSent' = v /\ wordRead' = v /\ wordOrder' = bigEndian

ReceiveWord ==
    /\ register # <<>>
    /\ onBus' = IF Len(register) = 2 THEN Read16(TRUE, TRUE) ELSE Read32(TRUE, TRUE)
    /\ readCount' = 1
    /\ wordRead' = WordReceived(register, wordOrder)
    /\ UNCHANGED <<register, wordSent, wordOrder>>

MethodsNext ==
    \/ CallMethod
    \/ \E n \in {2, 4}, bigEndian \in BOOLEAN :
       \E v \in 0..Weight[n] * ByteValues - 1 : SendWord(v, n, bigEndian)
    \/ ReceiveWord

-----------------------------------------------------------------------------
(***************************************************************************)
(* Each method addresses the device once for each direction, with a start  *)
(* condition, and sends a stop condition after its last byte and no        *)
(* earlier, unless it reads 0 bytes, or so many that the index of read()   *)
(* does not get there: then it sends none, and with exactly IndexWrap      *)
(* bytes it sends the stop condition in time and reads on                  *)
(* (I2CController.cpp:158-721).                                            *)
(***************************************************************************)
StopAt ==
    CASE readCount \in 1..IndexWrap - 1 -> Len(onBus)
      [] readCount = IndexWrap -> Len(onBus) - 1
      [] OTHER -> 0

MethodsFramed ==
    \A i \in DOMAIN onBus :
        /\ onBus[i].start <=> (i = 1 \/ onBus[i].receive # onBus[i - 1].receive)
        /\ onBus[i].stop <=> i = StopAt

(***************************************************************************)
(* A word that is written is the word that is read back, with as many      *)
(* transfers as it has bytes, in either byte order                         *)
(* (I2CController.cpp:333-455).                                            *)
(***************************************************************************)
WordsKept == wordRead = wordSent
=============================================================================
