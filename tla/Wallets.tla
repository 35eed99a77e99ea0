------------------------------- MODULE Wallets -------------------------------
(***************************************************************************)
(* The Wallet table of prisma/schema.prisma: one row per user, two Decimal *)
(* columns.  Money is counted in cents, so that the two decimals the       *)
(* services round to are exact integers.                                   *)
(*                                                                         *)
(* The columns are plain Decimals: no CHECK keeps them from going below    *)
(* zero, so their type is Int and non-negativity is a property to check.   *)
(***************************************************************************)
EXTENDS Integers

Wallet == [balance : Int, reserved : Int]

(* wallet.update({ balance: { increment }, reserved: { increment } }): a    *)
(* relative write, applied by the database to the row's latest version.     *)
MoveBalanceOnly(wallet, u, toBalance, toReserved) ==
  [wallet EXCEPT ![u].balance = @ + toBalance]

Move(wallet, u, toBalance, toReserved) ==
  [wallet EXCEPT ![u] = [balance  |-> @.balance + toBalance,
                         reserved |-> @.reserved + toReserved]]

(* Percentages of a sum in cents, rounded half up to the cent as Prisma's   *)
(* Decimal.toDecimalPlaces(2) does.                                         *)
Percent(rate, cents) == (rate * cents + 50) \div 100
==============================================================================
