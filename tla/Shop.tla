---------------------------------- MODULE Shop ----------------------------------
(***************************************************************************)
(* What the shop offers: the promotions, which this module extends, a      *)
(* product's variants and the options of their groups, each an instance of *)
(* its own module.  They share no row; here are their properties.          *)
(***************************************************************************)
EXTENDS Promotions

CONSTANTS Requests   \* saves and edits in flight at once

-----------------------------------------------------------------------------
(* A product's variants. *)

CONSTANTS Sizes, Forms, MaxRows
VARIABLES known, onOffer, unica, habitual, variants, saveReq, saved

variantVars == <<known, onOffer, unica, habitual, variants, saveReq, saved>>

K == INSTANCE Catalog WITH req <- saveReq

-----------------------------------------------------------------------------
(* The options of groups, and the sizes that offer them. *)

CONSTANTS Items, NoItem, Groups, Options, GroupOf, Cups, LinkSets, OptionPrices, Quantities,
          Caps, Units, Strict, EditsAlone
VARIABLES group, option, links, editReq, accepted

optionVars == <<group, option, links, editReq, accepted>>

O == INSTANCE OptionGroups WITH
       Variants <- Cups, Prices <- OptionPrices, Alone <- EditsAlone, req <- editReq

-----------------------------------------------------------------------------
(* Properties. *)

\* The positions of a product's variants are 1..N whatever requests overlap, and a save that
\* nobody overlapped leaves on sale what its form lists, in its order, and nothing else.
SavedAsListed == K!OrderIsDense /\ K!SavedIsOnSale

\* A group that a variant offers is active, and the options of an included group cost nothing,
\* whichever way it became one and whatever edits of its options were on their way.
OfferedAsRuled == O!OfferedIsActive /\ O!IncludedIsFree
=============================================================================
