--------------------------- MODULE TokenMarketing ---------------------------
(***************************************************************************)
(* The marketing data and the logo of a cw20 token, the same in cw20-base  *)
(* and cw20-vesting. Texts are Given or None, a logo is its kind, whether  *)
(* it has the header of its kind and whether it is too big.                *)
(***************************************************************************)
CONSTANTS
    Callers,             \* accounts that call the token
    None,
    InitialMarketings,   \* None or [project, description, marketing, logo]
    Logos                \* [kind, header, big]

Given == "given"
Empty == "empty"         \* a text that is blank: the field is cleared

Uploads == [kind : {"url", "svg", "png"}, header : BOOLEAN, big : BOOLEAN]
MarketingData(logos) == [project : {None, Given}, description : {None, Given}, marketing : Callers \union {None}, logo : logos]

\* None is no value of a field.
ASSUME MarketingAssumption ==
    /\ Logos \subseteq Uploads /\ InitialMarketings \subseteq MarketingData(Uploads \union {None}) \union {None}
    /\ None \notin Uploads /\ None \notin {"url", "svg", "png", "embedded"}
    /\ None \notin MarketingData({None, "url", "embedded"})

VARIABLES marketing, logo    \* MARKETING_INFO, LOGO

publicity == <<marketing, logo>>

-----------------------------------------------------------------------------
(* Logos *)

\* verify_xml_logo, verify_png_logo
verify_logo(l) == l.kind = "url" \/ (l.header /\ ~l.big)

LogoInfo(l) == IF l.kind = "url" THEN "url" ELSE "embedded"

\* An embedded logo is returned with its type, otherwise there is none.
query_download_logo == IF logo = None \/ logo = "url" THEN None ELSE logo

query_marketing_info ==
    IF marketing = None THEN [project |-> None, description |-> None, marketing |-> None, logo |-> None] ELSE marketing

InitMarketing ==
    \E m \in InitialMarketings :
        IF m = None THEN marketing = None /\ logo = None
        ELSE /\ m.logo # None => verify_logo(m.logo)
             /\ logo = IF m.logo = None THEN None ELSE m.logo.kind
             /\ marketing = [m EXCEPT !.logo = IF @ = None THEN None ELSE LogoInfo(@)]

-----------------------------------------------------------------------------
(* Updates *)

Manages(sender) == marketing # None /\ marketing.marketing # None /\ marketing.marketing = sender

\* A field of the message: None leaves the old value, Empty clears it.
Field(old, given) == CASE given = None -> old [] given = Empty -> None [] OTHER -> given

\* Data without any field left are removed.
execute_update_marketing(sender, project, description, manager) ==
    LET info == [project |-> Field(marketing.project, project), description |-> Field(marketing.description, description),
                 marketing |-> Field(marketing.marketing, manager), logo |-> marketing.logo]
    IN
    /\ Manages(sender)
    /\ marketing' = IF \A f \in DOMAIN info : info[f] = None THEN None ELSE info
    /\ UNCHANGED logo

execute_upload_logo(sender, l) ==
    /\ verify_logo(l) /\ Manages(sender)
    /\ logo' = l.kind
    /\ marketing' = [marketing EXCEPT !.logo = LogoInfo(l)]

UpdatePublicity(u) ==
    \/ \E project, description \in {None, Empty, Given}, manager \in Callers \union {None, Empty} :
           execute_update_marketing(u, project, description, manager)
    \/ \E l \in Logos : execute_upload_logo(u, l)

-----------------------------------------------------------------------------
(* Properties *)

\* The logo that marketing data announce is the one that can be downloaded,
\* and data that are gone announce none.
LogoAnnounced ==
    /\ query_marketing_info.logo = IF logo = None THEN None ELSE IF logo = "url" THEN "url" ELSE "embedded"
    /\ query_marketing_info.logo = "embedded" <=> query_download_logo # None

=============================================================================
