------------------------- MODULE RequiredDocuments --------------------------
(***************************************************************************)
(* Which documents a route asks for: src/app/core/documents/registry.py.   *)
(* Countries are the strings the trip has; the code knows those below and  *)
(* treats every other one alike.                                           *)
(***************************************************************************)
EXTENDS FiniteSets

SacuMembers == {"ZA", "BW", "LS", "NA", "SZ"}

\* COUNTRY_SPECIFIC_DOCS: each of its countries asks for the bond.
BondCountries == {"ZW", "MZ", "ZMB", "MW", "DRC"}

MandatorySaOrigin ==
    {"commercial_invoice", "packing_list", "certificate_of_origin", "road_waybill",
     "customs_road_manifest", "sad_500", "export_declaration", "cbrrta_permit",
     "sadc_driver_certificate", "prdp", "git_insurance"}

MandatorySacu ==
    {"commercial_invoice", "packing_list", "road_waybill", "cbrrta_permit", "prdp",
     "git_insurance"}

IsSacuOnly(origin, destination, transit) ==
    {origin, destination} \union transit \subseteq SacuMembers

CountryDocs(destination, transit) ==
    IF ({destination} \union transit) \intersect BondCountries # {} THEN {"transit_bond"} ELSE {}

\* get_required_doc_types.  The list is deduplicated: a set.
RequiredDocTypes(origin, destination, transit) ==
    IF IsSacuOnly(origin, destination, transit) THEN MandatorySacu
    ELSE MandatorySaOrigin \union CountryDocs(destination, transit)
=============================================================================
