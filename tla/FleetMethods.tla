---------------------------- MODULE FleetMethods ----------------------------
(***************************************************************************)
(* The methods of AppClient, DataClient, BillingClient, MlTrainingClient    *)
(* and ProvisioningClient, each with what it makes of the answer:           *)
(*   nothing    waits for it and drops it (or returns null)                 *)
(*   field      it, or a part of it that every answer has                   *)
(*   optional   a part of it, undefined when that is missing                *)
(*   orNull     null when a part is missing                                 *)
(*   orEmpty    {} when a part is missing                                   *)
(*   wanted     throws when the part is missing                             *)
(*   collected  reads a stream to its end and puts its chunks together      *)
(*   rows       reads a stream to its end; throws at a row that lacks a part *)
(*   queued     pushes what a stream brings on a queue of the application   *)
(*   pages      a page object, whose nextPage asks for the next one         *)
(*   token      a page with the token the next call is to pass              *)
(*   tokenless  a page, without the token it came with                      *)
(*   upload     sends a file in chunks                                      *)
(*   paired     throws, before any request, when two lists differ in length *)
(***************************************************************************)

Rpcs(service, gives, rpcs) ==
    {[service |-> service, rpc |-> rpc, gives |-> gives] : rpc \in rpcs}

-----------------------------------------------------------------------------
(* AppClient *)

Organizations ==
    Rpcs("app", "field",
         {"getUserIDByEmail", "listOrganizations", "getOrganizationsWithAccessToLocation",
          "listOrganizationsByUser", "getOrganizationNamespaceAvailability"})
    \union Rpcs("app", "optional", {"createOrganization", "getOrganization"})

OrganizationMembers ==
    Rpcs("app", "optional", {"updateOrganization", "createOrganizationInvite"})
    \union Rpcs("app", "nothing", {"deleteOrganization"})
    \union Rpcs("app", "field", {"listOrganizationMembers"})

OrganizationInvites ==
    Rpcs("app", "optional", {"updateOrganizationInviteAuthorizations", "resendOrganizationInvite"})
    \union Rpcs("app", "nothing", {"deleteOrganizationMember", "deleteOrganizationInvite"})

Locations ==
    Rpcs("app", "optional", {"createLocation", "getLocation", "updateLocation"})
    \union Rpcs("app", "nothing", {"deleteLocation"})
    \union Rpcs("app", "field", {"listLocations"})

LocationSecrets ==
    Rpcs("app", "nothing", {"shareLocation", "unshareLocation", "deleteLocationSecret"})
    \union Rpcs("app", "optional", {"locationAuth", "createLocationSecret"})

RobotReads ==
    Rpcs("app", "optional", {"getRobot"})
    \union Rpcs("app", "field", {"getRoverRentalRobots", "getRobotParts", "getRobotPart",
                                 "getRobotPartByNameAndLocation"})

RobotPartLogs ==
    Rpcs("app", "token", {"getRobotPartLogs"})
    \union Rpcs("app", "queued", {"tailRobotPartLogs"})
    \union Rpcs("app", "field", {"getRobotPartHistory"})
    \union Rpcs("app", "optional", {"updateRobotPart"})

RobotPartKeys ==
    Rpcs("app", "field", {"newRobotPart", "getRobotAPIKeys"})
    \union Rpcs("app", "nothing", {"deleteRobotPart", "markPartAsMain", "markPartForRestart",
                                   "deleteRobotPartSecret"})
    \union Rpcs("app", "optional", {"createRobotPartSecret"})

Robots ==
    Rpcs("app", "field", {"listRobots", "newRobot"})
    \union Rpcs("app", "optional", {"updateRobot"})
    \union Rpcs("app", "nothing", {"deleteRobot"})

Fragments ==
    Rpcs("app", "field", {"listFragments"})
    \union Rpcs("app", "optional", {"getFragment", "createFragment", "updateFragment"})

Roles ==
    Rpcs("app", "nothing", {"deleteFragment", "addRole", "removeRole"})
    \union Rpcs("app", "field", {"listMachineFragments"})

Permissions ==
    Rpcs("app", "nothing", {"changeRole", "createRegistryItem"})
    \union Rpcs("app", "field", {"listAuthorizations", "checkPermissions"})
    \union Rpcs("app", "optional", {"getRegistryItem"})

Registry ==
    Rpcs("app", "nothing", {"updateRegistryItem", "deleteRegistryItem"})
    \union Rpcs("app", "tokenless", {"listRegistryItems"})
    \union Rpcs("app", "field", {"createModule"})

Modules ==
    Rpcs("app", "field", {"updateModule", "listModules", "createKey", "deleteKey"})
    \union Rpcs("app", "optional", {"getModule"})

ApiKeys ==
    Rpcs("app", "field", {"listKeys", "rotateKey", "createKeyFromExistingKeyAuthorizations",
                          "getAppContent"})
    \union Rpcs("app", "orEmpty", {"getOrganizationMetadata"})

Metadata ==
    Rpcs("app", "nothing", {"updateOrganizationMetadata", "updateLocationMetadata",
                            "updateRobotMetadata"})
    \union Rpcs("app", "orEmpty", {"getLocationMetadata", "getRobotMetadata",
                                   "getRobotPartMetadata"})

Branding ==
    Rpcs("app", "nothing", {"updateRobotPartMetadata"})
    \union Rpcs("app", "field", {"getAppBranding", "listMachineSummaries", "createOAuthAppUser"})

-----------------------------------------------------------------------------
(* DataClient *)

TabularExports ==
    Rpcs("data", "rows", {"exportTabularData"})
    \union Rpcs("data", "field", {"tabularDataBySQL"})

(* The page of a filter goes on from its "last". *)
TabularQueries ==
    Rpcs("data", "field", {"tabularDataByMQL"})
    \union Rpcs("data", "token", {"tabularDataByFilter"})

(* The methods that take binary data ids send what begins with no string as *)
(* deprecated BinaryIDs.                                                    *)
BinaryData ==
    Rpcs("data", "token", {"binaryDataByFilter"})
    \union Rpcs("data", "field", {"binaryDataByIds", "createBinaryDataSignedURL"})

DataDeletion ==
    Rpcs("data", "field", {"deleteTabularData", "deleteBinaryDataByFilter", "deleteBinaryDataByIds"})
    \union Rpcs("data", "nothing", {"addTagsToBinaryDataByIds"})

Tags ==
    Rpcs("data", "nothing", {"addTagsToBinaryDataByFilter"})
    \union Rpcs("data", "field", {"removeTagsFromBinaryDataByIds",
                                  "removeTagsFromBinaryDataByFilter", "tagsByFilter"})

BoundingBoxes ==
    Rpcs("data", "field", {"addBoundingBoxToImageById"})
    \union Rpcs("data", "nothing", {"removeBoundingBoxFromImageById"})

DatabaseUsers ==
    Rpcs("data", "nothing", {"updateBoundingBox", "configureDatabaseUser"})
    \union Rpcs("data", "field", {"boundingBoxLabelsByFilter", "getDatabaseConnection"})

DatasetContents ==
    Rpcs("data", "nothing", {"addBinaryDataToDatasetByIds", "removeBinaryDataFromDatasetByIds",
                             "deleteDataset", "renameDataset"})
    \union Rpcs("data", "field", {"createDataset"})

Datasets == Rpcs("data", "field", {"listDatasetsByOrganizationID", "listDatasetsByIds"})

CaptureUploads ==
    Rpcs("data", "paired", {"tabularDataCaptureUpload"})
    \union Rpcs("data", "field", {"binaryDataCaptureUpload"})

FileUploads == Rpcs("data", "upload", {"fileUpload"})

Pipelines ==
    Rpcs("data", "orNull", {"getLatestTabularData", "getDataPipeline"})
    \union Rpcs("data", "field", {"listDataPipelines", "createDataPipeline"})

PipelineRuns ==
    Rpcs("data", "pages", {"listDataPipelineRuns"})
    \union Rpcs("data", "nothing", {"deleteDataPipeline", "createIndex"})
    \union Rpcs("data", "field", {"listIndexes"})

SequenceMethods ==
    Rpcs("data", "nothing", {"deleteIndex", "updateSequence"})
    \union Rpcs("data", "field", {"createSequence"})
    \union Rpcs("data", "wanted", {"getSequence"})

SequenceLists ==
    Rpcs("data", "nothing", {"deleteSequence", "addSequencesToDataset",
                             "removeSequencesFromDataset"})
    \union Rpcs("data", "token", {"listSequences", "sequencesByDatasetID"})

SequenceExports == Rpcs("data", "field", {"startSequenceDatasetExport", "getSequenceDatasetExport"})

-----------------------------------------------------------------------------
(* BillingClient, MlTrainingClient, ProvisioningClient *)

Billing ==
    Rpcs("billing", "field", {"getCurrentMonthUsage", "getOrgBillingInformation",
                              "getInvoicesSummary"})
    \union Rpcs("billing", "collected", {"getInvoicePdf"})

MlTraining ==
    Rpcs("mltraining", "field", {"submitTrainingJob", "submitCustomTrainingJob",
                                 "listTrainingJobs"})
    \union Rpcs("mltraining", "optional", {"getTrainingJob"})
    \union Rpcs("mltraining", "nothing", {"cancelTrainingJob", "deleteCompletedTrainingJob"})

Provisioning ==
    Rpcs("provisioning", "field", {"getSmartMachineStatus", "getNetworkList"})
    \union Rpcs("provisioning", "nothing", {"setNetworkCredentials", "setSmartMachineCredentials"})

FleetMethods ==
    UNION {Organizations, OrganizationMembers, OrganizationInvites, Locations, LocationSecrets,
           RobotReads, RobotPartLogs, RobotPartKeys, Robots, Fragments, Roles, Permissions,
           Registry, Modules, ApiKeys, Metadata, Branding, TabularExports, TabularQueries,
           BinaryData, DataDeletion, Tags, BoundingBoxes, DatabaseUsers, DatasetContents,
           Datasets, CaptureUploads, FileUploads, Pipelines, PipelineRuns, SequenceMethods,
           SequenceLists, SequenceExports, Billing, MlTraining, Provisioning}

Streams(gives) == gives \in {"collected", "rows", "queued"}
Paged(gives) == gives \in {"pages", "token", "tokenless"}
=============================================================================
